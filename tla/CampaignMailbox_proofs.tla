----------------------- MODULE CampaignMailbox_proofs -----------------------
(***************************************************************************)
(* CampaignSending implements MailboxSend, for every value of the          *)
(* constants: each step of a worker slot is a step of a sender, or leaves  *)
(* all senders as they are.  What is proved of MailboxSend is therefore    *)
(* true of the campaign: the cap, and what the holder of the lock may rely *)
(* on.  From there the messages that were delivered and never recorded are *)
(* charged to faults, one to each.  With what CampaignSending_counts says  *)
(* of attempts and of first jobs, so are the messages that repeat a step.  *)
(*                                                                         *)
(* The slots of the campaign do not clear since and msg when they leave    *)
(* the mailbox, where senders do; that they are clear by then is Quiet.    *)
(***************************************************************************)
EXTENDS CampaignMailbox, CampaignSending_counts, CampaignSending_proofs

QuietSlot(s) ==
    /\ s.phase \notin {"sending", "accepted"} => s.since = 0
    /\ s.phase # "accepted" => s.msg = 0

Quiet == \A w \in Workers : QuietSlot(send[w])

Mapped == Typed /\ Quiet

-----------------------------------------------------------------------------
(* The senders.                                                            *)

\* What a sender is depends on its slot, and on the lead and the step of its
\* job, which do not change.
LEMMA SlotMapped ==
    ASSUME Typed, Follows(jobs, jobs'), NEW w \in Workers,
           send'[w].job = send[w].job, send'[w].phase = send[w].phase
    PROVE  phaseOf'[w] = phaseOf[w] /\ draftOf'[w] = draftOf[w]
<1>1. phaseOf'[w] = phaseOf[w]
    BY DEF phaseOf, Sending
<1>2. CASE Sending(w)
    <2>1. send[w].job \in DOMAIN jobs
        BY <1>2 DEF Sending, Typed, SlotsTyped, SlotTyped
    <2>2. JobOf(w)'.lead = JobOf(w).lead /\ JobOf(w)'.position = JobOf(w).position
        BY <2>1 DEF JobOf, Follows
    <2> QED  BY <1>1, <1>2, <2>2 DEF draftOf, Sending
<1>3. CASE ~Sending(w)
    BY <1>1, <1>3 DEF draftOf, Sending
<1> QED  BY <1>1, <1>2, <1>3

\* Steps that change no sender.
LEMMA SlotsMapped ==
    ASSUME Typed, Follows(jobs, jobs'),
           \A w \in Workers :
              \/ send'[w] = send[w]
              \/ /\ ~Sending(w) /\ ~Sending(w)'
                 /\ send'[w].since = send[w].since /\ send'[w].msg = send[w].msg
    PROVE  UNCHANGED <<phaseOf, draftOf, sinceOf, msgOf>>
<1>1. \A w \in Workers : phaseOf'[w] = phaseOf[w] /\ draftOf'[w] = draftOf[w]
    <2> SUFFICES ASSUME NEW w \in Workers
                 PROVE  phaseOf'[w] = phaseOf[w] /\ draftOf'[w] = draftOf[w]
        OBVIOUS
    <2>1. CASE send'[w] = send[w]
        BY <2>1, SlotMapped
    <2>2. CASE ~Sending(w) /\ ~Sending(w)'
        BY <2>2 DEF phaseOf, draftOf
    <2> QED  BY <2>1, <2>2
<1>2. phaseOf' = phaseOf
    BY <1>1 DEF phaseOf
<1>3. draftOf' = draftOf
    BY <1>1 DEF draftOf
<1>4. sinceOf' = sinceOf /\ msgOf' = msgOf
    BY DEF sinceOf, msgOf
<1> QED  BY <1>2, <1>3, <1>4

\* A function that changes at one argument.
LEMMA ChangedAt ==
    ASSUME NEW S, NEW f, NEW g, f = [x \in S |-> f[x]], g = [x \in S |-> g[x]],
           NEW w \in S, \A v \in S : v # w => g[v] = f[v]
    PROVE  g = [f EXCEPT ![w] = g[w]]
<1> DEFINE h == [f EXCEPT ![w] = g[w]]
<1>1. h = [x \in S |-> h[x]] /\ \A x \in S : h[x] = g[x]
    OBVIOUS
<1> HIDE DEF h
<1>2. h = [x \in S |-> g[x]]
    BY <1>1
<1> QED  BY <1>2 DEF h

\* Steps that change one sender.
LEMMA OneMapped ==
    ASSUME Typed, Follows(jobs, jobs'), NEW w \in Workers, NEW s,
           send' = [send EXCEPT ![w] = s]
    PROVE  /\ phaseOf' = [phaseOf EXCEPT ![w] = phaseOf'[w]]
           /\ draftOf' = [draftOf EXCEPT ![w] = draftOf'[w]]
           /\ sinceOf' = [sinceOf EXCEPT ![w] = sinceOf'[w]] /\ sinceOf'[w] = s.since
           /\ msgOf' = [msgOf EXCEPT ![w] = msgOf'[w]] /\ msgOf'[w] = s.msg
           /\ phaseOf'[w] = IF s.phase \in {"checked", "sending", "accepted"}
                            THEN s.phase ELSE "idle"
           /\ s.phase \notin {"checked", "sending", "accepted"} => draftOf'[w] = NoDraft
<1>1. send'[w] = s /\ \A v \in Workers : v # w => send'[v] = send[v]
    BY DEF Typed, TypeOK
<1>2. \A v \in Workers : v # w => phaseOf'[v] = phaseOf[v] /\ draftOf'[v] = draftOf[v]
    BY <1>1, SlotMapped
<1>3. phaseOf' = [phaseOf EXCEPT ![w] = phaseOf'[w]]
    <2>1. phaseOf = [v \in Workers |-> phaseOf[v]] /\ phaseOf' = [v \in Workers |-> phaseOf'[v]]
        BY DEF phaseOf
    <2> QED  BY <1>2, <2>1, ChangedAt
<1>4. draftOf' = [draftOf EXCEPT ![w] = draftOf'[w]]
    <2>1. draftOf = [v \in Workers |-> draftOf[v]] /\ draftOf' = [v \in Workers |-> draftOf'[v]]
        BY DEF draftOf
    <2> QED  BY <1>2, <2>1, ChangedAt
<1>5. /\ sinceOf' = [sinceOf EXCEPT ![w] = sinceOf'[w]] /\ sinceOf'[w] = s.since
      /\ msgOf' = [msgOf EXCEPT ![w] = msgOf'[w]] /\ msgOf'[w] = s.msg
    <2>1. sinceOf = [v \in Workers |-> sinceOf[v]] /\ sinceOf' = [v \in Workers |-> sinceOf'[v]]
        BY DEF sinceOf
    <2>2. msgOf = [v \in Workers |-> msgOf[v]] /\ msgOf' = [v \in Workers |-> msgOf'[v]]
        BY DEF msgOf
    <2>3. sinceOf'[w] = s.since /\ msgOf'[w] = s.msg
        BY <1>1 DEF sinceOf, msgOf
    <2>4. \A v \in Workers : v # w => sinceOf'[v] = sinceOf[v] /\ msgOf'[v] = msgOf[v]
        BY <1>1 DEF sinceOf, msgOf
    <2>5. sinceOf' = [sinceOf EXCEPT ![w] = sinceOf'[w]]
        BY <2>1, <2>4, ChangedAt
    <2>6. msgOf' = [msgOf EXCEPT ![w] = msgOf'[w]]
        BY <2>2, <2>4, ChangedAt
    <2> QED  BY <2>3, <2>5, <2>6
<1>6. /\ phaseOf'[w] = IF s.phase \in {"checked", "sending", "accepted"}
                       THEN s.phase ELSE "idle"
      /\ s.phase \notin {"checked", "sending", "accepted"} => draftOf'[w] = NoDraft
    BY <1>1 DEF phaseOf, draftOf, Sending
<1> QED  BY <1>3, <1>4, <1>5, <1>6

-----------------------------------------------------------------------------
(* Steps outside the mailbox.                                              *)

\* A slot that is not sending, and does not begin to.
LEMMA Outside ==
    ASSUME Typed, Follows(jobs, jobs'), NEW w \in Workers, NEW s,
           send' = [send EXCEPT ![w] = s], UNCHANGED <<day, suppressed, mail>>,
           ~Sending(w), s.phase \notin {"checked", "sending", "accepted"},
           s.since = send[w].since, s.msg = send[w].msg
    PROVE  UNCHANGED Mailbox!vars
<1>1. send'[w] = s /\ \A v \in Workers : v # w => send'[v] = send[v]
    BY DEF Typed, TypeOK
<1>2. UNCHANGED <<phaseOf, draftOf, sinceOf, msgOf>>
    BY <1>1, SlotsMapped DEF Sending
<1> QED  BY <1>2 DEF Mailbox!vars

\* No slot moves.
LEMMA NoSlot ==
    ASSUME Typed, Follows(jobs, jobs'), send' = send
    PROVE  UNCHANGED <<phaseOf, draftOf, sinceOf, msgOf>>
BY SlotsMapped

LEMMA LoadMapped ==
    ASSUME Mapped, NEW w \in Workers, Load(w)
    PROVE  UNCHANGED Mailbox!vars
<1> DEFINE j == send[w].job
           row == lead[jobs[j].lead]
           x == IF AcceptsSend(status, row, jobs[j].position) THEN "loaded" ELSE "ineligible"
           n == IF w \in LockingWorkers THEN jobs[j].attempts ELSE send[w].attempts
           s == [send[w] EXCEPT !.phase = x, !.attempts = n, !.snap = row]
<1>1. /\ send' = [send EXCEPT ![w] = s] /\ send[w].phase = "claimed"
      /\ UNCHANGED <<jobs, mail, suppressed, day>>
    BY DEF Load, tables
<1>2. send[w] \in Sends /\ Typed /\ Follows(jobs, jobs')
    BY <1>1 DEF Mapped, Typed, TypeOK, Follows
<1>3. x \in {"loaded", "ineligible"}
    OBVIOUS
<1> HIDE DEF row, x, n
<1>4. s.phase = x /\ s.since = send[w].since /\ s.msg = send[w].msg
    BY <1>2 DEF Sends
<1> HIDE DEF s
<1> QED  BY <1>1, <1>2, <1>3, <1>4, Outside DEF Sending

LEMMA NotClaimedMapped ==
    ASSUME Mapped, NEW w \in Workers, NotClaimed(w)
    PROVE  UNCHANGED Mailbox!vars
<1>1. /\ send' = [send EXCEPT ![w] = IdleSend] /\ send[w].phase = "claimed"
      /\ UNCHANGED <<jobs, mail, suppressed, day>>
    BY DEF NotClaimed, tables
<1>2. Typed /\ Follows(jobs, jobs')
    BY <1>1 DEF Mapped, Typed, TypeOK, Follows
<1>3. send[w].since = 0 /\ send[w].msg = 0
    BY <1>1 DEF Mapped, Quiet, QuietSlot
<1> QED  BY <1>1, <1>2, <1>3, Outside DEF Sending, IdleSend

\* The row is read again while the slot is where it was.
LEMMA ReadAgainMapped ==
    ASSUME Mapped, NEW w \in Workers, ReadAgain(w)
    PROVE  UNCHANGED Mailbox!vars
<1> DEFINE row == lead[JobOf(w).lead]
           s == [send[w] EXCEPT !.seen = row]
<1>1. /\ send' = [send EXCEPT ![w] = s]
      /\ UNCHANGED <<jobs, mail, suppressed, day>>
    BY DEF ReadAgain, tables
<1>2. send[w] \in Sends /\ send \in [Workers -> Sends] /\ Typed /\ Follows(jobs, jobs')
    BY <1>1 DEF Mapped, Typed, TypeOK, Follows
<1> HIDE DEF row
<1>3. /\ s.phase = send[w].phase /\ s.job = send[w].job
      /\ s.since = send[w].since /\ s.msg = send[w].msg
    BY <1>2 DEF Sends
<1> HIDE DEF s
<1>4. \A v \in Workers : /\ send'[v].phase = send[v].phase /\ send'[v].job = send[v].job
                         /\ send'[v].since = send[v].since /\ send'[v].msg = send[v].msg
    BY <1>1, <1>2, <1>3
<1>5. \A v \in Workers : phaseOf'[v] = phaseOf[v] /\ draftOf'[v] = draftOf[v]
    BY <1>2, <1>4, SlotMapped
<1>6. phaseOf' = phaseOf
    BY <1>5 DEF phaseOf
<1>7. draftOf' = draftOf
    BY <1>5 DEF draftOf
<1>8. sinceOf' = sinceOf /\ msgOf' = msgOf
    BY <1>4 DEF sinceOf, msgOf
<1> QED  BY <1>1, <1>6, <1>7, <1>8 DEF Mailbox!vars

-----------------------------------------------------------------------------
(* Steps of a sender.                                                      *)

LEMMA CheckMapped ==
    ASSUME Mapped, NEW w \in Workers, CheckSuppression(w)
    PROVE  \/ UNCHANGED Mailbox!vars
           \/ \E a \in Leads, b \in 1..Steps : Mailbox!Check(w, a, b)
<1> DEFINE x == IF JobOf(w).lead \in suppressed THEN "refused" ELSE "checked"
           s == [send[w] EXCEPT !.phase = x]
<1>1. /\ send' = [send EXCEPT ![w] = s] /\ send[w].phase = "loaded"
      /\ UNCHANGED <<jobs, mail, suppressed, day>>
    BY DEF CheckSuppression, Move, tables
<1>2. /\ send[w] \in Sends /\ Typed /\ Follows(jobs, jobs')
      /\ sinceOf[w] = send[w].since /\ msgOf[w] = send[w].msg
      /\ phaseOf[w] = "idle" /\ ~Sending(w)
    BY <1>1 DEF Mapped, Typed, TypeOK, Follows, sinceOf, msgOf, phaseOf, Sending
<1>3. /\ JobOf(w).lead \in suppressed => x = "refused"
      /\ JobOf(w).lead \notin suppressed => x = "checked"
    OBVIOUS
<1> HIDE DEF x
<1>4. s.phase = x /\ s.job = send[w].job /\ s.since = send[w].since /\ s.msg = send[w].msg
    BY <1>2 DEF Sends
<1> HIDE DEF s
<1>5. CASE JobOf(w).lead \in suppressed
    BY <1>1, <1>2, <1>3, <1>4, <1>5, Outside
<1>6. CASE JobOf(w).lead \notin suppressed
    <2>1. /\ phaseOf' = [phaseOf EXCEPT ![w] = "checked"]
          /\ draftOf' = [draftOf EXCEPT ![w] = draftOf'[w]]
          /\ sinceOf' = [sinceOf EXCEPT ![w] = sinceOf'[w]] /\ sinceOf'[w] = send[w].since
          /\ msgOf' = [msgOf EXCEPT ![w] = msgOf'[w]] /\ msgOf'[w] = send[w].msg
        <3>1. phaseOf'[w] = "checked"
            BY <1>1, <1>2, <1>3, <1>4, <1>6, OneMapped
        <3> QED  BY <1>1, <1>2, <1>4, <3>1, OneMapped
    <2>2. draftOf'[w] = [to |-> JobOf(w).lead, body |-> JobOf(w).position]
        <3>1. send'[w] = s /\ Sending(w)'
            BY <1>1, <1>2, <1>3, <1>4, <1>6 DEF Typed, TypeOK, Sending
        <3>2. JobOf(w)' = JobOf(w)
            BY <1>1, <1>4, <3>1 DEF JobOf
        <3> QED  BY <3>1, <3>2 DEF draftOf
    <2>3. sinceOf' = sinceOf /\ msgOf' = msgOf
        BY <1>2, <2>1 DEF sinceOf, msgOf
    <2>4. JobOf(w).lead \in Leads /\ JobOf(w).position \in 1..Steps
        <3>1. send[w].job \in DOMAIN jobs
            BY <1>1 DEF Mapped, Typed, SlotsTyped, SlotTyped
        <3> QED  BY <3>1, JobDomain DEF Mapped, Typed, TypeOK, JobOf, Jobs
    <2>5. Mailbox!Check(w, JobOf(w).lead, JobOf(w).position)
        BY <1>1, <1>2, <1>6, <2>1, <2>2, <2>3 DEF Mailbox!Check
    <2> QED  BY <2>4, <2>5
<1> QED  BY <1>5, <1>6

\* The instance counts with an operator of its own.
LEMMA MailboxCounts == \A S : Mailbox!Cardinality(S) = Cardinality(S)
BY DEF Mailbox!Cardinality, Cardinality

\* The lock and the cap are the same in both.
LEMMA GuardsMapped ==
    /\ Mailbox!Busy <=> \E v \in Workers : HoldsMailbox(v)
    /\ Mailbox!Capped <=> Cardinality(SentSince(day)) >= DailySendCap
<1>1. \A v \in Workers : Mailbox!HoldsLock(v) <=> HoldsMailbox(v)
    BY DEF Mailbox!HoldsLock, HoldsMailbox, phaseOf, Sending
<1>2. \A d : Mailbox!SentSince(d) = SentSince(d)
    BY DEF Mailbox!SentSince, SentSince
<1>3. Mailbox!Busy <=> \E v \in Workers : HoldsMailbox(v)
    BY <1>1 DEF Mailbox!Busy
<1>4. Mailbox!Capped <=> Cardinality(SentSince(day)) >= DailySendCap
    BY <1>2, MailboxCounts DEF Mailbox!Capped
<1> QED  BY <1>3, <1>4

\* A slot that leaves the mailbox.
LEMMA EndMapped ==
    ASSUME Typed, Follows(jobs, jobs'), NEW w \in Workers, NEW s,
           send' = [send EXCEPT ![w] = s],
           s.phase \notin {"checked", "sending", "accepted"}, s.since = 0, s.msg = 0
    PROVE  Mailbox!End(w)
<1>1. phaseOf'[w] = "idle" /\ draftOf'[w] = NoDraft /\ sinceOf'[w] = 0 /\ msgOf'[w] = 0
    BY OneMapped
<1>2. /\ phaseOf' = [phaseOf EXCEPT ![w] = "idle"]
      /\ draftOf' = [draftOf EXCEPT ![w] = NoDraft]
    BY <1>1, OneMapped
<1>3. sinceOf' = [sinceOf EXCEPT ![w] = 0] /\ msgOf' = [msgOf EXCEPT ![w] = 0]
    BY <1>1, OneMapped
<1> QED  BY <1>2, <1>3 DEF Mailbox!End

LEMMA TakeMailboxMapped ==
    ASSUME Mapped, NEW w \in Workers, TakeMailbox(w)
    PROVE  Mailbox!TakeMailbox(w) \/ Mailbox!Defer(w)
<1> DEFINE free == /\ \A v \in Workers : ~HoldsMailbox(v)
                   /\ Cardinality(SentSince(day)) < DailySendCap
           x == IF free THEN "sending" ELSE "deferred"
           y == IF free THEN day ELSE 0
           s == [send[w] EXCEPT !.phase = x, !.since = y]
<1>1. /\ send' = [send EXCEPT ![w] = s] /\ send[w].phase = "checked"
      /\ UNCHANGED <<jobs, mail, suppressed, day>>
    BY DEF TakeMailbox, tables
<1>2. /\ send[w] \in Sends /\ Typed /\ Follows(jobs, jobs')
      /\ phaseOf[w] = "checked" /\ Sending(w) /\ send[w].msg = 0
    BY <1>1 DEF Mapped, Quiet, QuietSlot, Typed, TypeOK, Follows, phaseOf, Sending
<1>3. free <=> ~Mailbox!Busy /\ ~Mailbox!Capped
    <2>1. Cardinality(SentSince(day)) \in Nat /\ DailySendCap \in Nat
        <3>1. SentSince(day) \subseteq 1..Len(mail) /\ Len(mail) \in Nat
            BY <1>2, LenProperties DEF SentSince, Typed, TypeOK
        <3>2. IsFiniteSet(1..Len(mail))
            BY <3>1, FS_Interval
        <3> QED  BY <3>1, <3>2, FS_Subset, FS_CardinalityType, SendingAssumption
    <2> QED  BY <2>1, GuardsMapped
<1>4. /\ free => x = "sending" /\ y = day
      /\ ~free => x = "deferred" /\ y = 0
    OBVIOUS
<1> HIDE DEF x, y, free
<1>5. s.phase = x /\ s.job = send[w].job /\ s.since = y /\ s.msg = 0
    BY <1>2 DEF Sends
<1> HIDE DEF s
<1>6. CASE free
    <2>1. /\ phaseOf' = [phaseOf EXCEPT ![w] = "sending"]
          /\ draftOf' = [draftOf EXCEPT ![w] = draftOf'[w]]
          /\ sinceOf' = [sinceOf EXCEPT ![w] = day]
          /\ msgOf' = [msgOf EXCEPT ![w] = msgOf'[w]] /\ msgOf'[w] = 0
        <3>1. phaseOf'[w] = "sending" /\ sinceOf'[w] = day /\ msgOf'[w] = 0
            BY <1>1, <1>2, <1>4, <1>5, <1>6, OneMapped
        <3> QED  BY <1>1, <1>2, <3>1, OneMapped
    <2>2. draftOf' = draftOf
        <3>1. send'[w] = s /\ Sending(w)'
            BY <1>1, <1>2, <1>4, <1>5, <1>6 DEF Typed, TypeOK, Sending
        <3>2. draftOf'[w] = draftOf[w]
            BY <1>1, <1>2, <1>5, <3>1 DEF draftOf, JobOf
        <3> QED  BY <2>1, <3>2 DEF draftOf
    <2>3. msgOf' = msgOf
        BY <1>2, <2>1 DEF msgOf
    <2> QED  BY <1>1, <1>2, <1>3, <1>6, <2>1, <2>2, <2>3 DEF Mailbox!TakeMailbox
<1>7. CASE ~free
    <2>1. Mailbox!End(w)
        BY <1>1, <1>2, <1>4, <1>5, <1>7, EndMapped
    <2> QED  BY <1>1, <1>2, <1>3, <1>7, <2>1 DEF Mailbox!Defer
<1> QED  BY <1>6, <1>7

\* The message that is delivered is the slot's draft.
LEMMA DeliverMapped ==
    ASSUME Mapped, NEW w \in Workers, send[w].phase = "sending", Deliver(w)
    PROVE  Mailbox!Deliver(w)
<1>1. Sending(w) /\ draftOf[w] = [to |-> JobOf(w).lead, body |-> JobOf(w).position]
    BY DEF Sending, draftOf
<1>2. sinceOf[w] = send[w].since
    BY DEF sinceOf
<1>3. draftOf[w].to = JobOf(w).lead /\ draftOf[w].body = JobOf(w).position
    BY <1>1
<1> QED  BY <1>2, <1>3 DEF Deliver, Mailbox!Deliver

LEMMA AcceptMapped ==
    ASSUME Mapped, NEW w \in Workers, ProviderAccepts(w)
    PROVE  Mailbox!Accept(w)
<1> DEFINE n == Len(mail) + 1
           s == [send[w] EXCEPT !.phase = "accepted", !.msg = n]
<1>1. /\ send' = [send EXCEPT ![w] = s] /\ send[w].phase = "sending"
      /\ Deliver(w) /\ UNCHANGED <<jobs, suppressed, day>>
    BY DEF ProviderAccepts, Deliver
<1>2. /\ send[w] \in Sends /\ Typed /\ Follows(jobs, jobs')
      /\ phaseOf[w] = "sending" /\ Sending(w)
    BY <1>1 DEF Mapped, Typed, TypeOK, Follows, phaseOf, Sending
<1> HIDE DEF n
<1>3. s.phase = "accepted" /\ s.job = send[w].job /\ s.since = send[w].since /\ s.msg = n
    BY <1>2 DEF Sends
<1> HIDE DEF s
<1>4. /\ phaseOf'[w] = "accepted" /\ sinceOf'[w] = send[w].since /\ msgOf'[w] = n
      /\ phaseOf' = [phaseOf EXCEPT ![w] = phaseOf'[w]]
      /\ draftOf' = [draftOf EXCEPT ![w] = draftOf'[w]]
      /\ sinceOf' = [sinceOf EXCEPT ![w] = sinceOf'[w]]
      /\ msgOf' = [msgOf EXCEPT ![w] = msgOf'[w]]
    BY <1>1, <1>2, <1>3, OneMapped
<1>5. draftOf' = draftOf
    <2>1. send'[w] = s /\ Sending(w)'
        BY <1>1, <1>2, <1>3 DEF Typed, TypeOK, Sending
    <2>2. draftOf'[w] = draftOf[w]
        BY <1>1, <1>2, <1>3, <2>1 DEF draftOf, JobOf
    <2> QED  BY <1>4, <2>2 DEF draftOf
<1>6. sinceOf' = sinceOf
    BY <1>4 DEF sinceOf
<1>7. /\ phaseOf' = [phaseOf EXCEPT ![w] = "accepted"]
      /\ msgOf' = [msgOf EXCEPT ![w] = Len(mail) + 1]
    BY <1>4 DEF n
<1> QED  BY <1>1, <1>2, <1>5, <1>6, <1>7, DeliverMapped DEF Mailbox!Accept

LEMMA LoseAnswerMapped ==
    ASSUME Mapped, NEW w \in Workers, AnswerLost(w)
    PROVE  Mailbox!LoseAnswer(w)
<1> DEFINE s == [send[w] EXCEPT !.phase = "failed", !.since = 0]
<1>1. /\ send' = [send EXCEPT ![w] = s] /\ send[w].phase = "sending"
      /\ Deliver(w) /\ UNCHANGED <<jobs, suppressed, day>>
    BY DEF AnswerLost, Deliver
<1>2. /\ send[w] \in Sends /\ Typed /\ Follows(jobs, jobs')
      /\ phaseOf[w] = "sending" /\ send[w].msg = 0
    BY <1>1 DEF Mapped, Quiet, QuietSlot, Typed, TypeOK, Follows, phaseOf, Sending
<1>3. s.phase = "failed" /\ s.since = 0 /\ s.msg = 0
    BY <1>2 DEF Sends
<1> HIDE DEF s
<1>4. Mailbox!End(w)
    BY <1>1, <1>2, <1>3, EndMapped
<1> QED  BY <1>1, <1>2, <1>4, DeliverMapped DEF Mailbox!LoseAnswer

LEMMA FailMapped ==
    ASSUME Mapped, NEW w \in Workers, DispatchFails(w)
    PROVE  UNCHANGED Mailbox!vars \/ Mailbox!Fail(w)
<1> DEFINE s == [send[w] EXCEPT !.phase = "failed", !.since = 0]
<1>1. /\ send' = [send EXCEPT ![w] = s]
      /\ send[w].phase \in {"loaded", "checked", "sending"}
      /\ UNCHANGED <<jobs, mail, suppressed, day>>
    BY DEF DispatchFails, tables
<1>2. send[w] \in Sends /\ Typed /\ Follows(jobs, jobs') /\ send[w].msg = 0
    BY <1>1 DEF Mapped, Quiet, QuietSlot, Typed, TypeOK, Follows
<1>3. s.phase = "failed" /\ s.since = 0 /\ s.msg = 0
    BY <1>2 DEF Sends
<1> HIDE DEF s
<1>4. CASE send[w].phase = "loaded"
    <2>1. send[w].since = 0 /\ ~Sending(w)
        BY <1>4 DEF Mapped, Quiet, QuietSlot, Sending
    <2> QED  BY <1>1, <1>2, <1>3, <2>1, Outside
<1>5. CASE send[w].phase \in {"checked", "sending"}
    <2>1. phaseOf[w] \in {"checked", "sending"}
        BY <1>5 DEF phaseOf, Sending
    <2>2. Mailbox!End(w)
        BY <1>1, <1>2, <1>3, EndMapped
    <2> QED  BY <1>1, <2>1, <2>2 DEF Mailbox!Fail
<1> QED  BY <1>1, <1>4, <1>5

LEMMA CommitMapped ==
    ASSUME Mapped, Typed', NEW w \in Workers, FinishSent(w)
    PROVE  Mailbox!Commit(w)
<1> DEFINE j == send[w].job
           done == [jobs EXCEPT ![j].status = "done", ![j].outbound = send[w].msg]
           next == Append(done, NewJob(jobs[j].lead, jobs[j].position + 1))
<1>1. /\ send' = [send EXCEPT ![w] = IdleSend] /\ send[w].phase = "accepted"
      /\ jobs' = IF IsLastStep(jobs[j].position) THEN done ELSE next
      /\ mail' = [mail EXCEPT ![send[w].msg].recorded = TRUE]
      /\ UNCHANGED <<suppressed, day>>
    BY DEF FinishSent, Finish
<1>2. Follows(jobs, jobs')
    BY <1>1, DoneJobs DEF Mapped
<1>3. /\ Typed /\ phaseOf[w] = "accepted" /\ msgOf[w] = send[w].msg
    BY <1>1 DEF Mapped, phaseOf, msgOf, Sending
<1>4. Mailbox!End(w)
    <2>1. /\ IdleSend.phase \notin {"checked", "sending", "accepted"}
          /\ IdleSend.since = 0 /\ IdleSend.msg = 0
        BY DEF IdleSend
    <2> QED  BY <1>1, <1>2, <1>3, <2>1, EndMapped
<1> QED  BY <1>1, <1>3, <1>4 DEF Mailbox!Commit

\* The other outcomes: the slot has left the mailbox before.
LEMMA FinishMapped ==
    ASSUME Mapped, NEW w \in Workers,
           \/ FinishSuppressed(w) \/ FinishFailed(w)
           \/ FinishDeferred(w) \/ FinishIneligible(w)
    PROVE  UNCHANGED Mailbox!vars
<1>1. /\ send' = [send EXCEPT ![w] = IdleSend]
      /\ send[w].phase \in Outcomes \ {"accepted"}
      /\ UNCHANGED <<mail, suppressed, day>>
    BY DEF FinishSuppressed, FinishFailed, FinishDeferred, FinishIneligible, Finish, Outcomes
<1>2. Follows(jobs, jobs')
    <2>1. ASSUME NEW x \in JobStatuses, jobs' = Set(w, x)
          PROVE  Follows(jobs, jobs')
        BY <1>1, <2>1, StatusJobs DEF Mapped
    <2>2. CASE FinishSuppressed(w) \/ FinishIneligible(w)
        BY <2>1, <2>2 DEF FinishSuppressed, FinishIneligible, Finish, JobStatuses
    <2>3. CASE FinishFailed(w)
        BY <2>1, <2>3 DEF FinishFailed, Finish, JobStatuses
    <2>4. CASE FinishDeferred(w)
        <3>1. jobs' = [jobs EXCEPT ![send[w].job].status = "pending",
                                   ![send[w].job].attempts = @ - 1]
            BY <2>4 DEF FinishDeferred, Finish
        <3> QED  BY <1>1, <3>1, ReleasedJobs DEF Mapped
    <2> QED  BY <2>2, <2>3, <2>4
<1>3. Typed /\ ~Sending(w) /\ send[w].since = 0 /\ send[w].msg = 0
    BY <1>1 DEF Mapped, Quiet, QuietSlot, Sending, Outcomes
<1>4. /\ IdleSend.phase \notin {"checked", "sending", "accepted"}
      /\ IdleSend.since = 0 /\ IdleSend.msg = 0
    BY DEF IdleSend
<1> QED  BY <1>1, <1>2, <1>3, <1>4, Outside

-----------------------------------------------------------------------------
(* The other steps.                                                        *)

\* A crash of slots is one of senders, if one of them was sending.
LEMMA CrashMapped ==
    ASSUME Mapped, NEW S \in SUBSET Workers, WorkersCrash(S)
    PROVE  UNCHANGED Mailbox!vars \/ Mailbox!Crash(S)
<1>1. /\ send' = [w \in Workers |-> IF w \in S THEN IdleSend ELSE send[w]]
      /\ UNCHANGED <<jobs, mail, suppressed, day>>
    BY DEF WorkersCrash, tables
<1>2. Typed /\ Follows(jobs, jobs')
    BY <1>1 DEF Mapped, Typed, TypeOK, Follows
<1>3. IdleSend.phase = "idle" /\ IdleSend.since = 0 /\ IdleSend.msg = 0
    BY DEF IdleSend
<1>4. CASE \A w \in S : ~Sending(w)
    <2>1. \A w \in S : send[w].since = 0 /\ send[w].msg = 0
        BY <1>4 DEF Mapped, Quiet, QuietSlot, Sending
    <2>2. \A w \in Workers : \/ send'[w] = send[w]
                             \/ /\ ~Sending(w) /\ ~Sending(w)'
                                /\ send'[w].since = send[w].since /\ send'[w].msg = send[w].msg
        BY <1>1, <1>3, <1>4, <2>1 DEF Sending
    <2>3. UNCHANGED <<phaseOf, draftOf, sinceOf, msgOf>>
        BY <1>2, <2>2, SlotsMapped
    <2> QED  BY <1>1, <2>3 DEF Mailbox!vars
<1>5. CASE \E w \in S : Sending(w)
    <2>1. \E w \in S : phaseOf[w] # "idle"
        BY <1>5 DEF phaseOf, Sending
    <2>2. \A w \in S : /\ send'[w] = IdleSend /\ ~Sending(w)'
                       /\ phaseOf'[w] = "idle" /\ draftOf'[w] = NoDraft
                       /\ sinceOf'[w] = 0 /\ msgOf'[w] = 0
        BY <1>1, <1>3 DEF phaseOf, draftOf, sinceOf, msgOf, Sending
    <2>3. \A w \in Workers \ S : /\ phaseOf'[w] = phaseOf[w] /\ draftOf'[w] = draftOf[w]
                                 /\ sinceOf'[w] = sinceOf[w] /\ msgOf'[w] = msgOf[w]
        <3>1. \A w \in Workers \ S : send'[w] = send[w]
            BY <1>1
        <3> QED  BY <1>2, <3>1, SlotMapped DEF sinceOf, msgOf
    <2>4. phaseOf' = [w \in Workers |-> IF w \in S THEN "idle" ELSE phaseOf[w]]
        <3>1. phaseOf' = [w \in Workers |-> phaseOf'[w]]
            BY DEF phaseOf
        <3> QED  BY <2>2, <2>3, <3>1
    <2>5. draftOf' = [w \in Workers |-> IF w \in S THEN NoDraft ELSE draftOf[w]]
        <3>1. draftOf' = [w \in Workers |-> draftOf'[w]]
            BY DEF draftOf
        <3> QED  BY <2>2, <2>3, <3>1
    <2>6. sinceOf' = [w \in Workers |-> IF w \in S THEN 0 ELSE sinceOf[w]]
        <3>1. sinceOf' = [w \in Workers |-> sinceOf'[w]]
            BY DEF sinceOf
        <3> QED  BY <2>2, <2>3, <3>1
    <2>7. msgOf' = [w \in Workers |-> IF w \in S THEN 0 ELSE msgOf[w]]
        <3>1. msgOf' = [w \in Workers |-> msgOf'[w]]
            BY DEF msgOf
        <3> QED  BY <2>2, <2>3, <3>1
    <2> QED  BY <1>1, <2>1, <2>4, <2>5, <2>6, <2>7 DEF Mailbox!Crash
<1> QED  BY <1>4, <1>5

\* A claim moves only slots that are idle.
LEMMA ClaimMapped ==
    ASSUME Mapped, NEW S \in SUBSET Workers, NEW batch \in [S -> DOMAIN jobs], Claim(batch)
    PROVE  UNCHANGED Mailbox!vars
<1> DEFINE claimed(w) == [IdleSend EXCEPT !.phase = "claimed", !.job = batch[w],
                                          !.attempts = jobs[batch[w]].attempts + 1]
<1>1. /\ send' = [w \in Workers |-> IF w \in S THEN claimed(w) ELSE send[w]]
      /\ \A w \in S : send[w].phase = "idle"
      /\ UNCHANGED <<mail, suppressed, day>>
    BY DEF Claim, ClaimJobs
<1>2. Typed /\ Follows(jobs, jobs')
    BY ClaimTyped DEF Mapped
<1>3. \A w \in S : claimed(w).phase = "claimed" /\ claimed(w).since = 0 /\ claimed(w).msg = 0
    BY DEF IdleSend
<1> HIDE DEF claimed
<1>4. \A w \in S : send[w].since = 0 /\ send[w].msg = 0 /\ ~Sending(w)
    BY <1>1 DEF Mapped, Quiet, QuietSlot, Sending
<1>5. \A w \in Workers : \/ send'[w] = send[w]
                         \/ /\ ~Sending(w) /\ ~Sending(w)'
                            /\ send'[w].since = send[w].since /\ send'[w].msg = send[w].msg
    BY <1>1, <1>3, <1>4 DEF Sending
<1>6. UNCHANGED <<phaseOf, draftOf, sinceOf, msgOf>>
    BY <1>2, <1>5, SlotsMapped
<1> QED  BY <1>1, <1>6 DEF Mailbox!vars

\* Requests and replies add, cancel and read jobs, and move no slot.
LEMMA ElsewhereMapped ==
    ASSUME Mapped, ClientNext \/ ReplyNext
    PROVE  UNCHANGED Mailbox!vars
<1>1. UNCHANGED <<send, mail, suppressed, day>>
    BY DEF ClientNext, AddLeadsRead, AddLeadsCommit, AddRows, AddLeadsConflict, StartRead,
           StartList, StartFlush, StartCommit, RequestUnchanged, ReplyNext, ReplyClaim,
           ReplyIgnored, ReplyLoad, ReplyReadAgain, ReplyFlush, ReplyCommit, ConsumerCrash,
           ReplyUnchanged, tables
<1>2. Typed /\ jobs \in Seq(Jobs) /\ Follows(jobs, jobs)
    BY DEF Mapped, Typed, TypeOK, Follows
<1>3. ASSUME NEW c \in Clients, AddLeadsCommit(c)
      PROVE  Follows(jobs, jobs')
    <2>1. request[c].leads \in SUBSET Leads
        BY <1>2 DEF Typed, TypeOK, Requests
    <2>2. jobs' = jobs \o FirstJobs(request[c].leads) \/ jobs' = jobs
        BY <1>3 DEF AddLeadsCommit, AddRows
    <2> QED  BY <1>2, <2>1, <2>2, JobsAdded
<1>4. ASSUME NEW c \in Clients, StartCommit(c)
      PROVE  Follows(jobs, jobs')
    <2>1. request[c].leads \in SUBSET Leads
        BY <1>2 DEF Typed, TypeOK, Requests
    <2>2. jobs' = jobs \o FirstJobs(request[c].leads)
        BY <1>4 DEF StartCommit
    <2> QED  BY <1>2, <2>1, <2>2, JobsAdded
<1>5. ASSUME NEW r \in Consumers, ReplyCommit(r)
      PROVE  Follows(jobs, jobs')
    BY <1>2, <1>5, ReplyCommitTyped
<1>6. \/ jobs' = jobs
      \/ \E c \in Clients : AddLeadsCommit(c) \/ StartCommit(c)
      \/ \E r \in Consumers : ReplyCommit(r)
    BY DEF ClientNext, AddLeadsRead, AddLeadsConflict, StartRead, StartList, StartFlush,
           ReplyNext, ReplyClaim, ReplyIgnored, ReplyLoad, ReplyReadAgain, ReplyFlush,
           ConsumerCrash, tables
<1>7. Follows(jobs, jobs')
    BY <1>2, <1>3, <1>4, <1>5, <1>6
<1> QED  BY <1>1, <1>2, <1>7, NoSlot DEF Mailbox!vars

\* A reply may suppress the address of its message.
LEMMA AnswerMapped ==
    ASSUME Mapped, NEW m \in DOMAIN mail, NEW i \in ReplyIntents, Answer(m, i)
    PROVE  UNCHANGED Mailbox!vars \/ \E a \in Leads : Mailbox!Suppress(a)
<1>1. /\ UNCHANGED <<send, jobs, mail, day>>
      /\ suppressed' = suppressed \/ suppressed' = suppressed \cup {mail[m].to}
    BY DEF Answer
<1>2. Typed /\ Follows(jobs, jobs') /\ mail[m].to \in Leads
    <2>1. Typed /\ Follows(jobs, jobs') /\ mail \in Seq(Mails)
        BY <1>1 DEF Mapped, Typed, TypeOK, Follows
    <2>2. mail[m] \in Mails
        BY <2>1, ElementOfSeq, LenProperties
    <2> QED  BY <2>1, <2>2 DEF Mails
<1>3. UNCHANGED <<phaseOf, draftOf, sinceOf, msgOf>>
    BY <1>1, <1>2, NoSlot
<1> QED  BY <1>1, <1>2, <1>3 DEF Mailbox!vars, Mailbox!Suppress

LEMMA NextDayMapped ==
    ASSUME Mapped, NextDay
    PROVE  Mailbox!NextDay
<1>1. /\ UNCHANGED <<send, jobs, mail, suppressed>> /\ day' = day + 1
      /\ \E i \in DOMAIN mail : mail[i].day = day
    BY DEF NextDay, tables
<1>2. UNCHANGED <<phaseOf, draftOf, sinceOf, msgOf>>
    <2>1. Typed /\ Follows(jobs, jobs')
        BY <1>1 DEF Mapped, Typed, TypeOK, Follows
    <2> QED  BY <1>1, <2>1, NoSlot
<1> QED  BY <1>1, <1>2 DEF Mailbox!NextDay

-----------------------------------------------------------------------------
(* The slots clear since and msg.                                          *)

LEMMA ProcessQuiet ==
    ASSUME Mapped, NEW w \in Workers,
           \/ Load(w) \/ NotClaimed(w) \/ CheckSuppression(w) \/ TakeMailbox(w)
           \/ ProviderAccepts(w) \/ AnswerLost(w) \/ DispatchFails(w) \/ ReadAgain(w)
           \/ FinishSent(w) \/ FinishSuppressed(w) \/ FinishFailed(w)
           \/ FinishDeferred(w) \/ FinishIneligible(w)
    PROVE  Quiet'
<1>1. send[w] \in Sends /\ QuietSlot(send[w]) /\ send \in [Workers -> Sends]
    BY DEF Mapped, Quiet, Typed, TypeOK
<1>2. ASSUME NEW s, send' = [send EXCEPT ![w] = s], QuietSlot(s)
      PROVE  Quiet'
    BY <1>1, <1>2 DEF Mapped, Quiet
<1>3. QuietSlot(IdleSend)
    BY DEF QuietSlot, IdleSend
<1>4. CASE Load(w)
    <2> DEFINE j == send[w].job
               row == lead[jobs[j].lead]
               x == IF AcceptsSend(status, row, jobs[j].position) THEN "loaded" ELSE "ineligible"
               n == IF w \in LockingWorkers THEN jobs[j].attempts ELSE send[w].attempts
               s == [send[w] EXCEPT !.phase = x, !.attempts = n, !.snap = row]
    <2>1. send' = [send EXCEPT ![w] = s] /\ send[w].phase = "claimed"
        BY <1>4 DEF Load
    <2>2. x \in {"loaded", "ineligible"}
        OBVIOUS
    <2> HIDE DEF row, x, n
    <2>3. s.phase = x /\ s.since = send[w].since /\ s.msg = send[w].msg
        BY <1>1 DEF Sends
    <2> HIDE DEF s
    <2>4. QuietSlot(s)
        BY <1>1, <2>1, <2>2, <2>3 DEF QuietSlot
    <2> QED  BY <1>2, <2>1, <2>4
<1>5. CASE CheckSuppression(w)
    <2> DEFINE x == IF JobOf(w).lead \in suppressed THEN "refused" ELSE "checked"
               s == [send[w] EXCEPT !.phase = x]
    <2>1. send' = [send EXCEPT ![w] = s] /\ send[w].phase = "loaded"
        BY <1>5 DEF CheckSuppression, Move
    <2>2. x \in {"refused", "checked"}
        OBVIOUS
    <2> HIDE DEF x
    <2>3. s.phase = x /\ s.since = send[w].since /\ s.msg = send[w].msg
        BY <1>1 DEF Sends
    <2> HIDE DEF s
    <2>4. QuietSlot(s)
        BY <1>1, <2>1, <2>2, <2>3 DEF QuietSlot
    <2> QED  BY <1>2, <2>1, <2>4
<1>6. CASE TakeMailbox(w)
    <2> DEFINE free == /\ \A v \in Workers : ~HoldsMailbox(v)
                       /\ Cardinality(SentSince(day)) < DailySendCap
               x == IF free THEN "sending" ELSE "deferred"
               y == IF free THEN day ELSE 0
               s == [send[w] EXCEPT !.phase = x, !.since = y]
    <2>1. send' = [send EXCEPT ![w] = s] /\ send[w].phase = "checked"
        BY <1>6 DEF TakeMailbox
    <2>2. x = "sending" \/ (x = "deferred" /\ y = 0)
        OBVIOUS
    <2> HIDE DEF free, x, y
    <2>3. s.phase = x /\ s.since = y /\ s.msg = send[w].msg
        BY <1>1 DEF Sends
    <2> HIDE DEF s
    <2>4. QuietSlot(s)
        BY <1>1, <2>1, <2>2, <2>3 DEF QuietSlot
    <2> QED  BY <1>2, <2>1, <2>4
<1>7. CASE ProviderAccepts(w)
    <2> DEFINE n == Len(mail) + 1
               s == [send[w] EXCEPT !.phase = "accepted", !.msg = n]
    <2>1. send' = [send EXCEPT ![w] = s]
        BY <1>7 DEF ProviderAccepts
    <2> HIDE DEF n
    <2>2. s.phase = "accepted"
        BY <1>1 DEF Sends
    <2> HIDE DEF s
    <2>3. QuietSlot(s)
        BY <2>2 DEF QuietSlot
    <2> QED  BY <1>2, <2>1, <2>3
<1>8. CASE AnswerLost(w) \/ DispatchFails(w)
    <2> DEFINE s == [send[w] EXCEPT !.phase = "failed", !.since = 0]
    <2>1. send' = [send EXCEPT ![w] = s] /\ send[w].phase \in {"loaded", "checked", "sending"}
        BY <1>8 DEF AnswerLost, DispatchFails
    <2>2. s.phase = "failed" /\ s.since = 0 /\ s.msg = send[w].msg
        BY <1>1 DEF Sends
    <2> HIDE DEF s
    <2>3. QuietSlot(s)
        BY <1>1, <2>1, <2>2 DEF QuietSlot
    <2> QED  BY <1>2, <2>1, <2>3
<1>9. CASE ReadAgain(w)
    <2> DEFINE row == lead[JobOf(w).lead]
               s == [send[w] EXCEPT !.seen = row]
    <2>1. send' = [send EXCEPT ![w] = s]
        BY <1>9 DEF ReadAgain
    <2> HIDE DEF row
    <2>2. s.phase = send[w].phase /\ s.since = send[w].since /\ s.msg = send[w].msg
        BY <1>1 DEF Sends
    <2> HIDE DEF s
    <2>3. QuietSlot(s)
        BY <1>1, <2>2 DEF QuietSlot
    <2> QED  BY <1>2, <2>1, <2>3
<1>10. CASE \/ NotClaimed(w) \/ FinishSent(w) \/ FinishSuppressed(w) \/ FinishFailed(w)
            \/ FinishDeferred(w) \/ FinishIneligible(w)
    <2>1. send' = [send EXCEPT ![w] = IdleSend]
        BY <1>10 DEF NotClaimed, FinishSent, FinishSuppressed, FinishFailed,
                     FinishDeferred, FinishIneligible, Finish
    <2> QED  BY <1>2, <1>3, <2>1
<1> QED  BY <1>4, <1>5, <1>6, <1>7, <1>8, <1>9, <1>10

LEMMA QuietStep == Mapped /\ [Next]_vars => Quiet'
<1> SUFFICES ASSUME Mapped, [Next]_vars PROVE Quiet'
    OBVIOUS
<1>1. ASSUME \A w \in Workers : send'[w] = send[w] \/ QuietSlot(send'[w])
      PROVE  Quiet'
    BY <1>1 DEF Mapped, Quiet
<1>2. QuietSlot(IdleSend)
    BY DEF QuietSlot, IdleSend
<1>3. CASE ClientNext \/ ReplyNext \/ PollNext \/ NextDay \/ UNCHANGED vars
    <2>1. send' = send
        BY <1>3, ElsewhereMapped
        DEF vars, PollNext, Answer, NextDay, ClientNext, AddLeadsRead, AddLeadsCommit, AddRows,
            AddLeadsConflict, StartRead, StartList, StartFlush, StartCommit, RequestUnchanged,
            ReplyNext, ReplyClaim, ReplyIgnored, ReplyLoad, ReplyReadAgain, ReplyFlush,
            ReplyCommit, ConsumerCrash, ReplyUnchanged
    <2> QED  BY <1>1, <2>1
<1>4. CASE ProcessNext
    BY <1>4, ProcessQuiet DEF ProcessNext
<1>5. CASE CrashNext
    <2>1. PICK S \in SUBSET Workers : WorkersCrash(S)
        BY <1>5 DEF CrashNext
    <2>2. \A w \in Workers : send'[w] = send[w] \/ send'[w] = IdleSend
        BY <2>1 DEF WorkersCrash
    <2> QED  BY <1>1, <1>2, <2>2
<1>6. CASE ClaimNext
    <2>0. PICK S \in SUBSET Workers : \E batch \in [S -> DOMAIN jobs] : Claim(batch)
        BY <1>6 DEF ClaimNext
    <2>1. PICK batch \in [S -> DOMAIN jobs] : Claim(batch)
        BY <2>0
    <2> DEFINE claimed(w) == [IdleSend EXCEPT !.phase = "claimed", !.job = batch[w],
                                              !.attempts = jobs[batch[w]].attempts + 1]
    <2>2. send' = [w \in Workers |-> IF w \in S THEN claimed(w) ELSE send[w]]
        BY <2>1 DEF Claim, ClaimJobs
    <2>3. \A w \in S : QuietSlot(claimed(w))
        BY DEF QuietSlot, IdleSend
    <2> HIDE DEF claimed
    <2>4. \A w \in Workers : send'[w] = send[w] \/ QuietSlot(send'[w])
        BY <2>2, <2>3
    <2> QED  BY <1>1, <2>4
<1> QED  BY <1>3, <1>4, <1>5, <1>6 DEF Next

-----------------------------------------------------------------------------
(* The refinement.                                                         *)

LEMMA MappedInitially == Init => Mapped /\ Mailbox!Init
<1> SUFFICES ASSUME Init PROVE Mapped /\ Mailbox!Init
    OBVIOUS
<1>1. \A w \in Workers : send[w] = IdleSend
    BY DEF Init
<1>2. IdleSend.phase = "idle" /\ IdleSend.since = 0 /\ IdleSend.msg = 0
    BY DEF IdleSend
<1>3. Mapped
    BY <1>1, <1>2, TypedInitially DEF Mapped, Quiet, QuietSlot
<1>4. /\ phaseOf = [w \in Workers |-> "idle"] /\ draftOf = [w \in Workers |-> NoDraft]
      /\ sinceOf = [w \in Workers |-> 0] /\ msgOf = [w \in Workers |-> 0]
    BY <1>1, <1>2 DEF phaseOf, draftOf, sinceOf, msgOf, Sending
<1> QED  BY <1>3, <1>4 DEF Init, Mailbox!Init

LEMMA ProcessMapped ==
    ASSUME Mapped, Typed', ProcessNext
    PROVE  [Mailbox!Next]_(Mailbox!vars)
<1>1. PICK w \in Workers :
          \/ Load(w) \/ NotClaimed(w) \/ CheckSuppression(w) \/ TakeMailbox(w)
          \/ ProviderAccepts(w) \/ AnswerLost(w) \/ DispatchFails(w) \/ ReadAgain(w)
          \/ FinishSent(w) \/ FinishSuppressed(w) \/ FinishFailed(w)
          \/ FinishDeferred(w) \/ FinishIneligible(w)
    BY DEF ProcessNext
<1>2. \/ UNCHANGED Mailbox!vars
      \/ \E a \in Leads, b \in 1..Steps : Mailbox!Check(w, a, b)
      \/ Mailbox!TakeMailbox(w) \/ Mailbox!Defer(w) \/ Mailbox!Accept(w)
      \/ Mailbox!LoseAnswer(w) \/ Mailbox!Fail(w) \/ Mailbox!Commit(w)
    BY <1>1, LoadMapped, NotClaimedMapped, CheckMapped, TakeMailboxMapped, AcceptMapped,
       LoseAnswerMapped, FailMapped, ReadAgainMapped, CommitMapped, FinishMapped
<1> QED  BY <1>2 DEF Mailbox!Next

\* Every step of the campaign is a step of the mailbox, or leaves it alone.
LEMMA MappedStep == Mapped /\ [Next]_vars => Mapped' /\ [Mailbox!Next]_(Mailbox!vars)
<1> SUFFICES ASSUME Mapped, [Next]_vars
             PROVE  Mapped' /\ [Mailbox!Next]_(Mailbox!vars)
    OBVIOUS
<1>1. Typed' /\ Mapped'
    BY QuietStep, TypedStep DEF Mapped
<1> SUFFICES [Mailbox!Next]_(Mailbox!vars)
    BY <1>1
<1>2. CASE ProcessNext
    BY <1>1, <1>2, ProcessMapped
<1>3. CASE ClientNext \/ ReplyNext
    BY <1>3, ElsewhereMapped
<1>4. CASE ClaimNext
    BY <1>4, ClaimMapped DEF ClaimNext
<1>5. CASE CrashNext
    BY <1>5, CrashMapped DEF CrashNext, Mailbox!Next
<1>6. CASE PollNext
    BY <1>6, AnswerMapped DEF PollNext, Mailbox!Next
<1>7. CASE NextDay
    BY <1>7, NextDayMapped DEF Mailbox!Next
<1>8. CASE UNCHANGED vars
    <2>1. UNCHANGED <<send, jobs, mail, suppressed, day>>
        BY <1>8 DEF vars
    <2>2. UNCHANGED <<phaseOf, draftOf, sinceOf, msgOf>>
        <3>1. Typed /\ Follows(jobs, jobs')
            BY <2>1 DEF Mapped, Typed, TypeOK, Follows
        <3> QED  BY <2>1, <3>1, NoSlot
    <2> QED  BY <2>1, <2>2 DEF Mailbox!vars
<1> QED  BY <1>2, <1>3, <1>4, <1>5, <1>6, <1>7, <1>8 DEF Next

\* The campaign's transactions keep the promise of the mailbox's senders: no
\* message leaves without the suppression check, the lock and the cap, and a
\* message is recorded only with the transaction that sent it.
THEOREM Implements == Spec => MailboxPromise
<1>1. Spec => Mailbox!Init /\ [][Mailbox!Next]_(Mailbox!vars)
    BY MappedInitially, MappedStep, PTL DEF Spec
<1> QED  BY <1>1 DEF MailboxPromise, Mailbox!Spec

-----------------------------------------------------------------------------
(* What the campaign inherits.                                             *)

Facts == INSTANCE MailboxSend_proofs WITH
    Senders <- Workers, Addresses <- Leads, Bodies <- 1..Steps,
    phase <- phaseOf, draft <- draftOf, since <- sinceOf, msg <- msgOf

LEMMA FactsCount == \A S : Facts!Cardinality(S) = Cardinality(S)
BY DEF Facts!Cardinality, Cardinality

\* What is proved of MailboxSend is proved of this instance of it.
LEMMA SameInstance ==
    /\ Mailbox!Init => Facts!Init
    /\ [Mailbox!Next]_(Mailbox!vars) => [Facts!Next]_(Facts!vars)
<1>1. Mailbox!Init => Facts!Init
    BY DEF Mailbox!Init, Facts!Init
<1>2. Mailbox!vars = Facts!vars /\ (UNCHANGED Mailbox!vars => UNCHANGED Facts!vars)
    BY DEF Mailbox!vars, Facts!vars
<1>3. \A w : (Facts!HoldsLock(w) <=> Mailbox!HoldsLock(w))
             /\ (Facts!Deliver(w) <=> Mailbox!Deliver(w)) /\ (Facts!End(w) <=> Mailbox!End(w))
    BY DEF Mailbox!HoldsLock, Facts!HoldsLock, Mailbox!Deliver, Facts!Deliver,
           Mailbox!End, Facts!End
<1>4. (Facts!Busy <=> Mailbox!Busy) /\ (Facts!Capped <=> Mailbox!Capped)
    <2>1. Facts!SentSince(day) = Mailbox!SentSince(day)
        BY DEF Facts!SentSince, Mailbox!SentSince
    <2> QED  BY <1>3, <2>1, MailboxCounts, FactsCount
             DEF Facts!Busy, Mailbox!Busy, Facts!Capped, Mailbox!Capped
<1>5. \A w, a, b : Mailbox!Check(w, a, b) => Facts!Check(w, a, b)
    BY DEF Mailbox!Check, Facts!Check
<1>6. \A w : /\ Mailbox!TakeMailbox(w) => Facts!TakeMailbox(w)
             /\ Mailbox!Defer(w) => Facts!Defer(w)
    BY <1>3, <1>4 DEF Mailbox!TakeMailbox, Facts!TakeMailbox, Mailbox!Defer, Facts!Defer
<1>7. \A w : /\ Mailbox!Accept(w) => Facts!Accept(w)
             /\ Mailbox!LoseAnswer(w) => Facts!LoseAnswer(w)
             /\ Mailbox!Fail(w) => Facts!Fail(w)
             /\ Mailbox!Commit(w) => Facts!Commit(w)
    BY <1>3 DEF Mailbox!Accept, Facts!Accept, Mailbox!LoseAnswer, Facts!LoseAnswer,
                Mailbox!Fail, Facts!Fail, Mailbox!Commit, Facts!Commit
<1>8. /\ \A S : Mailbox!Crash(S) => Facts!Crash(S)
      /\ \A a : Mailbox!Suppress(a) => Facts!Suppress(a)
      /\ Mailbox!NextDay => Facts!NextDay
    BY DEF Mailbox!Crash, Facts!Crash, Mailbox!Suppress, Facts!Suppress,
           Mailbox!NextDay, Facts!NextDay
<1>9. Mailbox!Next => Facts!Next
    BY <1>5, <1>6, <1>7, <1>8 DEF Mailbox!Next, Facts!Next
<1> QED  BY <1>1, <1>2, <1>9

\* The lock, the room under the cap and the cap, in the campaign's state.
Safe == Mapped /\ Facts!IInv

LEMMA SafeInitially == Init => Safe
BY MappedInitially, SameInstance, Facts!Initially, SendingAssumption DEF Safe

LEMMA SafeStep == Safe /\ [Next]_vars => Safe'
BY MappedStep, SameInstance, Facts!EveryStep, SendingAssumption DEF Safe

\* The senders of the campaign's mailbox keep the mailbox's invariant.
THEOREM SafeAlways == Spec => []Safe
BY SafeInitially, SafeStep, PTL DEF Spec

\* However many workers of whatever kind send for the campaign, whatever
\* crashes and however long a send takes: no day has more recorded messages
\* than the mailbox's daily cap.
THEOREM CapHolds == Spec => []CampaignRespectsCap
<1>1. Safe => CampaignRespectsCap
    <2> SUFFICES ASSUME Safe PROVE CampaignRespectsCap
        OBVIOUS
    <2>1. Facts!TypeOK /\ Facts!NoFutureMail /\ Facts!UnderCap
        BY DEF Safe, Facts!IInv
    <2>2. Facts!MailboxResponse.sent_today + Facts!MailboxResponse.remaining_today = DailySendCap
        BY <2>1, Facts!Reported, SendingAssumption
    <2>3. Mailbox!UnderCap
        BY <2>1, MailboxCounts, FactsCount DEF Facts!UnderCap, Mailbox!UnderCap
    <2>4. Mailbox!MailboxOverview = Facts!MailboxOverview
        <3>1. Facts!SentSince(day) = Mailbox!SentSince(day)
            BY DEF Facts!SentSince, Mailbox!SentSince
        <3> QED  BY <3>1, MailboxCounts, FactsCount
                 DEF Mailbox!MailboxOverview, Facts!MailboxOverview,
                     Mailbox!SentToday, Facts!SentToday
    <2>5. Mailbox!MailboxResponse = Facts!MailboxResponse
        BY <2>4 DEF Mailbox!MailboxResponse, Facts!MailboxResponse,
                    Mailbox!RemainingToday, Facts!RemainingToday
    <2> QED  BY <2>2, <2>3, <2>5 DEF CampaignRespectsCap, Mailbox!CapRespected
<1> QED  BY <1>1, SafeAlways, PTL

-----------------------------------------------------------------------------
(* Messages that were delivered and that nobody will record any more: each *)
(* has cost a fault, an answer or a transaction that was lost.             *)

Carried(i) == \E w \in Workers : send[w].phase = "accepted" /\ send[w].msg = i

Orphans == {i \in DOMAIN mail : ~mail[i].recorded /\ ~Carried(i)}

OrphansCharged == Cardinality(Orphans) <= faults

Charged == Safe /\ OrphansCharged

LEMMA MailFinite ==
    ASSUME Typed, NEW T \in SUBSET DOMAIN mail
    PROVE  IsFiniteSet(T) /\ Cardinality(T) \in Nat
<1>1. Len(mail) \in Nat /\ DOMAIN mail = 1..Len(mail)
    BY LenProperties DEF Typed, TypeOK
<1>2. IsFiniteSet(DOMAIN mail)
    BY <1>1, FS_Interval
<1> QED  BY <1>2, FS_Subset, FS_CardinalityType

\* No more orphans, and no fewer faults.
LEMMA NoMoreOrphans ==
    ASSUME Charged, Orphans' \subseteq Orphans, faults' \in Nat, faults' >= faults
    PROVE  OrphansCharged'
<1>1. Orphans \in SUBSET DOMAIN mail /\ Typed /\ faults \in Nat
    BY DEF Orphans, Charged, Safe, Mapped, Typed, TypeOK
<1>2. IsFiniteSet(Orphans) /\ Cardinality(Orphans) \in Nat
    BY <1>1, MailFinite
<1>3. Cardinality(Orphans') <= Cardinality(Orphans) /\ Cardinality(Orphans') \in Nat
    BY <1>2, FS_Subset, FS_CardinalityType
<1> QED  BY <1>1, <1>2, <1>3 DEF Charged, OrphansCharged

\* One orphan more, and one fault more.
LEMMA OneMoreOrphan ==
    ASSUME Charged, NEW i, Orphans' \subseteq Orphans \cup {i}, faults' = faults + 1
    PROVE  OrphansCharged'
<1>1. Orphans \in SUBSET DOMAIN mail /\ Typed /\ faults \in Nat
    BY DEF Orphans, Charged, Safe, Mapped, Typed, TypeOK
<1>2. IsFiniteSet(Orphans) /\ Cardinality(Orphans) \in Nat
    BY <1>1, MailFinite
<1>3. /\ IsFiniteSet(Orphans \cup {i})
      /\ Cardinality(Orphans \cup {i}) \in Nat
      /\ Cardinality(Orphans \cup {i}) <= Cardinality(Orphans) + 1
    <2>1. /\ IsFiniteSet(Orphans \cup {i})
          /\ \/ Cardinality(Orphans \cup {i}) = Cardinality(Orphans)
             \/ Cardinality(Orphans \cup {i}) = Cardinality(Orphans) + 1
        BY <1>2, FS_AddElement
    <2> QED  BY <1>2, <2>1
<1>4. Cardinality(Orphans') <= Cardinality(Orphans \cup {i}) /\ Cardinality(Orphans') \in Nat
    BY <1>3, FS_Subset, FS_CardinalityType
<1> QED  BY <1>1, <1>2, <1>3, <1>4 DEF Charged, OrphansCharged

\* Who carries a message goes on carrying it.
LEMMA StillCarried ==
    ASSUME mail' = mail,
           \A w \in Workers : send[w].phase = "accepted" =>
               send'[w].phase = "accepted" /\ send'[w].msg = send[w].msg
    PROVE  Orphans' \subseteq Orphans
BY DEF Orphans, Carried

\* The slot that holds the mailbox's lock holds it alone.
LEMMA OneCarrier ==
    ASSUME Safe, NEW v \in Workers, NEW w \in Workers,
           send[v].phase = "accepted", send[w].phase = "accepted"
    PROVE  v = w
<1>1. Facts!HoldsLock(v) /\ Facts!HoldsLock(w)
    BY DEF Facts!HoldsLock, phaseOf, Sending
<1> QED  BY <1>1 DEF Safe, Facts!IInv, Facts!HolderIsSafe, Facts!LockIsExclusive

LEMMA ProcessCharged ==
    ASSUME Charged, Typed', NEW w \in Workers,
           \/ Load(w) \/ NotClaimed(w) \/ CheckSuppression(w) \/ TakeMailbox(w)
           \/ ProviderAccepts(w) \/ AnswerLost(w) \/ DispatchFails(w) \/ ReadAgain(w)
           \/ FinishSent(w) \/ FinishSuppressed(w) \/ FinishFailed(w)
           \/ FinishDeferred(w) \/ FinishIneligible(w)
    PROVE  OrphansCharged'
<1>1. /\ send \in [Workers -> Sends] /\ send[w] \in Sends /\ Typed /\ Safe
      /\ mail \in Seq(Mails) /\ faults \in Nat
    BY DEF Charged, Safe, Mapped, Typed, TypeOK
<1>2. CASE ProviderAccepts(w)
    <2> DEFINE n == Len(mail) + 1
               s == [send[w] EXCEPT !.phase = "accepted", !.msg = n]
    <2>1. /\ send' = [send EXCEPT ![w] = s] /\ send[w].phase = "sending"
          /\ Deliver(w) /\ faults' = faults
        BY <1>2 DEF ProviderAccepts
    <2> HIDE DEF n
    <2>2. s.phase = "accepted" /\ s.msg = n
        BY <1>1 DEF Sends
    <2> HIDE DEF s
    <2>3. /\ DOMAIN mail' = DOMAIN mail \cup {n}
          /\ \A i \in DOMAIN mail : mail'[i] = mail[i]
        <3>1. PICK m \in Mails : mail' = Append(mail, m)
            BY <1>1, <2>1, Delivered
        <3> QED  BY <1>1, <3>1, MailAppended DEF n
    <2>4. /\ send'[w].phase = "accepted" /\ send'[w].msg = n
          /\ \A v \in Workers : v # w => send'[v] = send[v]
        BY <1>1, <2>1, <2>2
    <2>5. Orphans' \subseteq Orphans
        BY <2>1, <2>3, <2>4 DEF Orphans, Carried
    <2> QED  BY <1>1, <2>1, <2>5, NoMoreOrphans
<1>3. CASE AnswerLost(w)
    <2>1. /\ \A v \in Workers : v # w => send'[v] = send[v]
          /\ send[w].phase = "sending" /\ Deliver(w) /\ faults' = faults + 1
        BY <1>1, <1>3 DEF AnswerLost, Fault
    <2>2. /\ DOMAIN mail' = DOMAIN mail \cup {Len(mail) + 1}
          /\ \A i \in DOMAIN mail : mail'[i] = mail[i]
        <3>1. PICK m \in Mails : mail' = Append(mail, m)
            BY <1>1, <2>1, Delivered
        <3> QED  BY <1>1, <3>1, MailAppended
    <2>3. Orphans' \subseteq Orphans \cup {Len(mail) + 1}
        BY <2>1, <2>2 DEF Orphans, Carried
    <2> QED  BY <2>1, <2>3, OneMoreOrphan
<1>4. CASE FinishSent(w)
    <2>1. /\ \A v \in Workers : v # w => send'[v] = send[v]
          /\ send[w].phase = "accepted" /\ faults' = faults
          /\ mail' = [mail EXCEPT ![send[w].msg].recorded = TRUE]
        BY <1>1, <1>4 DEF FinishSent, Finish
    <2>2. send[w].msg \in DOMAIN mail
        BY <1>1, <2>1 DEF Typed, SlotsTyped, SlotTyped
    <2>3. /\ DOMAIN mail' = DOMAIN mail
          /\ \A i \in DOMAIN mail : mail[i].recorded => mail'[i].recorded
          /\ mail'[send[w].msg].recorded
        BY <1>1, <2>1, <2>2, MailRecorded
    <2>4. Orphans' \subseteq Orphans
        BY <2>1, <2>3 DEF Orphans, Carried
    <2> QED  BY <1>1, <2>1, <2>4, NoMoreOrphans
<1>5. CASE ReadAgain(w)
    <2> DEFINE row == lead[JobOf(w).lead]
               s == [send[w] EXCEPT !.seen = row]
    <2>1. send' = [send EXCEPT ![w] = s] /\ mail' = mail /\ faults' = faults
        BY <1>5 DEF ReadAgain, tables
    <2> HIDE DEF row
    <2>2. s.phase = send[w].phase /\ s.msg = send[w].msg
        BY <1>1 DEF Sends
    <2> HIDE DEF s
    <2>3. Orphans' \subseteq Orphans
        BY <1>1, <2>1, <2>2, StillCarried
    <2> QED  BY <1>1, <2>1, <2>3, NoMoreOrphans
<1>6. CASE \/ Load(w) \/ NotClaimed(w) \/ CheckSuppression(w) \/ TakeMailbox(w)
           \/ DispatchFails(w) \/ FinishSuppressed(w) \/ FinishFailed(w)
           \/ FinishDeferred(w) \/ FinishIneligible(w)
    <2>1. /\ \A v \in Workers : v # w => send'[v] = send[v]
          /\ send[w].phase # "accepted" /\ mail' = mail /\ faults' = faults
        BY <1>1, <1>6
        DEF Load, NotClaimed, CheckSuppression, Move, TakeMailbox, DispatchFails,
            FinishSuppressed, FinishFailed, FinishDeferred, FinishIneligible, Finish, tables
    <2>2. Orphans' \subseteq Orphans
        BY <2>1, StillCarried
    <2> QED  BY <1>1, <2>1, <2>2, NoMoreOrphans
<1> QED  BY <1>2, <1>3, <1>4, <1>5, <1>6

LEMMA ChargedStep == Charged /\ [Next]_vars => Charged'
<1> SUFFICES ASSUME Charged, [Next]_vars PROVE OrphansCharged'
    BY SafeStep DEF Charged
<1>1. Typed /\ Typed' /\ Safe /\ faults \in Nat
    BY TypedStep DEF Charged, Safe, Mapped, Typed, TypeOK
<1>2. CASE ProcessNext
    BY <1>1, <1>2, ProcessCharged DEF ProcessNext
<1>3. CASE ClientNext \/ PollNext \/ ReplyNext \/ NextDay \/ UNCHANGED vars
    <2>1. send' = send /\ mail' = mail /\ (faults' = faults \/ faults' = faults + 1)
        BY <1>3
        DEF vars, tables, PollNext, Answer, NextDay, ClientNext, AddLeadsRead, AddLeadsCommit,
            AddRows, AddLeadsConflict, StartRead, StartList, StartFlush, StartCommit,
            RequestUnchanged, ReplyNext, ReplyClaim, ReplyIgnored, ReplyLoad, ReplyReadAgain,
            ReplyFlush, ReplyCommit, ConsumerCrash, ReplyUnchanged, Fault
    <2>2. Orphans' \subseteq Orphans
        BY <2>1, StillCarried
    <2> QED  BY <1>1, <2>1, <2>2, NoMoreOrphans
<1>4. CASE ClaimNext
    <2>1. PICK S \in SUBSET Workers : \E batch \in [S -> DOMAIN jobs] : Claim(batch)
        BY <1>4 DEF ClaimNext
    <2>2. PICK batch \in [S -> DOMAIN jobs] : Claim(batch)
        BY <2>1
    <2>3. /\ \A w \in S : send[w].phase = "idle"
          /\ \A w \in Workers \ S : send'[w] = send[w]
          /\ mail' = mail
        BY <2>2 DEF Claim, ClaimJobs
    <2>4. faults' \in Nat /\ faults' >= faults
        BY <1>1, <2>2, ClaimFaults
    <2>5. Orphans' \subseteq Orphans
        BY <2>3, StillCarried
    <2> QED  BY <2>4, <2>5, NoMoreOrphans
<1>5. CASE CrashNext
    <2>1. PICK S \in SUBSET Workers : WorkersCrash(S)
        BY <1>5 DEF CrashNext
    <2>2. /\ \A w \in Workers \ S : send'[w] = send[w]
          /\ mail' = mail /\ faults' = faults + 1
        BY <2>1 DEF WorkersCrash, Fault, tables
    <2>3. CASE \E w \in S : send[w].phase = "accepted"
        <3>1. PICK w \in S : send[w].phase = "accepted"
            BY <2>3
        <3>2. \A v \in Workers : v # w /\ send[v].phase = "accepted" => v \notin S
            BY <1>1, <3>1, OneCarrier
        <3>3. Orphans' \subseteq Orphans \cup {send[w].msg}
            BY <2>2, <3>1, <3>2, OneCarrier, <1>1 DEF Orphans, Carried
        <3> QED  BY <2>2, <3>3, OneMoreOrphan
    <2>4. CASE \A w \in S : send[w].phase # "accepted"
        <3>1. Orphans' \subseteq Orphans
            BY <2>2, <2>4, StillCarried
        <3> QED  BY <1>1, <2>2, <3>1, NoMoreOrphans
    <2> QED  BY <2>3, <2>4
<1> QED  BY <1>2, <1>3, <1>4, <1>5 DEF Next

LEMMA ChargedInitially == Init => Charged
<1> SUFFICES ASSUME Init PROVE OrphansCharged
    BY SafeInitially DEF Charged
<1>1. Orphans = {} /\ faults = 0
    BY DEF Init, Orphans
<1> QED  BY <1>1, FS_EmptySet DEF OrphansCharged

\* Every message that no transaction will record has cost a fault.
THEOREM ChargedAlways == Spec => []Charged
BY ChargedInitially, ChargedStep, PTL DEF Spec

-----------------------------------------------------------------------------
(* The cap and the faults.                                                 *)

DatedOn(d) == {i \in DOMAIN mail : mail[i].day = d}
RecordedOn(d) == {i \in DOMAIN mail : mail[i].recorded /\ mail[i].day = d}

\* Finite sets: the size of a union.
LEMMA UnionBound ==
    ASSUME NEW S, NEW T, IsFiniteSet(S), IsFiniteSet(T), NEW m \in Nat, NEW n \in Nat,
           Cardinality(S) <= m, Cardinality(T) <= n, NEW U \in SUBSET (S \cup T)
    PROVE  Cardinality(U) <= m + n
<1>1. /\ IsFiniteSet(S \cup T)
      /\ Cardinality(S \cup T) = Cardinality(S) + Cardinality(T) - Cardinality(S \cap T)
    BY FS_Union
<1>2. Cardinality(S) \in Nat /\ Cardinality(T) \in Nat /\ Cardinality(S \cup T) \in Nat
    BY <1>1, FS_CardinalityType
<1>3. Cardinality(S \cap T) \in Nat
    <2>1. S \cap T \in SUBSET S
        OBVIOUS
    <2> QED  BY <2>1, FS_Subset, FS_CardinalityType
<1>4. Cardinality(U) <= Cardinality(S \cup T) /\ Cardinality(U) \in Nat
    BY <1>1, FS_Subset, FS_CardinalityType
<1> QED  BY <1>1, <1>2, <1>3, <1>4

\* A message is recorded, carried or an orphan.  A carried one has room under
\* the cap of its day; the orphans are charged to faults.
LEMMA CapOfDay ==
    ASSUME Charged, NEW d \in 0..day
    PROVE  Cardinality(DatedOn(d)) <= DailySendCap + faults
<1>1. /\ Typed /\ Safe /\ mail \in Seq(Mails) /\ faults \in Nat /\ DailySendCap \in Nat
      /\ Orphans \in SUBSET DOMAIN mail /\ RecordedOn(d) \in SUBSET DOMAIN mail
    BY SendingAssumption
    DEF Charged, Safe, Mapped, Typed, TypeOK, Orphans, RecordedOn
<1>2. /\ IsFiniteSet(Orphans) /\ Cardinality(Orphans) <= faults
      /\ IsFiniteSet(RecordedOn(d)) /\ Cardinality(RecordedOn(d)) \in Nat
    BY <1>1, MailFinite DEF Charged, OrphansCharged
<1>3. CASE \E w \in Workers : send[w].phase = "accepted" /\ mail[send[w].msg].day = d
    <2>1. PICK w \in Workers : send[w].phase = "accepted" /\ mail[send[w].msg].day = d
        BY <1>3
    <2> DEFINE m == send[w].msg
    <2>2. /\ phaseOf[w] = "accepted" /\ msgOf[w] = m /\ Facts!HoldsLock(w)
        BY <2>1 DEF phaseOf, msgOf, Sending, Facts!HoldsLock
    <2>3. /\ d >= sinceOf[w]
          /\ Facts!Cardinality(Facts!SentSince(sinceOf[w])) < DailySendCap
        BY <1>1, <2>1, <2>2
        DEF Safe, Facts!IInv, Facts!HolderIsSafe, Facts!RoomUnderLock, Facts!AcceptedIsOwn
    <2> DEFINE R == Facts!SentSince(sinceOf[w])
    <2>4. R \in SUBSET DOMAIN mail /\ RecordedOn(d) \in SUBSET R
        BY <2>3 DEF Facts!SentSince, RecordedOn
    <2>5. Cardinality(R) < DailySendCap /\ IsFiniteSet(R) /\ Cardinality(R) \in Nat
        <3>1. Cardinality(R) < DailySendCap
            BY <2>3, FactsCount
        <3> QED  BY <1>1, <2>4, <3>1, MailFinite
    <2> HIDE DEF R
    <2>6. Cardinality(RecordedOn(d)) <= Cardinality(R)
        BY <2>4, <2>5, FS_Subset
    <2>7. /\ IsFiniteSet(RecordedOn(d) \cup {m})
          /\ Cardinality(RecordedOn(d) \cup {m}) <= DailySendCap
        <3>1. /\ IsFiniteSet(RecordedOn(d) \cup {m})
              /\ \/ Cardinality(RecordedOn(d) \cup {m}) = Cardinality(RecordedOn(d))
                 \/ Cardinality(RecordedOn(d) \cup {m}) = Cardinality(RecordedOn(d)) + 1
            BY <1>2, FS_AddElement
        <3> QED  BY <1>1, <1>2, <2>5, <2>6, <3>1
    <2>8. DatedOn(d) \in SUBSET ((RecordedOn(d) \cup {m}) \cup Orphans)
        BY <1>1, <2>1, OneCarrier DEF DatedOn, RecordedOn, Orphans, Carried
    <2> QED  BY <1>1, <1>2, <2>7, <2>8, UnionBound
<1>4. CASE ~\E w \in Workers : send[w].phase = "accepted" /\ mail[send[w].msg].day = d
    <2>1. Cardinality(RecordedOn(d)) <= DailySendCap
        <3>1. Facts!UnderCap
            BY <1>1 DEF Safe, Facts!IInv
        <3> QED  BY <3>1, FactsCount DEF Facts!UnderCap, RecordedOn
    <2>2. DatedOn(d) \in SUBSET (RecordedOn(d) \cup Orphans)
        BY <1>4 DEF DatedOn, RecordedOn, Orphans, Carried
    <2> QED  BY <1>1, <1>2, <2>1, <2>2, UnionBound
<1> QED  BY <1>3, <1>4

\* Whatever the provider has accepted on a day beyond the cap was accepted
\* for an answer or a transaction that was lost.
THEOREM CapPlusFaultsHolds == Spec => []CapPlusFaults
<1>1. Charged => CapPlusFaults
    BY CapOfDay DEF CapPlusFaults, DatedOn
<1> QED  BY <1>1, ChargedAlways, PTL

-----------------------------------------------------------------------------
(* Messages that repeat a step.  Each message that a job of a lead's step  *)
(* was sent with, each slot that may still send one, and each such job     *)
(* that waits to be claimed, is paid for: one by the job, the others by    *)
(* faults.  What a step's messages cost beyond its jobs is a share of the  *)
(* faults of its own; and there are no more jobs of the next step than     *)
(* messages of this one, so that a repeated message, which repeats the     *)
(* steps that follow it, is not paid for again there.  f[k] is what the    *)
(* steps up to k have cost.                                                *)

\* A slot that may still have its job's message delivered.
Undelivered(s) == s.phase \notin {"idle", "accepted"}

Lot(l, k) == {j \in DOMAIN jobs : jobs[j].lead = l /\ jobs[j].position = k}

Waits(j) == jobs[j].status = "pending" \/ (jobs[j].status = "running" /\ ~InHand(j))

Open(l, k) == {j \in Lot(l, k) : Waits(j)}

Hands(l, k) == {w \in Workers : Undelivered(send[w]) /\ send[w].job \in Lot(l, k)}

Kept(l, k) == {i \in SentTo(l, k) : mail[i].recorded}

Spent(l, k) ==
    Cardinality(SentTo(l, k)) + Cardinality(Hands(l, k)) + Cardinality(Open(l, k))

\* Jobs of the next step follow recorded messages of this one.
FollowUps(l) ==
    \A k \in 1..Steps : k < Steps => Cardinality(Lot(l, k + 1)) <= Cardinality(Kept(l, k))

Costs(l, f) ==
    /\ f \in [0..Steps -> Nat]
    /\ \A k \in 0..Steps : f[k] <= faults
    /\ \A k \in 1..Steps :
          /\ Spent(l, k) <= Cardinality(Lot(l, k)) + f[k] - f[k - 1]
          /\ Cardinality(Lot(l, k)) <= 1 + f[k - 1]

PaidFor(l) == FollowUps(l) /\ \E f : Costs(l, f)

Ledger == Safe /\ Counted /\ Orderly /\ \A l \in Leads : PaidFor(l)

\* Everything the ledger counts can be counted.
Countable(l, k) ==
    /\ IsFiniteSet(SentTo(l, k)) /\ Cardinality(SentTo(l, k)) \in Nat
    /\ IsFiniteSet(Kept(l, k)) /\ Cardinality(Kept(l, k)) \in Nat
    /\ IsFiniteSet(Hands(l, k)) /\ Cardinality(Hands(l, k)) \in Nat
    /\ IsFiniteSet(Open(l, k)) /\ Cardinality(Open(l, k)) \in Nat
    /\ IsFiniteSet(Lot(l, k)) /\ Cardinality(Lot(l, k)) \in Nat
    /\ Spent(l, k) \in Nat /\ Cardinality(SentTo(l, k)) <= Spent(l, k)

AllCountable == \A l, k : Countable(l, k)

LEMMA CountsFinite == Typed => AllCountable
<1> SUFFICES ASSUME Typed, NEW l, NEW k PROVE Countable(l, k)
    BY DEF AllCountable
<1>1. SentTo(l, k) \in SUBSET DOMAIN mail /\ Kept(l, k) \in SUBSET DOMAIN mail
    BY DEF SentTo, Kept
<1>2. Hands(l, k) \in SUBSET Workers
    BY DEF Hands
<1>3. Lot(l, k) \in SUBSET DOMAIN jobs /\ Open(l, k) \in SUBSET Lot(l, k)
    BY DEF Lot, Open
<1>4. IsFiniteSet(DOMAIN jobs)
    <2>1. DOMAIN jobs = 1..Len(jobs) /\ Len(jobs) \in Nat
        BY JobDomain DEF Typed, TypeOK
    <2> QED  BY <2>1, FS_Interval
<1>5. IsFiniteSet(Lot(l, k)) /\ IsFiniteSet(Open(l, k))
    BY <1>3, <1>4, FS_Subset
<1>6. /\ IsFiniteSet(SentTo(l, k)) /\ Cardinality(SentTo(l, k)) \in Nat
      /\ IsFiniteSet(Kept(l, k)) /\ Cardinality(Kept(l, k)) \in Nat
      /\ IsFiniteSet(Hands(l, k)) /\ Cardinality(Hands(l, k)) \in Nat
      /\ IsFiniteSet(Open(l, k)) /\ Cardinality(Open(l, k)) \in Nat
      /\ IsFiniteSet(Lot(l, k)) /\ Cardinality(Lot(l, k)) \in Nat
    BY <1>1, <1>2, <1>5, MailFinite, SlotsFinite, FS_CardinalityType
<1> QED  BY <1>6 DEF Countable, Spent

LEMMA CountsFiniteNext == Typed' => AllCountable'
BY CountsFinite, PTL

\* Sizes of finite sets that differ little.
LEMMA OneMore ==
    ASSUME NEW S, IsFiniteSet(S), NEW x, NEW T \in SUBSET (S \cup {x})
    PROVE  IsFiniteSet(T) /\ Cardinality(T) \in Nat /\ Cardinality(T) <= Cardinality(S) + 1
<1>1. /\ IsFiniteSet(S \cup {x}) /\ Cardinality(S) \in Nat
      /\ \/ Cardinality(S \cup {x}) = Cardinality(S)
         \/ Cardinality(S \cup {x}) = Cardinality(S) + 1
    BY FS_AddElement, FS_CardinalityType
<1>2. IsFiniteSet(T) /\ Cardinality(T) <= Cardinality(S \cup {x})
    BY <1>1, FS_Subset
<1>3. Cardinality(T) \in Nat
    BY <1>2, FS_CardinalityType
<1> QED  BY <1>1, <1>2, <1>3

LEMMA NoMore ==
    ASSUME NEW S, IsFiniteSet(S), NEW T \in SUBSET S
    PROVE  IsFiniteSet(T) /\ Cardinality(T) \in Nat /\ Cardinality(T) <= Cardinality(S)
BY FS_Subset, FS_CardinalityType

LEMMA OneLess ==
    ASSUME NEW S, IsFiniteSet(S), NEW x \in S, NEW T \in SUBSET (S \ {x})
    PROVE  IsFiniteSet(T) /\ Cardinality(T) \in Nat /\ Cardinality(T) <= Cardinality(S) - 1
<1>1. IsFiniteSet(S \ {x}) /\ Cardinality(S \ {x}) = Cardinality(S) - 1
    BY FS_RemoveElement
<1>2. IsFiniteSet(T) /\ Cardinality(T) <= Cardinality(S \ {x})
    BY <1>1, FS_Subset
<1>3. Cardinality(T) \in Nat
    BY <1>2, FS_CardinalityType
<1> QED  BY <1>1, <1>2, <1>3

-----------------------------------------------------------------------------
(* What a step adds to the ledger of a lead.  The set D holds what it is   *)
(* charged for, p the step each of these belongs to.                       *)

Dear(l, k, n) ==
    /\ n \in Nat
    /\ Spent(l, k)' - Cardinality(Lot(l, k))' <= Spent(l, k) - Cardinality(Lot(l, k)) + n

\* The jobs of a step grow in number only with the messages of the step
\* before it, while the jobs of that step do not.
Grown(l, k) ==
    \/ Cardinality(Lot(l, k))' <= Cardinality(Lot(l, k))
    \/ k = 1 /\ Cardinality(Lot(l, k))' <= 1
    \/ k - 1 \in 1..Steps /\ Cardinality(Lot(l, k - 1))' <= Cardinality(Lot(l, k - 1))

LEMMA CostsMove ==
    ASSUME Typed, Typed', NEW l, PaidFor(l), FollowUps(l)',
           NEW D, IsFiniteSet(D), NEW p \in [D -> 1..Steps],
           faults' >= faults + Cardinality(D),
           \A k \in 1..Steps : Grown(l, k) /\ Dear(l, k, Cardinality({x \in D : p[x] = k}))
    PROVE  PaidFor(l)'
<1>1. PICK f : Costs(l, f)
    BY DEF PaidFor
<1> DEFINE A(k) == {x \in D : p[x] = k}
           B(k) == {x \in D : p[x] <= k}
           g == [k \in 0..Steps |-> f[k] + Cardinality(B(k))]
<1>2. /\ Steps \in Nat \ {0} /\ faults \in Nat /\ faults' \in Nat /\ Cardinality(D) \in Nat
      /\ \A k \in 0..Steps : f[k] \in Nat
    <2>1. faults \in Nat /\ faults' \in Nat
        BY DEF Typed, TypeOK
    <2>2. \A k \in 0..Steps : f[k] \in Nat
        BY <1>1 DEF Costs
    <2>3. Cardinality(D) \in Nat
        BY FS_CardinalityType
    <2> QED  BY <2>1, <2>2, <2>3, DomainAssumption
<1>3. \A k : /\ IsFiniteSet(A(k)) /\ Cardinality(A(k)) \in Nat
             /\ IsFiniteSet(B(k)) /\ Cardinality(B(k)) \in Nat /\ Cardinality(B(k)) <= Cardinality(D)
    <2> TAKE k
    <2>1. A(k) \in SUBSET D /\ B(k) \in SUBSET D
        OBVIOUS
    <2> QED  BY <2>1, NoMore
<1>4. ASSUME NEW k \in 1..Steps
      PROVE  Cardinality(B(k)) = Cardinality(B(k - 1)) + Cardinality(A(k))
    <2>1. B(k) = B(k - 1) \cup A(k) /\ B(k - 1) \cap A(k) = {}
        BY <1>2
    <2> HIDE DEF A, B
    <2>2. Cardinality(B(k - 1) \cup A(k))
              = Cardinality(B(k - 1)) + Cardinality(A(k)) - Cardinality(B(k - 1) \cap A(k))
        BY <1>3, FS_Union
    <2>3. Cardinality(B(k - 1) \cap A(k)) = 0
        BY <2>1, FS_EmptySet
    <2>4. Cardinality(B(k)) = Cardinality(B(k - 1) \cup A(k))
        BY <2>1
    <2> QED  BY <1>3, <2>2, <2>3, <2>4
<1> HIDE DEF A, B
<1>5. \A k \in 0..Steps : g[k] \in Nat /\ g[k] = f[k] + Cardinality(B(k)) /\ g[k] <= faults'
    <2> SUFFICES ASSUME NEW k \in 0..Steps
                 PROVE  g[k] \in Nat /\ g[k] = f[k] + Cardinality(B(k)) /\ g[k] <= faults'
        OBVIOUS
    <2>1. f[k] <= faults /\ g[k] = f[k] + Cardinality(B(k))
        BY <1>1 DEF Costs
    <2> HIDE DEF g
    <2> QED  BY <1>2, <1>3, <2>1
<1>6. g \in [0..Steps -> Nat]
    BY <1>2, <1>3
<1> HIDE DEF g
<1>7. ASSUME NEW k \in 1..Steps
      PROVE  Spent(l, k)' <= Cardinality(Lot(l, k))' + g[k] - g[k - 1]
    <2>1. Spent(l, k) <= Cardinality(Lot(l, k)) + f[k] - f[k - 1]
        BY <1>1 DEF Costs
    <2>2. Spent(l, k)' - Cardinality(Lot(l, k))'
              <= Spent(l, k) - Cardinality(Lot(l, k)) + Cardinality(A(k))
        BY DEF Dear, A
    <2>3. k \in 0..Steps /\ k - 1 \in 0..Steps
        BY <1>2
    <2>4. /\ g[k] = f[k] + Cardinality(B(k)) /\ g[k - 1] = f[k - 1] + Cardinality(B(k - 1))
          /\ f[k] \in Nat /\ f[k - 1] \in Nat
        BY <1>2, <1>5, <2>3
    <2>5. /\ Spent(l, k) \in Nat /\ Spent(l, k)' \in Nat
          /\ Cardinality(Lot(l, k)) \in Nat /\ Cardinality(Lot(l, k))' \in Nat
        BY CountsFinite, CountsFiniteNext DEF AllCountable, Countable
    <2> QED  BY <1>3, <1>4, <2>1, <2>2, <2>4, <2>5
<1>8. ASSUME NEW k \in 1..Steps
      PROVE  Cardinality(Lot(l, k))' <= 1 + g[k - 1]
    <2>0. k - 1 \in 0..Steps
        BY <1>2
    <2>1. /\ Cardinality(Lot(l, k)) <= 1 + f[k - 1] /\ f[k - 1] \in Nat
          /\ g[k - 1] = f[k - 1] + Cardinality(B(k - 1)) /\ g[k - 1] \in Nat
        BY <1>1, <1>2, <1>5, <2>0 DEF Costs
    <2>2. Cardinality(Lot(l, k)) \in Nat /\ Cardinality(Lot(l, k))' \in Nat
        BY CountsFinite, CountsFiniteNext DEF AllCountable, Countable
    <2>3. CASE Cardinality(Lot(l, k))' <= Cardinality(Lot(l, k))
        BY <1>3, <2>1, <2>2, <2>3
    <2>4. CASE Cardinality(Lot(l, k))' <= 1
        BY <2>1, <2>2, <2>4
    <2>5. CASE k - 1 \in 1..Steps /\ Cardinality(Lot(l, k - 1))' <= Cardinality(Lot(l, k - 1))
        <3> DEFINE h == k - 1
        <3>1. h \in 1..Steps /\ h < Steps /\ h + 1 = k /\ h - 1 \in 0..Steps
            BY <1>2, <2>5
        <3>2. Cardinality(Lot(l, k))' <= Cardinality(Kept(l, h))'
            <4>1. Cardinality(Lot(l, h + 1))' <= Cardinality(Kept(l, h))'
                BY <3>1 DEF FollowUps
            <4> QED  BY <3>1, <4>1
        <3>3. Cardinality(Kept(l, h))' <= Cardinality(SentTo(l, h))'
            <4>1. Kept(l, h)' \in SUBSET SentTo(l, h)'
                BY DEF Kept
            <4>2. IsFiniteSet(SentTo(l, h)')
                BY CountsFiniteNext DEF AllCountable, Countable
            <4> QED  BY <4>1, <4>2, FS_Subset
        <3>4. Spent(l, h)' <= Cardinality(Lot(l, h))' + g[h] - g[h - 1]
            BY <1>7, <3>1
        <3>5. Cardinality(Lot(l, h))' <= Cardinality(Lot(l, h))
            BY <2>5
        <3>6. Cardinality(Lot(l, h)) <= 1 + f[h - 1]
            BY <1>1, <3>1 DEF Costs
        <3>7. f[h - 1] <= g[h - 1] /\ f[h - 1] \in Nat /\ g[h - 1] \in Nat /\ g[h] \in Nat
            BY <1>2, <1>3, <1>5, <2>0, <3>1
        <3>8. /\ Cardinality(SentTo(l, h))' \in Nat /\ Spent(l, h)' \in Nat
              /\ Cardinality(SentTo(l, h))' <= Spent(l, h)' /\ Cardinality(Kept(l, h))' \in Nat
              /\ Cardinality(Lot(l, h)) \in Nat /\ Cardinality(Lot(l, h))' \in Nat
            BY CountsFinite, CountsFiniteNext DEF AllCountable, Countable
        <3> QED  BY <2>2, <3>2, <3>3, <3>4, <3>5, <3>6, <3>7, <3>8
    <2>6. Grown(l, k)
        OBVIOUS
    <2> QED  BY <2>3, <2>4, <2>5, <2>6 DEF Grown
<1>9. Costs(l, g)'
    BY <1>5, <1>6, <1>7, <1>8 DEF Costs
<1> QED  BY <1>9 DEF PaidFor

\* A step that is charged for nothing.
LEMMA CostsSame ==
    ASSUME Typed, Typed', NEW l, PaidFor(l), FollowUps(l)', faults' >= faults,
           \A k \in 1..Steps : Grown(l, k) /\ Dear(l, k, 0)
    PROVE  PaidFor(l)'
<1> DEFINE p == [x \in {} |-> 1]
<1>0. faults \in Nat /\ faults' \in Nat
    BY DEF Typed, TypeOK
<1>1. IsFiniteSet({}) /\ Cardinality({}) = 0
    BY FS_EmptySet
<1>2. \A k : {x \in {} : p[x] = k} = {}
    OBVIOUS
<1>3. p \in [{} -> 1..Steps]
    OBVIOUS
<1> HIDE DEF p
<1>4. \A k \in 1..Steps : Grown(l, k) /\ Dear(l, k, Cardinality({x \in {} : p[x] = k}))
    BY <1>1, <1>2
<1>5. faults' >= faults + Cardinality({})
    BY <1>0, <1>1
<1> QED  BY <1>1, <1>3, <1>4, <1>5, CostsMove

\* A step that is charged for one thing, at one step of the campaign.
LEMMA CostsOne ==
    ASSUME Typed, Typed', NEW l, PaidFor(l), FollowUps(l)', faults' = faults + 1,
           NEW b \in 1..Steps,
           \A k \in 1..Steps : Grown(l, k) /\ Dear(l, k, IF k = b THEN 1 ELSE 0)
    PROVE  PaidFor(l)'
<1> DEFINE p == [x \in {b} |-> b]
<1>0. faults \in Nat /\ faults' \in Nat
    BY DEF Typed, TypeOK
<1>1. IsFiniteSet({b}) /\ Cardinality({b}) = 1 /\ Cardinality({}) = 0
    BY FS_EmptySet, FS_Singleton
<1>2. \A k \in 1..Steps : {x \in {b} : p[x] = k} = IF k = b THEN {b} ELSE {}
    OBVIOUS
<1>3. p \in [{b} -> 1..Steps]
    OBVIOUS
<1> HIDE DEF p
<1>4. ASSUME NEW k \in 1..Steps
      PROVE  Grown(l, k) /\ Dear(l, k, Cardinality({x \in {b} : p[x] = k}))
    <2>1. Cardinality({x \in {b} : p[x] = k}) = IF k = b THEN 1 ELSE 0
        BY <1>1, <1>2
    <2> QED  BY <2>1
<1>5. faults' >= faults + Cardinality({b})
    BY <1>0, <1>1
<1> QED  BY <1>1, <1>3, <1>4, <1>5, CostsMove


-----------------------------------------------------------------------------
(* What a step does to the jobs of a lead's step.                          *)

\* Jobs that stay what they are.
LEMMA LotFollows ==
    ASSUME Follows(jobs, jobs'), NEW l, NEW k
    PROVE  /\ Lot(l, k) \subseteq Lot(l, k)'
           /\ \A j \in DOMAIN jobs : j \in Lot(l, k)' <=> j \in Lot(l, k)
           /\ DOMAIN jobs' = DOMAIN jobs => Lot(l, k)' = Lot(l, k)
BY DEF Follows, Lot

\* Mail that is kept, and recorded mail that stays so.
LEMMA SentStays ==
    ASSUME MailGrows, NEW l, NEW k
    PROVE  SentTo(l, k) \subseteq SentTo(l, k)' /\ Kept(l, k) \subseteq Kept(l, k)'
BY DEF MailGrows, SentTo, Kept

\* While no job is added, records cannot fall behind the jobs.
LEMMA FollowUpsStay ==
    ASSUME Typed, Typed', NEW l, FollowUps(l), MailGrows,
           Follows(jobs, jobs'), DOMAIN jobs' = DOMAIN jobs
    PROVE  FollowUps(l)' /\ \A k \in 1..Steps : Grown(l, k)
<1>1. \A k : Lot(l, k)' = Lot(l, k)
    BY LotFollows
<1>2. \A k : /\ Cardinality(Kept(l, k)) <= Cardinality(Kept(l, k))'
             /\ Cardinality(Kept(l, k)) \in Nat /\ Cardinality(Kept(l, k))' \in Nat
             /\ Cardinality(Lot(l, k)) \in Nat
    <2> TAKE k
    <2>1. Kept(l, k) \in SUBSET Kept(l, k)'
        BY SentStays
    <2>2. IsFiniteSet(Kept(l, k)')
        BY CountsFiniteNext DEF AllCountable, Countable
    <2>3. Cardinality(Kept(l, k)) <= Cardinality(Kept(l, k)')
        BY <2>1, <2>2, FS_Subset
    <2> QED  BY <2>3, CountsFinite, CountsFiniteNext DEF AllCountable, Countable
<1>3. \A k : Cardinality(Lot(l, k))' = Cardinality(Lot(l, k))
    BY <1>1
<1>4. FollowUps(l)'
    <2> SUFFICES ASSUME NEW k \in 1..Steps, k < Steps
                 PROVE  Cardinality(Lot(l, k + 1))' <= Cardinality(Kept(l, k))'
        BY DEF FollowUps
    <2>1. Cardinality(Lot(l, k + 1)) <= Cardinality(Kept(l, k))
        BY DEF FollowUps
    <2> QED  BY <1>2, <1>3, <2>1
<1> QED  BY <1>2, <1>3, <1>4 DEF Grown

\* What is spent, from what it consists of.
LEMMA SpentBound ==
    ASSUME Typed, Typed', NEW l, NEW k, NEW a \in Int, NEW b \in Int, NEW c \in Int,
           Cardinality(SentTo(l, k)') <= Cardinality(SentTo(l, k)) + a,
           Cardinality(Hands(l, k)') <= Cardinality(Hands(l, k)) + b,
           Cardinality(Open(l, k)') <= Cardinality(Open(l, k)) + c
    PROVE  Spent(l, k)' <= Spent(l, k) + a + b + c
<1>1. /\ Cardinality(SentTo(l, k)) \in Nat /\ Cardinality(SentTo(l, k)') \in Nat
      /\ Cardinality(Hands(l, k)) \in Nat /\ Cardinality(Hands(l, k)') \in Nat
      /\ Cardinality(Open(l, k)) \in Nat /\ Cardinality(Open(l, k)') \in Nat
    BY CountsFinite, CountsFiniteNext DEF AllCountable, Countable
<1>2. /\ Spent(l, k) = Cardinality(SentTo(l, k)) + Cardinality(Hands(l, k)) + Cardinality(Open(l, k))
      /\ Spent(l, k)' = Cardinality(SentTo(l, k)') + Cardinality(Hands(l, k)')
                            + Cardinality(Open(l, k)')
    BY DEF Spent
<1> QED  BY <1>1, <1>2

\* A step that adds no job and spends nothing.
LEMMA NothingSpent ==
    ASSUME Typed, Typed', NEW l, PaidFor(l), MailGrows, faults' >= faults,
           Follows(jobs, jobs'), DOMAIN jobs' = DOMAIN jobs,
           \A k \in 1..Steps : Spent(l, k)' <= Spent(l, k)
    PROVE  PaidFor(l)'
<1>1. FollowUps(l)' /\ \A k \in 1..Steps : Grown(l, k)
    BY FollowUpsStay DEF PaidFor
<1>2. ASSUME NEW k \in 1..Steps
      PROVE  Dear(l, k, 0)
    <2>1. /\ Spent(l, k) \in Nat /\ Spent(l, k)' \in Nat /\ Cardinality(Lot(l, k)) \in Nat
          /\ Cardinality(Lot(l, k))' = Cardinality(Lot(l, k))
        BY CountsFinite, CountsFiniteNext, LotFollows DEF AllCountable, Countable
    <2> QED  BY <2>1 DEF Dear
<1> QED  BY <1>1, <1>2, CostsSame

\* A step that adds no job, spends something at one step, and is a fault.
LEMMA OneSpent ==
    ASSUME Typed, Typed', NEW l, PaidFor(l), MailGrows, faults' = faults + 1,
           Follows(jobs, jobs'), DOMAIN jobs' = DOMAIN jobs, NEW b \in 1..Steps,
           \A k \in 1..Steps : Spent(l, k)' <= Spent(l, k) + (IF k = b THEN 1 ELSE 0)
    PROVE  PaidFor(l)'
<1>1. FollowUps(l)' /\ \A k \in 1..Steps : Grown(l, k)
    BY FollowUpsStay DEF PaidFor
<1>2. ASSUME NEW k \in 1..Steps
      PROVE  Dear(l, k, IF k = b THEN 1 ELSE 0)
    <2>1. /\ Spent(l, k) \in Nat /\ Spent(l, k)' \in Nat /\ Cardinality(Lot(l, k)) \in Nat
          /\ Cardinality(Lot(l, k))' = Cardinality(Lot(l, k))
        BY CountsFinite, CountsFiniteNext, LotFollows DEF AllCountable, Countable
    <2> QED  BY <2>1 DEF Dear
<1> QED  BY <1>1, <1>2, CostsOne

\* Steps that leave mail, jobs and their slots where they are.
LEMMA NothingMoves ==
    ASSUME Typed, Typed', NEW l, PaidFor(l), mail' = mail, faults' >= faults, jobs' = jobs,
           \A v \in Workers : /\ Undelivered(send'[v]) <=> Undelivered(send[v])
                              /\ send'[v].job = send[v].job
    PROVE  PaidFor(l)'
<1>1. /\ MailGrows /\ DOMAIN jobs' = DOMAIN jobs /\ Follows(jobs, jobs')
    BY DEF MailGrows, Follows, Typed, TypeOK
<1>2. ASSUME NEW k \in 1..Steps
      PROVE  Spent(l, k)' = Spent(l, k)
    <2>1. Lot(l, k)' = Lot(l, k) /\ SentTo(l, k)' = SentTo(l, k)
        BY DEF Lot, SentTo
    <2>2. Hands(l, k)' = Hands(l, k)
        BY <2>1 DEF Hands
    <2>3. Open(l, k)' = Open(l, k)
        BY <2>1 DEF Open, Waits, InHand
    <2> QED  BY <2>1, <2>2, <2>3 DEF Spent
<1>3. \A k \in 1..Steps : Spent(l, k)' <= Spent(l, k)
    BY <1>2, CountsFinite DEF AllCountable, Countable
<1> QED  BY <1>1, <1>3, NothingSpent


\* The step of the campaign that a slot is at.
LEMMA SlotAt ==
    ASSUME Typed, NEW w \in Workers, send[w].phase # "idle"
    PROVE  /\ send[w].job \in DOMAIN jobs /\ JobOf(w) \in Jobs
           /\ JobOf(w).lead \in Leads /\ JobOf(w).position \in 1..Steps
           /\ \A l, k : send[w].job \in Lot(l, k) <=> JobOf(w).lead = l /\ JobOf(w).position = k
<1>1. send[w].job \in DOMAIN jobs
    BY DEF Typed, SlotsTyped, SlotTyped
<1>2. JobOf(w) \in Jobs
    BY <1>1, JobDomain DEF Typed, TypeOK, JobOf
<1>3. JobOf(w).lead \in Leads /\ JobOf(w).position \in 1..Steps
    BY <1>2 DEF Jobs
<1> QED  BY <1>1, <1>2, <1>3 DEF Lot, JobOf

\* Sets that a step does not add to, or adds one element to.
LEMMA SentOver ==
    ASSUME Typed, Typed', NEW l, NEW k, NEW x
    PROVE  /\ SentTo(l, k)' \subseteq SentTo(l, k) =>
                  Cardinality(SentTo(l, k)') <= Cardinality(SentTo(l, k)) + 0
           /\ SentTo(l, k)' \subseteq SentTo(l, k) \cup {x} =>
                  Cardinality(SentTo(l, k)') <= Cardinality(SentTo(l, k)) + 1
<1>1. IsFiniteSet(SentTo(l, k)) /\ Cardinality(SentTo(l, k)) \in Nat
    BY CountsFinite DEF AllCountable, Countable
<1>2. SentTo(l, k)' \subseteq SentTo(l, k) =>
          Cardinality(SentTo(l, k)') <= Cardinality(SentTo(l, k)) + 0
    BY <1>1, NoMore
<1>3. SentTo(l, k)' \subseteq SentTo(l, k) \cup {x} =>
          Cardinality(SentTo(l, k)') <= Cardinality(SentTo(l, k)) + 1
    BY <1>1, OneMore
<1> QED  BY <1>2, <1>3

LEMMA HandsOver ==
    ASSUME Typed, Typed', NEW l, NEW k, NEW w
    PROVE  /\ Hands(l, k)' \subseteq Hands(l, k) =>
                  Cardinality(Hands(l, k)') <= Cardinality(Hands(l, k)) + 0
           /\ w \in Hands(l, k) /\ Hands(l, k)' \subseteq Hands(l, k) \ {w} =>
                  Cardinality(Hands(l, k)') <= Cardinality(Hands(l, k)) + (-1)
<1>1. IsFiniteSet(Hands(l, k)) /\ Cardinality(Hands(l, k)) \in Nat
    BY CountsFinite DEF AllCountable, Countable
<1>2. Hands(l, k)' \subseteq Hands(l, k) =>
          Cardinality(Hands(l, k)') <= Cardinality(Hands(l, k)) + 0
    BY <1>1, NoMore
<1>3. ASSUME w \in Hands(l, k), Hands(l, k)' \subseteq Hands(l, k) \ {w}
      PROVE  Cardinality(Hands(l, k)') <= Cardinality(Hands(l, k)) + (-1)
    <2>1. Hands(l, k)' \in SUBSET (Hands(l, k) \ {w})
        BY <1>3
    <2>2. /\ Cardinality(Hands(l, k)') \in Nat
          /\ Cardinality(Hands(l, k)') <= Cardinality(Hands(l, k)) - 1
        BY <1>1, <1>3, <2>1, OneLess
    <2> QED  BY <1>1, <2>2
<1> QED  BY <1>2, <1>3

LEMMA OpenOver ==
    ASSUME Typed, Typed', NEW l, NEW k, NEW x
    PROVE  /\ Open(l, k)' \subseteq Open(l, k) =>
                  Cardinality(Open(l, k)') <= Cardinality(Open(l, k)) + 0
           /\ Open(l, k)' \subseteq Open(l, k) \cup {x} =>
                  Cardinality(Open(l, k)') <= Cardinality(Open(l, k)) + 1
<1>1. IsFiniteSet(Open(l, k)) /\ Cardinality(Open(l, k)) \in Nat
    BY CountsFinite DEF AllCountable, Countable
<1>2. Open(l, k)' \subseteq Open(l, k) =>
          Cardinality(Open(l, k)') <= Cardinality(Open(l, k)) + 0
    BY <1>1, NoMore
<1>3. Open(l, k)' \subseteq Open(l, k) \cup {x} =>
          Cardinality(Open(l, k)') <= Cardinality(Open(l, k)) + 1
    BY <1>1, OneMore
<1> QED  BY <1>2, <1>3

\* A slot whose message was not delivered lets its job go: the job may wait
\* again, and the slot does not send any more.
LEMMA SlotLeaves ==
    ASSUME Typed, Typed', NEW l, PaidFor(l), mail' = mail, faults' >= faults,
           Follows(jobs, jobs'), DOMAIN jobs' = DOMAIN jobs,
           NEW w \in Workers, send[w].phase # "idle", Undelivered(send[w]),
           send'[w] = IdleSend, \A v \in Workers : v # w => send'[v] = send[v],
           \A j \in DOMAIN jobs : j # send[w].job => jobs'[j] = jobs[j]
    PROVE  PaidFor(l)'
<1> DEFINE i == send[w].job
<1>1. MailGrows
    BY DEF MailGrows
<1>2. ASSUME NEW k \in 1..Steps
      PROVE  Spent(l, k)' <= Spent(l, k)
    <2>1. SentTo(l, k)' \subseteq SentTo(l, k) /\ Lot(l, k)' = Lot(l, k)
        BY LotFollows DEF SentTo
    <2>2. Hands(l, k)' \subseteq Hands(l, k) \ {w}
        BY <2>1 DEF Hands, Undelivered, IdleSend
    <2>3. Open(l, k)' \subseteq Open(l, k) \cup {i}
        <3> SUFFICES ASSUME NEW j \in Open(l, k)', j # i PROVE j \in Open(l, k)
            OBVIOUS
        <3>1. j \in Lot(l, k) /\ j \in DOMAIN jobs /\ jobs'[j] = jobs[j]
            BY <2>1 DEF Open, Lot
        <3>2. InHand(j) => InHand(j)'
            BY DEF InHand
        <3> QED  BY <3>1, <3>2 DEF Open, Waits
    <2>4. CASE i \in Lot(l, k)
        <3>1. w \in Hands(l, k)
            BY <2>4 DEF Hands
        <3>2. /\ Cardinality(SentTo(l, k)') <= Cardinality(SentTo(l, k)) + 0
              /\ Cardinality(Hands(l, k)') <= Cardinality(Hands(l, k)) + (-1)
              /\ Cardinality(Open(l, k)') <= Cardinality(Open(l, k)) + 1
            BY <2>1, <2>2, <2>3, <3>1, SentOver, HandsOver, OpenOver
        <3>3. Spent(l, k)' <= Spent(l, k) + 0 + (-1) + 1
            BY <3>2, SpentBound
        <3>4. Spent(l, k)' \in Nat /\ Spent(l, k) \in Nat
            BY CountsFinite, CountsFiniteNext DEF AllCountable, Countable
        <3> QED  BY <3>3, <3>4
    <2>5. CASE i \notin Lot(l, k)
        <3>1. Open(l, k)' \subseteq Open(l, k)
            BY <2>1, <2>3, <2>5 DEF Open
        <3>2. Spent(l, k)' <= Spent(l, k) + 0 + 0 + 0
            BY <2>1, <2>2, <3>1, SentOver, HandsOver, OpenOver, SpentBound
        <3>3. Spent(l, k)' \in Nat /\ Spent(l, k) \in Nat
            BY CountsFinite, CountsFiniteNext DEF AllCountable, Countable
        <3> QED  BY <3>2, <3>3
    <2> QED  BY <2>4, <2>5
<1> QED  BY <1>1, <1>2, NothingSpent

\* A message is delivered: the slot that sent it does not send any more,
\* unless its answer was lost, which is a fault.
LEMMA DeliveryPaid ==
    ASSUME Typed, Typed', NEW l, PaidFor(l), NEW w \in Workers, ProviderAccepts(w) \/ AnswerLost(w)
    PROVE  PaidFor(l)'
<1> DEFINE n == Len(mail) + 1
           b == JobOf(w).position
<1>1. /\ send[w].phase = "sending" /\ Deliver(w) /\ jobs' = jobs
      /\ \A v \in Workers : v # w => send'[v] = send[v]
      /\ send[w] \in Sends /\ send \in [Workers -> Sends]
    BY DEF ProviderAccepts, AnswerLost, Deliver, Typed, TypeOK
<1>2. send'[w].job = send[w].job
    <2>1. CASE ProviderAccepts(w)
        BY <1>1, <2>1 DEF ProviderAccepts, Sends
    <2>2. CASE AnswerLost(w)
        BY <1>1, <2>2 DEF AnswerLost, Sends
    <2> QED  BY <2>1, <2>2
<1>3. PICK m \in Mails : /\ mail' = Append(mail, m)
                         /\ m.to = JobOf(w).lead /\ m.body = JobOf(w).position /\ ~m.recorded
    BY <1>1, Delivered
<1>4. /\ DOMAIN mail' = DOMAIN mail \cup {n}
      /\ \A i \in DOMAIN mail : mail'[i] = mail[i]
      /\ mail'[n] = m
    BY <1>3, MailAppended DEF Typed, TypeOK
<1> HIDE DEF n
<1>5. MailGrows
    BY <1>4 DEF MailGrows
<1>6. Follows(jobs, jobs') /\ DOMAIN jobs' = DOMAIN jobs
    BY <1>1 DEF Follows, Typed, TypeOK
<1>7. ASSUME NEW k \in 1..Steps
      PROVE  /\ Lot(l, k)' = Lot(l, k) /\ Open(l, k)' \subseteq Open(l, k)
             /\ SentTo(l, k)' \subseteq SentTo(l, k) \cup {n}
             /\ Hands(l, k)' \subseteq Hands(l, k)
             /\ send[w].job \in Lot(l, k) <=> w \in Hands(l, k)
             /\ send[w].job \notin Lot(l, k) => SentTo(l, k)' \subseteq SentTo(l, k)
             /\ send[w].job \in Lot(l, k) <=> JobOf(w).lead = l /\ b = k
    <2>1. Lot(l, k)' = Lot(l, k)
        BY <1>1 DEF Lot
    <2>2. \A j : InHand(j)' <=> InHand(j)
        BY <1>1, <1>2 DEF InHand
    <2>3. Open(l, k)' \subseteq Open(l, k)
        BY <1>1, <2>1, <2>2 DEF Open, Waits
    <2>4. SentTo(l, k)' \subseteq SentTo(l, k) \cup {n}
        BY <1>4 DEF SentTo
    <2>5. Hands(l, k)' \subseteq Hands(l, k)
        BY <1>1, <1>2, <2>1 DEF Hands, Undelivered
    <2>6. send[w].job \in Lot(l, k) <=> w \in Hands(l, k)
        BY <1>1 DEF Hands, Undelivered
    <2>7. send[w].job \in Lot(l, k) <=> JobOf(w).lead = l /\ b = k
        BY <1>1, SlotAt
    <2>8. send[w].job \notin Lot(l, k) => SentTo(l, k)' \subseteq SentTo(l, k)
        BY <1>3, <1>4, <2>7 DEF SentTo
    <2> QED  BY <2>1, <2>3, <2>4, <2>5, <2>6, <2>7, <2>8
<1>8. \A k \in 1..Steps : Spent(l, k) \in Nat /\ Spent(l, k)' \in Nat
    BY CountsFinite, CountsFiniteNext DEF AllCountable, Countable
<1>9. ASSUME NEW k \in 1..Steps, send[w].job \notin Lot(l, k)
      PROVE  Spent(l, k)' <= Spent(l, k)
    <2>1. Spent(l, k)' <= Spent(l, k) + 0 + 0 + 0
        BY <1>7, <1>9, SentOver, HandsOver, OpenOver, SpentBound
    <2> QED  BY <1>8, <2>1
<1>10. CASE ProviderAccepts(w)
    <2>1. faults' = faults /\ faults \in Nat
        BY <1>10 DEF ProviderAccepts, Typed, TypeOK
    <2>2. ~Undelivered(send'[w])
        BY <1>1, <1>10 DEF ProviderAccepts, Undelivered, Sends
    <2>3. ASSUME NEW k \in 1..Steps, send[w].job \in Lot(l, k)
          PROVE  Spent(l, k)' <= Spent(l, k)
        <3>1. Hands(l, k)' \subseteq Hands(l, k) \ {w}
            BY <1>7, <2>2, <2>3 DEF Hands
        <3>2. /\ Cardinality(SentTo(l, k)') <= Cardinality(SentTo(l, k)) + 1
              /\ Cardinality(Hands(l, k)') <= Cardinality(Hands(l, k)) + (-1)
              /\ Cardinality(Open(l, k)') <= Cardinality(Open(l, k)) + 0
            BY <1>7, <2>3, <3>1, SentOver, HandsOver, OpenOver
        <3>3. Spent(l, k)' <= Spent(l, k) + 1 + (-1) + 0
            BY <3>2, SpentBound
        <3> QED  BY <1>8, <3>3
    <2>4. \A k \in 1..Steps : Spent(l, k)' <= Spent(l, k)
        BY <1>9, <2>3
    <2> QED  BY <1>5, <1>6, <2>1, <2>4, NothingSpent
<1>11. CASE AnswerLost(w)
    <2>1. faults' = faults + 1 /\ b \in 1..Steps
        BY <1>1, <1>11, SlotAt DEF AnswerLost, Fault
    <2>2. ASSUME NEW k \in 1..Steps
          PROVE  Spent(l, k)' <= Spent(l, k) + (IF k = b THEN 1 ELSE 0)
        <3>1. CASE k = b
            <4>1. Spent(l, k)' <= Spent(l, k) + 1 + 0 + 0
                BY <1>7, SentOver, HandsOver, OpenOver, SpentBound
            <4> QED  BY <1>8, <3>1, <4>1
        <3>2. CASE k # b
            <4>1. Spent(l, k)' <= Spent(l, k)
                BY <1>7, <1>9, <3>2
            <4> QED  BY <1>8, <3>2, <4>1
        <3> QED  BY <3>1, <3>2
    <2> HIDE DEF b
    <2> QED  BY <1>5, <1>6, <2>1, <2>2, OneSpent
<1> QED  BY <1>10, <1>11


\* The images of finite sets.
LEMMA Images ==
    ASSUME NEW S, NEW T, NEW f \in [S -> T], IsFiniteSet(S), NEW U \in SUBSET {f[x] : x \in S}
    PROVE  /\ IsFiniteSet(U) /\ Cardinality(U) \in Nat /\ Cardinality(U) <= Cardinality(S)
<1> DEFINE R == {f[x] : x \in S}
<1>1. f \in Surjection(S, R)
    BY DEF Surjection
<1> HIDE DEF R
<1>2. IsFiniteSet(R) /\ Cardinality(R) <= Cardinality(S)
    BY <1>1, FS_Surjection
<1>3. IsFiniteSet(U) /\ Cardinality(U) <= Cardinality(R)
    BY <1>2, FS_Subset DEF R
<1>4. Cardinality(U) \in Nat /\ Cardinality(R) \in Nat /\ Cardinality(S) \in Nat
    BY <1>2, <1>3, FS_CardinalityType
<1> QED  BY <1>2, <1>3, <1>4

\* Jobs are added, which wait to be claimed; nothing else is spent.
LEMMA AddedPaid ==
    ASSUME Typed, Typed', NEW l, PaidFor(l), FollowUps(l)', faults' = faults,
           Follows(jobs, jobs'),
           \A k : SentTo(l, k)' \subseteq SentTo(l, k),
           \A v \in Workers : Undelivered(send'[v]) =>
               Undelivered(send[v]) /\ send'[v].job = send[v].job,
           \A j \in DOMAIN jobs : Waits(j)' => Waits(j),
           \A k \in 1..Steps : Grown(l, k)
    PROVE  PaidFor(l)'
<1>1. faults' >= faults
    BY DEF Typed, TypeOK
<1>2. ASSUME NEW k \in 1..Steps
      PROVE  Dear(l, k, 0)
    <2> DEFINE N == Lot(l, k)' \ Lot(l, k)
    <2>1. /\ Lot(l, k) \subseteq Lot(l, k)'
          /\ \A j \in DOMAIN jobs : j \in Lot(l, k)' <=> j \in Lot(l, k)
        BY LotFollows
    <2>2. /\ IsFiniteSet(Lot(l, k)) /\ Cardinality(Lot(l, k)) \in Nat
          /\ IsFiniteSet(Lot(l, k)') /\ Cardinality(Lot(l, k)') \in Nat
          /\ IsFiniteSet(Open(l, k)) /\ Cardinality(Open(l, k)) \in Nat
          /\ Spent(l, k) \in Nat /\ Spent(l, k)' \in Nat
        BY CountsFinite, CountsFiniteNext DEF AllCountable, Countable
    <2>3. IsFiniteSet(N) /\ Cardinality(N) \in Nat
          /\ Cardinality(Lot(l, k)') = Cardinality(Lot(l, k)) + Cardinality(N)
        <3> DEFINE M == Lot(l, k)'
        <3>1. IsFiniteSet(N) /\ Cardinality(N) = Cardinality(M) - Cardinality(M \cap Lot(l, k))
            BY <2>2, FS_Difference
        <3>2. M \cap Lot(l, k) = Lot(l, k)
            BY <2>1
        <3> HIDE DEF N
        <3>3. Cardinality(N) \in Nat
            BY <3>1, FS_CardinalityType
        <3>4. Cardinality(N) = Cardinality(M) - Cardinality(Lot(l, k))
            BY <3>1, <3>2
        <3> QED  BY <2>2, <3>1, <3>3, <3>4
    <2>4. Hands(l, k)' \subseteq Hands(l, k)
        <3> SUFFICES ASSUME NEW v \in Hands(l, k)' PROVE v \in Hands(l, k)
            OBVIOUS
        <3>1. v \in Workers /\ Undelivered(send[v]) /\ send[v].job \in Lot(l, k)'
            BY DEF Hands
        <3>2. send[v].job \in DOMAIN jobs
            BY <3>1 DEF Undelivered, Typed, SlotsTyped, SlotTyped
        <3> QED  BY <2>1, <3>1, <3>2 DEF Hands
    <2>5. Open(l, k)' \in SUBSET (Open(l, k) \cup N)
        BY <2>1 DEF Open, Lot
    <2> HIDE DEF N
    <2>6. Cardinality(Open(l, k)') <= Cardinality(Open(l, k)) + Cardinality(N)
        <3>1. /\ Cardinality(Open(l, k)) <= Cardinality(Open(l, k))
              /\ Cardinality(N) <= Cardinality(N)
            BY <2>2, <2>3
        <3> DEFINE U == Open(l, k)'
        <3>2. U \in SUBSET (Open(l, k) \cup N)
            BY <2>5
        <3> HIDE DEF U
        <3>3. Cardinality(U) <= Cardinality(Open(l, k)) + Cardinality(N)
            BY <2>2, <2>3, <3>1, <3>2, UnionBound
        <3> QED  BY <3>3 DEF U
    <2>7. Spent(l, k)' <= Spent(l, k) + 0 + 0 + Cardinality(N)
        BY <2>3, <2>4, <2>6, SentOver, HandsOver, SpentBound
    <2>8. Cardinality(Lot(l, k))' = Cardinality(Lot(l, k)) + Cardinality(N)
        BY <2>3
    <2> QED  BY <2>2, <2>3, <2>7, <2>8 DEF Dear
<1> QED  BY <1>1, <1>2, CostsSame

\* A message is recorded, and the next step's job is added after it.
LEMMA RecordPaid ==
    ASSUME Safe, Typed', NEW l, PaidFor(l), NEW w \in Workers, FinishSent(w)
    PROVE  PaidFor(l)'
<1> DEFINE j == send[w].job
           n == send[w].msg
<1>0. PICK a, b : a = JobOf(w).lead /\ b = JobOf(w).position
    OBVIOUS
<1>1. /\ send[w].phase = "accepted" /\ faults' = faults /\ Typed
      /\ mail' = [mail EXCEPT ![n].recorded = TRUE]
      /\ send' = [send EXCEPT ![w] = IdleSend]
      /\ send \in [Workers -> Sends]
    BY DEF FinishSent, Finish, Safe, Mapped, Typed, TypeOK
<1>2. /\ n \in DOMAIN mail /\ mail[n].to = a /\ mail[n].body = b /\ ~mail[n].recorded
    <2>1. phaseOf[w] = "accepted" /\ msgOf[w] = n /\ draftOf[w].to = a /\ draftOf[w].body = b
        BY <1>0, <1>1 DEF phaseOf, msgOf, draftOf, Sending
    <2> QED  BY <2>1 DEF Safe, Facts!IInv, Facts!HolderIsSafe, Facts!AcceptedIsOwn
<1>3. /\ DOMAIN mail' = DOMAIN mail /\ mail'[n].recorded
      /\ \A i \in DOMAIN mail : /\ mail'[i].to = mail[i].to /\ mail'[i].body = mail[i].body
                                /\ mail[i].recorded => mail'[i].recorded
    <2>1. mail \in Seq(Mails)
        BY <1>1 DEF Typed, TypeOK
    <2> QED  BY <1>1, <1>2, <2>1, MailRecorded
<1>4. /\ j \in DOMAIN jobs /\ JobOf(w) \in Jobs /\ b \in 1..Steps
      /\ \A k : j \in Lot(l, k) <=> a = l /\ b = k
    BY <1>0, <1>1, SlotAt
<1> DEFINE done == [jobs EXCEPT ![j].status = "done", ![j].outbound = n]
           x == NewJob(jobs[j].lead, jobs[j].position + 1)
           next == Append(done, x)
<1>5. jobs' = IF IsLastStep(b) THEN done ELSE next
    BY <1>0 DEF FinishSent, Finish, JobOf
<1>6. /\ Follows(jobs, done) /\ DOMAIN done = DOMAIN jobs /\ done[j].status = "done"
      /\ \A i \in DOMAIN jobs : i # j => done[i] = jobs[i]
      /\ ~IsLastStep(b) =>
            /\ Follows(jobs, next)
            /\ \A i \in DOMAIN jobs : next[i] = done[i]
            /\ \A i \in DOMAIN next \ DOMAIN jobs : next[i] = x
            /\ \A i, k \in DOMAIN next \ DOMAIN jobs : i = k
    BY <1>0, <1>1, DoneJobs DEF JobOf
<1>7. x.lead = a /\ x.position = b + 1
    BY <1>0 DEF NewJob, JobOf
<1> HIDE DEF done, next, x
<1>8. /\ Follows(jobs, jobs') /\ jobs'[j].status = "done"
      /\ \A i \in DOMAIN jobs : i # j => jobs'[i] = jobs[i]
      /\ \A i \in DOMAIN jobs' \ DOMAIN jobs : jobs'[i].lead = a /\ jobs'[i].position = b + 1
      /\ \A i, k \in DOMAIN jobs' \ DOMAIN jobs : i = k
    BY <1>4, <1>5, <1>6, <1>7
<1>9. \A i \in DOMAIN jobs : Waits(i)' => Waits(i)
    <2> SUFFICES ASSUME NEW i \in DOMAIN jobs, Waits(i)' PROVE Waits(i)
        OBVIOUS
    <2>1. i # j /\ jobs'[i] = jobs[i]
        BY <1>8 DEF Waits
    <2>2. InHand(i) => InHand(i)'
        BY <1>1, <2>1 DEF InHand
    <2> QED  BY <2>1, <2>2 DEF Waits
<1>10. \A v \in Workers : Undelivered(send'[v]) =>
           Undelivered(send[v]) /\ send'[v].job = send[v].job
    BY <1>1 DEF Undelivered, IdleSend
<1>11. \A k : SentTo(l, k)' \subseteq SentTo(l, k)
    BY <1>3 DEF SentTo
<1>12. \A k : k # b + 1 \/ a # l => Lot(l, k)' = Lot(l, k)
    BY <1>8, LotFollows DEF Lot
<1>13. ASSUME a = l
       PROVE  Cardinality(Lot(l, b + 1)') <= Cardinality(Lot(l, b + 1)) + 1
    <2>1. IsFiniteSet(Lot(l, b + 1)) /\ Cardinality(Lot(l, b + 1)) \in Nat
        BY <1>1, CountsFinite DEF AllCountable, Countable
    <2>2. \E i : Lot(l, b + 1)' \subseteq Lot(l, b + 1) \cup {i}
        <3> DEFINE M == Lot(l, b + 1)'
                   Q == Lot(l, b + 1)
        <3>1. M \subseteq DOMAIN jobs' /\ \A i \in DOMAIN jobs : i \in M => i \in Q
            <4>1. M \subseteq DOMAIN jobs'
                BY DEF Lot
            <4> QED  BY <1>8, <4>1, LotFollows
        <3> SUFFICES \E i : M \subseteq Q \cup {i}
            OBVIOUS
        <3> HIDE DEF M, Q
        <3>2. CASE M \subseteq DOMAIN jobs
            BY <3>1, <3>2
        <3>3. CASE \E i \in M : i \notin DOMAIN jobs
            <4>1. PICK i \in M : i \notin DOMAIN jobs
                BY <3>3
            <4>2. M \subseteq Q \cup {i}
                BY <1>8, <3>1, <4>1
            <4> QED  BY <4>2
        <3> QED  BY <3>2, <3>3
    <2> QED  BY <2>1, <2>2, OneMore
<1>14. ASSUME a = l
       PROVE  Cardinality(Kept(l, b)) + 1 <= Cardinality(Kept(l, b)')
    <2>0. \A i : /\ i \in Kept(l, b) <=> /\ i \in DOMAIN mail /\ mail[i].to = l
                                           /\ mail[i].body = b /\ mail[i].recorded
                 /\ i \in Kept(l, b)' <=> /\ i \in DOMAIN mail' /\ mail'[i].to = l
                                            /\ mail'[i].body = b /\ mail'[i].recorded
        BY DEF Kept, SentTo
    <2>1. n \in Kept(l, b)' /\ Kept(l, b) \in SUBSET (Kept(l, b)' \ {n})
        BY <1>2, <1>3, <1>14, <2>0
    <2>2. IsFiniteSet(Kept(l, b)') /\ Cardinality(Kept(l, b)') \in Nat
        BY CountsFiniteNext DEF AllCountable, Countable
    <2>3. Cardinality(Kept(l, b)) \in Nat
          /\ Cardinality(Kept(l, b)) <= Cardinality(Kept(l, b)') - 1
        BY <2>1, <2>2, OneLess
    <2> QED  BY <2>2, <2>3
<1>15. \A k : /\ Cardinality(Kept(l, k)) <= Cardinality(Kept(l, k)')
              /\ Cardinality(Kept(l, k)) \in Nat /\ Cardinality(Kept(l, k)') \in Nat
              /\ Cardinality(Lot(l, k)) \in Nat /\ Cardinality(Lot(l, k)') \in Nat
    <2> TAKE k
    <2>1. Kept(l, k) \in SUBSET Kept(l, k)'
        BY <1>3 DEF Kept, SentTo
    <2>2. IsFiniteSet(Kept(l, k)')
        BY CountsFiniteNext DEF AllCountable, Countable
    <2>3. Cardinality(Kept(l, k)) <= Cardinality(Kept(l, k)')
        BY <2>1, <2>2, FS_Subset
    <2> QED  BY <1>1, <2>3, CountsFinite, CountsFiniteNext DEF AllCountable, Countable
<1> HIDE DEF n, j
<1>16. FollowUps(l)'
    <2> SUFFICES ASSUME NEW k \in 1..Steps, k < Steps
                 PROVE  Cardinality(Lot(l, k + 1)') <= Cardinality(Kept(l, k)')
        BY DEF FollowUps
    <2>1. Cardinality(Lot(l, k + 1)) <= Cardinality(Kept(l, k))
        BY DEF PaidFor, FollowUps
    <2>2. CASE k = b /\ a = l
        <3>1. Lot(l, k + 1)' = Lot(l, b + 1)' /\ Lot(l, k + 1) = Lot(l, b + 1)
              /\ Kept(l, k)' = Kept(l, b)' /\ Kept(l, k) = Kept(l, b)
            BY <2>2
        <3> QED  BY <1>13, <1>14, <1>15, <2>1, <2>2, <3>1
    <2>3. CASE ~(k = b /\ a = l)
        <3>1. k + 1 # b + 1 \/ a # l
            BY <1>4, <2>3
        <3>2. Lot(l, k + 1)' = Lot(l, k + 1)
            BY <1>12, <3>1
        <3> QED  BY <1>15, <2>1, <3>2
    <2> QED  BY <2>2, <2>3
<1>17. ASSUME NEW k \in 1..Steps
       PROVE  Grown(l, k)
    <2>1. CASE k = b + 1 /\ a = l
        <3>1. k - 1 = b /\ b # b + 1
            BY <1>4, <2>1
        <3>2. Lot(l, k - 1)' = Lot(l, k - 1)
            BY <1>12, <3>1
        <3>3. Cardinality(Lot(l, k - 1))' <= Cardinality(Lot(l, k - 1))
            BY <1>15, <3>2
        <3> QED  BY <1>4, <3>1, <3>3 DEF Grown
    <2>2. CASE ~(k = b + 1 /\ a = l)
        <3>1. Lot(l, k)' = Lot(l, k)
            BY <1>12, <2>2
        <3>2. Cardinality(Lot(l, k))' <= Cardinality(Lot(l, k))
            BY <1>15, <3>1
        <3> QED  BY <3>2 DEF Grown
    <2> QED  BY <2>1, <2>2
<1> QED  BY <1>1, <1>8, <1>9, <1>10, <1>11, <1>16, <1>17, AddedPaid

\* First jobs are added; a lead has at most one.
LEMMA FirstJobsPaid ==
    ASSUME Typed, Typed', OneFirstJob', NEW l, PaidFor(l), UNCHANGED <<mail, send, faults>>,
           NEW L \in SUBSET Leads, jobs' = jobs \o FirstJobs(L)
    PROVE  PaidFor(l)'
<1>1. /\ Follows(jobs, jobs') /\ \A j \in DOMAIN jobs : jobs'[j] = jobs[j]
      /\ \A j \in DOMAIN jobs' \ DOMAIN jobs : \E a \in L : jobs'[j] = NewJob(a, 1)
    BY JobsAdded DEF Typed, TypeOK
<1>2. \A j \in DOMAIN jobs' \ DOMAIN jobs : jobs'[j].position = 1
    <2>1. \A a : NewJob(a, 1).position = 1
        BY DEF NewJob
    <2> QED  BY <1>1, <2>1
<1>3. \A k : k # 1 => Lot(l, k)' = Lot(l, k)
    BY <1>1, <1>2, LotFollows DEF Lot
<1>4. \A k : /\ SentTo(l, k)' = SentTo(l, k) /\ Kept(l, k)' = Kept(l, k)
             /\ Cardinality(Lot(l, k)) \in Nat
    BY CountsFinite DEF SentTo, Kept, AllCountable, Countable
<1>5. FollowUps(l)'
    <2> SUFFICES ASSUME NEW k \in 1..Steps, k < Steps
                 PROVE  Cardinality(Lot(l, k + 1)') <= Cardinality(Kept(l, k)')
        BY DEF FollowUps
    <2>1. Cardinality(Lot(l, k + 1)) <= Cardinality(Kept(l, k))
        BY DEF PaidFor, FollowUps
    <2>2. Lot(l, k + 1)' = Lot(l, k + 1)
        BY <1>3
    <2> QED  BY <1>4, <2>1, <2>2
<1>6. Cardinality(Lot(l, 1)') <= 1
    <2> DEFINE J == Lot(l, 1)'
    <2>1. \A i, k \in J : i = k
        BY DEF OneFirstJob, Lot
    <2> SUFFICES Cardinality(J) <= 1
        OBVIOUS
    <2> HIDE DEF J
    <2>2. CASE J = {}
        BY <2>2, FS_EmptySet
    <2>3. CASE J # {}
        <3>1. PICK j \in J : TRUE
            BY <2>3
        <3>2. J = {j}
            BY <2>1, <3>1
        <3>3. Cardinality({j}) = 1
            BY FS_Singleton
        <3> QED  BY <3>2, <3>3
    <2> QED  BY <2>2, <2>3
<1>7. ASSUME NEW k \in 1..Steps
      PROVE  Grown(l, k)
    <2>1. CASE k = 1
        BY <1>6, <2>1 DEF Grown
    <2>2. CASE k # 1
        <3>1. Cardinality(Lot(l, k))' <= Cardinality(Lot(l, k))
            BY <1>3, <1>4, <2>2
        <3> QED  BY <3>1 DEF Grown
    <2> QED  BY <2>1, <2>2
<1>8. \A j \in DOMAIN jobs : Waits(j)' => Waits(j)
    BY <1>1 DEF Waits, InHand
<1>9. \A v \in Workers : Undelivered(send'[v]) =>
          Undelivered(send[v]) /\ send'[v].job = send[v].job
    OBVIOUS
<1> QED  BY <1>1, <1>4, <1>5, <1>7, <1>8, <1>9, AddedPaid

\* A consumer cancels jobs that wait.
LEMMA CancelPaid ==
    ASSUME Typed, Typed', NEW l, PaidFor(l), NEW r \in Consumers, ReplyCommit(r)
    PROVE  PaidFor(l)'
<1>1. /\ UNCHANGED <<mail, send, faults>>
      /\ jobs' = [j \in DOMAIN jobs |->
             IF j \in reply[r].cancels THEN [jobs[j] EXCEPT !.status = "cancelled"]
             ELSE jobs[j]]
      /\ Follows(jobs, jobs') /\ DOMAIN jobs' = DOMAIN jobs
    BY ReplyCommitTyped DEF ReplyCommit, ReplyUnchanged
<1>2. \A j \in DOMAIN jobs : jobs[j] \in Jobs
    BY JobDomain DEF Typed, TypeOK
<1>3. \A j \in DOMAIN jobs : Waits(j)' => Waits(j)
    <2> SUFFICES ASSUME NEW j \in DOMAIN jobs, Waits(j)' PROVE Waits(j)
        OBVIOUS
    <2>1. j \notin reply[r].cancels
        <3> SUFFICES ASSUME j \in reply[r].cancels PROVE FALSE
            OBVIOUS
        <3>1. jobs'[j].status = "cancelled"
            BY <1>1, <1>2 DEF Jobs
        <3> QED  BY <3>1 DEF Waits
    <2>2. jobs'[j] = jobs[j] /\ (InHand(j)' <=> InHand(j))
        BY <1>1, <2>1 DEF InHand
    <2> QED  BY <2>2 DEF Waits
<1>4. MailGrows /\ \A k : SentTo(l, k)' = SentTo(l, k)
    BY <1>1 DEF MailGrows, SentTo
<1>5. FollowUps(l)' /\ \A k \in 1..Steps : Grown(l, k)
    BY <1>1, <1>4, FollowUpsStay DEF PaidFor
<1>6. \A v \in Workers : Undelivered(send'[v]) =>
          Undelivered(send[v]) /\ send'[v].job = send[v].job
    BY <1>1
<1> QED  BY <1>1, <1>3, <1>4, <1>5, <1>6, AddedPaid


\* A claim: the slots that take a job over take it from those that wait, or
\* from a slot that is busy with it, which is a fault.
LEMMA ClaimPaid ==
    ASSUME Counted, Typed', NEW l, PaidFor(l), NEW S \in SUBSET Workers,
           NEW batch \in [S -> DOMAIN jobs], Claim(batch)
    PROVE  PaidFor(l)'
<1> DEFINE J == {batch[w] : w \in S}
           E == {j \in J : InHand(j)}
           D == {j \in E : jobs[j].lead = l}
           p == [j \in D |-> jobs[j].position]
<1>1. /\ \A v, w \in S : batch[v] = batch[w] => v = w
      /\ \A w \in S : send[w].phase = "idle" /\ Claimable(batch[w])
      /\ mail' = mail
      /\ \A w \in S : send'[w].job = batch[w]
      /\ \A w \in Workers \ S : send'[w] = send[w]
      /\ faults' = faults + Cardinality(E)
      /\ jobs' = [j \in DOMAIN jobs |->
             IF j \in J THEN [jobs[j] EXCEPT !.status = "running", !.attempts = @ + 1]
             ELSE jobs[j]]
    BY DEF Claim, ClaimJobs, IdleSend
<1>2. /\ Typed /\ Follows(jobs, jobs') /\ DOMAIN jobs' = DOMAIN jobs
      /\ faults \in Nat /\ faults' \in Nat
    <2>1. Typed
        BY DEF Counted
    <2>2. faults \in Nat /\ faults' \in Nat
        BY <2>1 DEF Typed, TypeOK
    <2> QED  BY <2>1, <2>2, ClaimTyped
<1>3. \A j \in DOMAIN jobs : jobs[j] \in Jobs
    BY <1>2, JobDomain DEF Typed, TypeOK
<1>4. /\ J \in SUBSET DOMAIN jobs /\ IsFiniteSet(J)
    <2>1. J \in SUBSET DOMAIN jobs
        OBVIOUS
    <2>2. IsFiniteSet(DOMAIN jobs)
        <3>1. DOMAIN jobs = 1..Len(jobs) /\ Len(jobs) \in Nat
            BY <1>2, JobDomain DEF Typed, TypeOK
        <3> QED  BY <3>1, FS_Interval
    <2> QED  BY <2>1, <2>2, FS_Subset
<1>5. \A j \in J : /\ jobs[j].status = "pending" \/ jobs[j].status = "running"
                   /\ jobs'[j].status = "running" /\ InHand(j)'
    <2> SUFFICES ASSUME NEW w \in S
                 PROVE  LET j == batch[w]
                        IN  /\ jobs[j].status = "pending" \/ jobs[j].status = "running"
                            /\ jobs'[j].status = "running" /\ InHand(j)'
        OBVIOUS
    <2>1. jobs[batch[w]].status = "pending" \/ jobs[batch[w]].status = "running"
        BY <1>1 DEF Claimable
    <2>2. jobs'[batch[w]].status = "running"
        BY <1>1, <1>3 DEF Jobs
    <2>3. InHand(batch[w])'
        BY <1>1 DEF InHand
    <2> QED  BY <2>1, <2>2, <2>3
<1>6. \A j \in DOMAIN jobs : InHand(j) => InHand(j)'
    <2>1. 0 \notin DOMAIN jobs
        BY <1>2, JobDomain DEF Typed, TypeOK
    <2> SUFFICES ASSUME NEW j \in DOMAIN jobs, InHand(j) PROVE InHand(j)'
        OBVIOUS
    <2>2. PICK w \in Workers : send[w].job = j
        BY DEF InHand
    <2>3. w \notin S
        BY <1>1, <2>1, <2>2 DEF Counted, IdleSlots
    <2> QED  BY <1>1, <2>2, <2>3 DEF InHand
<1>7. IsFiniteSet(D) /\ p \in [D -> 1..Steps] /\ faults' >= faults + Cardinality(D)
    <2>1. E \in SUBSET J /\ D \in SUBSET E
        OBVIOUS
    <2>2. p \in [D -> 1..Steps]
        BY <1>3, <1>4 DEF Jobs
    <2>3. IsFiniteSet(E) /\ Cardinality(E) \in Nat
        BY <1>4, <2>1, NoMore
    <2>4. IsFiniteSet(D) /\ Cardinality(D) \in Nat /\ Cardinality(D) <= Cardinality(E)
        BY <2>1, <2>3, NoMore
    <2>5. faults' = faults + Cardinality(E)
        BY <1>1
    <2> HIDE DEF D, E, p
    <2>6. faults' >= faults + Cardinality(D)
        BY <1>2, <2>3, <2>4, <2>5
    <2> QED  BY <2>2, <2>4, <2>6
<1>8. MailGrows
    BY <1>1 DEF MailGrows
<1>9. FollowUps(l)' /\ \A k \in 1..Steps : Grown(l, k)
    BY <1>2, <1>8, FollowUpsStay DEF PaidFor
<1>10. \A j \in DOMAIN jobs : j \notin J => jobs'[j] = jobs[j]
    BY <1>1
<1>11. \A x \in D : p[x] = jobs[x].position
    OBVIOUS
<1> HIDE DEF p
<1>12. ASSUME NEW k \in 1..Steps
       PROVE  Dear(l, k, Cardinality({x \in D : p[x] = k}))
    <2> DEFINE H == {w \in S : batch[w] \in Lot(l, k)}
               T == {j \in J : j \in Lot(l, k)}
               P == {j \in T : Waits(j)}
               A == {x \in D : p[x] = k}
               g == [w \in H |-> batch[w]]
    <2>1. /\ IsFiniteSet(T) /\ Cardinality(T) \in Nat /\ IsFiniteSet(P) /\ Cardinality(P) \in Nat
          /\ IsFiniteSet(A) /\ Cardinality(A) \in Nat
        <3>1. T \in SUBSET J /\ P \in SUBSET J /\ A \in SUBSET D
            OBVIOUS
        <3> QED  BY <1>4, <1>7, <3>1, NoMore
    <2>2. IsFiniteSet(H) /\ Cardinality(H) \in Nat /\ Cardinality(H) <= Cardinality(T)
        <3>1. g \in Injection(H, T)
            BY <1>1 DEF Injection, IsInjective
        <3> HIDE DEF g, H, T
        <3>2. IsFiniteSet(H) /\ Cardinality(H) <= Cardinality(T)
            BY <2>1, <3>1, FS_Injection
        <3> QED  BY <3>2, FS_CardinalityType
    <2>3. T \in SUBSET (P \cup A)
        <3> SUFFICES ASSUME NEW j \in T, ~Waits(j) PROVE j \in A
            OBVIOUS
        <3>1. j \in DOMAIN jobs /\ jobs[j].lead = l /\ jobs[j].position = k
            BY DEF Lot
        <3>2. InHand(j)
            BY <1>5 DEF Waits
        <3> QED  BY <1>11, <3>1, <3>2
    <2>4. Cardinality(T) <= Cardinality(P) + Cardinality(A)
        BY <2>1, <2>3, UnionBound
    <2>5. Lot(l, k)' = Lot(l, k) /\ SentTo(l, k)' \subseteq SentTo(l, k)
        BY <1>1, <1>2, LotFollows DEF SentTo
    <2>6. Hands(l, k)' \in SUBSET (Hands(l, k) \cup H)
        BY <1>1, <2>5 DEF Hands
    <2>7. Open(l, k)' \in SUBSET (Open(l, k) \ P)
        <3> SUFFICES ASSUME NEW j \in Open(l, k)' PROVE j \in Open(l, k) /\ j \notin J
            OBVIOUS
        <3>1. j \in DOMAIN jobs /\ j \in Lot(l, k)
            BY <2>5 DEF Open, Lot
        <3>2. j \notin J
            BY <1>5 DEF Open, Waits
        <3>3. Waits(j)
            BY <1>6, <1>10, <3>1, <3>2 DEF Open, Waits
        <3> QED  BY <3>1, <3>2, <3>3 DEF Open
    <2>8. /\ IsFiniteSet(Hands(l, k)) /\ Cardinality(Hands(l, k)) \in Nat
          /\ IsFiniteSet(Open(l, k)) /\ Cardinality(Open(l, k)) \in Nat
          /\ Spent(l, k) \in Nat /\ Spent(l, k)' \in Nat
          /\ Cardinality(Lot(l, k)) \in Nat /\ Cardinality(Lot(l, k))' = Cardinality(Lot(l, k))
        BY <1>2, <2>5, CountsFinite, CountsFiniteNext DEF AllCountable, Countable
    <2>9. P \subseteq Open(l, k)
        BY DEF Open
    <2> HIDE DEF H, T, P, A
    <2>10. Cardinality(Hands(l, k)') <= Cardinality(Hands(l, k)) + Cardinality(H)
        BY <2>2, <2>6, <2>8, UnionBound
    <2>11. Cardinality(Open(l, k)') <= Cardinality(Open(l, k)) + (0 - Cardinality(P))
        <3> DEFINE R == Open(l, k) \ P
        <3>1. IsFiniteSet(R) /\ Cardinality(R) = Cardinality(Open(l, k)) - Cardinality(Open(l, k) \cap P)
            BY <2>8, FS_Difference
        <3>2. Open(l, k) \cap P = P
            BY <2>9
        <3>3. Cardinality(Open(l, k)') <= Cardinality(R)
            BY <2>7, <3>1, NoMore
        <3> QED  BY <2>1, <2>8, <3>1, <3>2, <3>3
    <2>12. Spent(l, k)' <= Spent(l, k) + 0 + Cardinality(H) + (0 - Cardinality(P))
        <3>1. Cardinality(H) \in Int /\ 0 - Cardinality(P) \in Int
            BY <2>1, <2>2
        <3>2. Cardinality(SentTo(l, k)') <= Cardinality(SentTo(l, k)) + 0
            BY <1>2, <2>5, SentOver
        <3> QED  BY <1>2, <2>10, <2>11, <3>1, <3>2, SpentBound
    <2>13. Dear(l, k, Cardinality(A))
        BY <2>1, <2>2, <2>4, <2>8, <2>12 DEF Dear
    <2> QED  BY <2>13 DEF A
<1> HIDE DEF D
<1> QED  BY <1>2, <1>7, <1>9, <1>12, CostsMove

\* A process dies: the jobs that its slots were about to send wait again, and
\* so does the job of the slot whose message was accepted, if there is one.
LEMMA CrashPaid ==
    ASSUME Safe, Typed', NEW l, PaidFor(l), NEW S \in SUBSET Workers, WorkersCrash(S)
    PROVE  PaidFor(l)'
<1>1. /\ \A w \in S : send[w].phase # "idle" /\ send'[w] = IdleSend
      /\ \A w \in Workers \ S : send'[w] = send[w]
      /\ mail' = mail /\ jobs' = jobs /\ faults' = faults + 1
      /\ Typed /\ faults \in Nat
    BY DEF WorkersCrash, Fault, tables, Safe, Mapped, Typed, TypeOK
<1>2. /\ MailGrows /\ Follows(jobs, jobs') /\ DOMAIN jobs' = DOMAIN jobs
    BY <1>1 DEF MailGrows, Follows, Typed, TypeOK
<1> DEFINE f == [w \in Workers |-> send[w].job]
           Dying(k) == {w \in S : w \in Hands(l, k)}
           Freed(k) == {f[w] : w \in Dying(k)}
<1>3. ASSUME NEW k
      PROVE  /\ Lot(l, k)' = Lot(l, k) /\ SentTo(l, k)' \subseteq SentTo(l, k)
             /\ Hands(l, k)' \in SUBSET (Hands(l, k) \ Dying(k))
             /\ \A j \in Open(l, k)' : \/ j \in Open(l, k) \cup Freed(k)
                                       \/ /\ j \in Lot(l, k)
                                          /\ \E w \in S : send[w].phase = "accepted" /\ send[w].job = j
    <2>1. Lot(l, k)' = Lot(l, k) /\ SentTo(l, k)' \subseteq SentTo(l, k)
        BY <1>1 DEF Lot, SentTo
    <2>2. Hands(l, k)' \in SUBSET (Hands(l, k) \ Dying(k))
        BY <1>1, <2>1 DEF Hands, Undelivered, IdleSend
    <2>3. ASSUME NEW j \in Open(l, k)', j \notin Open(l, k), j \notin Freed(k)
          PROVE  /\ j \in Lot(l, k)
                 /\ \E w \in S : send[w].phase = "accepted" /\ send[w].job = j
        <3>1. j \in Lot(l, k) /\ ~Waits(j) /\ Waits(j)'
            BY <2>1, <2>3 DEF Open
        <3>2. InHand(j) /\ ~InHand(j)'
            BY <1>1, <3>1 DEF Waits
        <3>3. PICK w \in Workers : send[w].job = j /\ w \in S
            BY <1>1, <3>2 DEF InHand
        <3>4. w \notin Hands(l, k)
            BY <2>3, <3>3
        <3>5. send[w].phase = "accepted"
            BY <1>1, <3>1, <3>3, <3>4 DEF Hands, Undelivered
        <3> QED  BY <3>1, <3>3, <3>5
    <2> QED  BY <2>1, <2>2, <2>3
<1>4. ASSUME NEW k, NEW n \in {0, 1}, NEW X, IsFiniteSet(X), Cardinality(X) = n,
             Open(l, k)' \subseteq (Open(l, k) \cup Freed(k)) \cup X
      PROVE  Spent(l, k)' <= Spent(l, k) + n
    <2>1. /\ IsFiniteSet(Hands(l, k)) /\ Cardinality(Hands(l, k)) \in Nat
          /\ IsFiniteSet(Open(l, k)) /\ Cardinality(Open(l, k)) \in Nat
          /\ Spent(l, k) \in Nat /\ Spent(l, k)' \in Nat
        BY <1>1, CountsFinite, CountsFiniteNext DEF AllCountable, Countable
    <2>2. Dying(k) \in SUBSET Hands(l, k) /\ Dying(k) \in SUBSET Workers
        OBVIOUS
    <2>3. IsFiniteSet(Dying(k)) /\ Cardinality(Dying(k)) \in Nat
        BY <2>1, <2>2, NoMore
    <2>4. IsFiniteSet(Freed(k)) /\ Cardinality(Freed(k)) \in Nat
          /\ Cardinality(Freed(k)) <= Cardinality(Dying(k))
        <3> DEFINE g == [w \in Dying(k) |-> send[w].job]
        <3>1. g \in [Dying(k) -> {g[w] : w \in Dying(k)}] /\ Freed(k) \in SUBSET {g[w] : w \in Dying(k)}
            BY <2>2
        <3> HIDE DEF g, Dying, Freed
        <3> QED  BY <2>3, <3>1, Images
    <2> HIDE DEF Dying, Freed
    <2>5. Cardinality(Hands(l, k)') <= Cardinality(Hands(l, k)) + (0 - Cardinality(Dying(k)))
        <3> DEFINE R == Hands(l, k) \ Dying(k)
        <3>1. IsFiniteSet(R)
              /\ Cardinality(R) = Cardinality(Hands(l, k)) - Cardinality(Hands(l, k) \cap Dying(k))
            BY <2>1, FS_Difference
        <3>2. Hands(l, k) \cap Dying(k) = Dying(k)
            BY <2>2
        <3>3. Cardinality(Hands(l, k)') <= Cardinality(R) /\ Cardinality(Hands(l, k)') \in Nat
            BY <1>3, <3>1, NoMore
        <3>4. Cardinality(R) = Cardinality(Hands(l, k)) - Cardinality(Dying(k))
            BY <3>1, <3>2
        <3> HIDE DEF R
        <3> QED  BY <2>1, <2>3, <3>3, <3>4
    <2>6. Cardinality(Open(l, k)') <= Cardinality(Open(l, k)) + (Cardinality(Freed(k)) + n)
        <3>1. IsFiniteSet(Freed(k) \cup X) /\ Cardinality(Freed(k) \cup X) <= Cardinality(Freed(k)) + n
            <4>1. IsFiniteSet(Freed(k) \cup X)
                BY <1>4, <2>4, FS_Union
            <4> QED  BY <1>4, <2>4, <4>1, UnionBound
        <3>2. Open(l, k)' \in SUBSET (Open(l, k) \cup (Freed(k) \cup X))
            BY <1>4
        <3> QED  BY <2>1, <2>4, <3>1, <3>2, UnionBound
    <2>7. Cardinality(SentTo(l, k)') <= Cardinality(SentTo(l, k)) + 0
        BY <1>1, <1>3, SentOver
    <2>8. Spent(l, k)' <= Spent(l, k) + 0 + (0 - Cardinality(Dying(k))) + (Cardinality(Freed(k)) + n)
        <3>1. 0 - Cardinality(Dying(k)) \in Int /\ Cardinality(Freed(k)) + n \in Int
            BY <2>3, <2>4
        <3> QED  BY <1>1, <2>5, <2>6, <2>7, <3>1, SpentBound
    <2> QED  BY <2>1, <2>3, <2>4, <2>8
<1> HIDE DEF Dying, Freed
<1>5. \A k : Spent(l, k) \in Nat /\ Spent(l, k)' \in Nat
    BY <1>1, CountsFinite, CountsFiniteNext DEF AllCountable, Countable
<1>6. IsFiniteSet({}) /\ Cardinality({}) = 0
    BY FS_EmptySet
<1>7. CASE \A w \in S : send[w].phase # "accepted"
    <2>1. \A k \in 1..Steps : Spent(l, k)' <= Spent(l, k) + 0
        BY <1>3, <1>4, <1>6, <1>7
    <2>2. \A k \in 1..Steps : Spent(l, k)' <= Spent(l, k)
        BY <1>5, <2>1
    <2>3. faults' >= faults
        BY <1>1
    <2> QED  BY <1>1, <1>2, <2>2, <2>3, NothingSpent
<1>8. CASE \E w \in S : send[w].phase = "accepted"
    <2>1. PICK c \in S : send[c].phase = "accepted"
        BY <1>8
    <2>2. \A w \in S : send[w].phase = "accepted" => w = c
        BY <2>1, OneCarrier
    <2>3. /\ JobOf(c).position \in 1..Steps
          /\ \A k : send[c].job \in Lot(l, k) <=> JobOf(c).lead = l /\ JobOf(c).position = k
        BY <1>1, <2>1, SlotAt
    <2> DEFINE b == JobOf(c).position
    <2>4. ASSUME NEW k \in 1..Steps
          PROVE  Spent(l, k)' <= Spent(l, k) + (IF k = b THEN 1 ELSE 0)
        <3>1. CASE k = b
            <4>1. Open(l, k)' \subseteq (Open(l, k) \cup Freed(k)) \cup {send[c].job}
                BY <1>3, <2>2
            <4>2. IsFiniteSet({send[c].job}) /\ Cardinality({send[c].job}) = 1
                BY FS_Singleton
            <4>3. Spent(l, k)' <= Spent(l, k) + 1
                BY <1>4, <4>1, <4>2
            <4> QED  BY <3>1, <4>3
        <3>2. CASE k # b
            <4>1. Open(l, k)' \subseteq (Open(l, k) \cup Freed(k)) \cup {}
                BY <1>3, <2>2, <2>3, <3>2
            <4>2. Spent(l, k)' <= Spent(l, k) + 0
                BY <1>4, <1>6, <4>1
            <4> QED  BY <3>2, <4>2
        <3> QED  BY <3>1, <3>2
    <2> HIDE DEF b
    <2>5. b \in 1..Steps
        BY <2>3 DEF b
    <2> QED  BY <1>1, <1>2, <2>4, <2>5, OneSpent
<1> QED  BY <1>7, <1>8


\* The steps of a slot.
LEMMA ProcessPaid ==
    ASSUME Safe, Typed', NEW l, PaidFor(l), NEW w \in Workers,
           \/ Load(w) \/ NotClaimed(w) \/ CheckSuppression(w) \/ TakeMailbox(w)
           \/ ProviderAccepts(w) \/ AnswerLost(w) \/ DispatchFails(w) \/ ReadAgain(w)
           \/ FinishSent(w) \/ FinishSuppressed(w) \/ FinishFailed(w)
           \/ FinishDeferred(w) \/ FinishIneligible(w)
    PROVE  PaidFor(l)'
<1>1. Typed /\ send \in [Workers -> Sends] /\ send[w] \in Sends /\ faults \in Nat
    BY DEF Safe, Mapped, Typed, TypeOK
<1>2. CASE ProviderAccepts(w) \/ AnswerLost(w)
    BY <1>1, <1>2, DeliveryPaid
<1>3. CASE FinishSent(w)
    BY <1>3, RecordPaid
<1>4. CASE NotClaimed(w)
    <2>1. /\ mail' = mail /\ jobs' = jobs /\ faults' >= faults /\ send[w].phase = "claimed"
          /\ send'[w] = IdleSend /\ \A v \in Workers : v # w => send'[v] = send[v]
        BY <1>1, <1>4 DEF NotClaimed, tables
    <2>2. Follows(jobs, jobs') /\ DOMAIN jobs' = DOMAIN jobs /\ Undelivered(send[w])
        BY <1>1, <2>1 DEF Follows, Typed, TypeOK, Undelivered
    <2> QED  BY <1>1, <2>1, <2>2, SlotLeaves
<1>5. CASE FinishSuppressed(w) \/ FinishFailed(w) \/ FinishDeferred(w) \/ FinishIneligible(w)
    <2>1. /\ mail' = mail /\ faults' >= faults
          /\ send[w].phase \in Outcomes \ {"accepted"} /\ Undelivered(send[w])
          /\ send'[w] = IdleSend /\ \A v \in Workers : v # w => send'[v] = send[v]
        BY <1>1, <1>5 DEF FinishSuppressed, FinishFailed, FinishDeferred, FinishIneligible,
                          Finish, Outcomes, Undelivered
    <2>2. /\ Follows(jobs, jobs') /\ DOMAIN jobs' = DOMAIN jobs
          /\ \A j \in DOMAIN jobs : j # send[w].job => jobs'[j] = jobs[j]
        <3>1. CASE FinishDeferred(w)
            <4>1. jobs' = [jobs EXCEPT ![send[w].job].status = "pending",
                                       ![send[w].job].attempts = @ - 1]
                BY <3>1 DEF FinishDeferred, Finish
            <4> QED  BY <1>1, <2>1, <4>1, ReleasedJobs
        <3>2. CASE ~FinishDeferred(w)
            <4>1. PICK x \in {"pending", "failed", "cancelled"} : jobs' = Set(w, x)
                BY <1>5, <3>2 DEF FinishSuppressed, FinishFailed, FinishIneligible, Finish
            <4>2. x \in JobStatuses
                BY DEF JobStatuses
            <4> QED  BY <1>1, <2>1, <4>1, <4>2, StatusJobs
        <3> QED  BY <3>1, <3>2
    <2>3. send[w].phase # "idle"
        BY <2>1 DEF Outcomes
    <2> QED  BY <1>1, <2>1, <2>2, <2>3, SlotLeaves
<1>6. CASE Load(w) \/ CheckSuppression(w) \/ TakeMailbox(w) \/ DispatchFails(w) \/ ReadAgain(w)
    <2>0. UNCHANGED <<mail, jobs, faults>>
        BY <1>6 DEF Load, CheckSuppression, Move, TakeMailbox, DispatchFails, ReadAgain, tables
    <2>1. \A v \in Workers : v # w => send'[v] = send[v]
        <3>1. CASE Load(w)
            BY <1>1, <3>1 DEF Load
        <3>2. CASE CheckSuppression(w)
            BY <1>1, <3>2 DEF CheckSuppression, Move
        <3>3. CASE TakeMailbox(w)
            BY <1>1, <3>3 DEF TakeMailbox
        <3>4. CASE DispatchFails(w)
            BY <1>1, <3>4 DEF DispatchFails
        <3>5. CASE ReadAgain(w)
            BY <1>1, <3>5 DEF ReadAgain
        <3> QED  BY <1>6, <3>1, <3>2, <3>3, <3>4, <3>5
    <2>2. /\ send'[w].job = send[w].job
          /\ Undelivered(send'[w]) <=> Undelivered(send[w])
        <3>1. CASE Load(w)
            BY <1>1, <3>1 DEF Load, Sends, Undelivered
        <3>2. CASE CheckSuppression(w)
            BY <1>1, <3>2 DEF CheckSuppression, Move, Sends, Undelivered
        <3>3. CASE TakeMailbox(w)
            BY <1>1, <3>3 DEF TakeMailbox, Sends, Undelivered
        <3>4. CASE DispatchFails(w)
            BY <1>1, <3>4 DEF DispatchFails, Sends, Undelivered
        <3>5. CASE ReadAgain(w)
            <4> DEFINE row == lead[JobOf(w).lead]
            <4>1. send' = [send EXCEPT ![w].seen = row]
                BY <3>5 DEF ReadAgain
            <4> HIDE DEF row
            <4> QED  BY <1>1, <4>1 DEF Sends, Undelivered
        <3> QED  BY <1>6, <3>1, <3>2, <3>3, <3>4, <3>5
    <2>3. \A v \in Workers : /\ Undelivered(send'[v]) <=> Undelivered(send[v])
                             /\ send'[v].job = send[v].job
        BY <2>1, <2>2
    <2> QED  BY <1>1, <2>0, <2>3, NothingMoves
<1> QED  BY <1>2, <1>3, <1>4, <1>5, <1>6

\* The requests of the API.
LEMMA ClientPaid ==
    ASSUME Typed, Typed', OneFirstJob', NEW l, PaidFor(l), ClientNext
    PROVE  PaidFor(l)'
<1>1. PICK c \in Clients : jobs' = jobs \/ jobs' = jobs \o FirstJobs(request[c].leads)
    BY DEF ClientNext, AddLeadsRead, AddLeadsCommit, AddLeadsConflict, StartRead, StartList,
           StartFlush, StartCommit, AddRows
<1>2. UNCHANGED <<mail, send, faults>>
    <2> HIDE <1>1
    <2> QED  BY DEF ClientNext, AddLeadsRead, AddLeadsCommit, AddLeadsConflict, StartRead,
                    StartList, StartFlush, StartCommit, AddRows, RequestUnchanged
<1>6. faults \in Nat /\ faults' >= faults
    <2>1. faults \in Nat
        BY DEF Typed, TypeOK
    <2> QED  BY <1>2, <2>1
<1>3. request[c].leads \in SUBSET Leads
    BY DEF Typed, TypeOK, Requests
<1>4. CASE jobs' = jobs
    BY <1>2, <1>6, <1>4, NothingMoves
<1>5. CASE jobs' = jobs \o FirstJobs(request[c].leads)
    BY <1>2, <1>3, <1>5, FirstJobsPaid
<1> QED  BY <1>1, <1>4, <1>5

LEMMA PaidStep ==
    ASSUME Safe, Counted, Typed', OneFirstJob', NEW l, PaidFor(l), [Next]_vars
    PROVE  PaidFor(l)'
<1>1. Typed /\ faults \in Nat
    BY DEF Safe, Mapped, Typed, TypeOK
<1>2. CASE ClientNext
    BY <1>1, <1>2, ClientPaid
<1>3. CASE ClaimNext
    BY <1>3, ClaimPaid DEF ClaimNext
<1>4. CASE ProcessNext
    BY <1>4, ProcessPaid DEF ProcessNext
<1>5. CASE CrashNext
    BY <1>5, CrashPaid DEF CrashNext
<1>6. CASE PollNext \/ NextDay \/ UNCHANGED vars
    <2>1. UNCHANGED <<mail, jobs, send, faults>>
        BY <1>6 DEF PollNext, Answer, NextDay, vars, tables
    <2> QED  BY <1>1, <2>1, NothingMoves
<1>7. CASE ReplyNext
    <2>1. CASE \E r \in Consumers : ReplyCommit(r)
        BY <1>1, <2>1, CancelPaid
    <2>2. CASE ~\E r \in Consumers : ReplyCommit(r)
        <3>1. UNCHANGED <<mail, jobs, send>> /\ (faults' = faults \/ faults' = faults + 1)
            BY <1>7, <2>2 DEF ReplyNext, ReplyClaim, ReplyIgnored, ReplyLoad, ReplyReadAgain,
                ReplyFlush, ConsumerCrash, ReplyUnchanged, Fault, tables
        <3>2. faults' >= faults
            BY <1>1, <3>1
        <3> QED  BY <1>1, <3>1, <3>2, NothingMoves
    <2> QED  BY <2>1, <2>2
<1> QED  BY <1>2, <1>3, <1>4, <1>5, <1>6, <1>7 DEF Next

LEMMA LedgerStep == OneAtATime /\ Ledger /\ [Next]_vars => Ledger'
<1> SUFFICES ASSUME OneAtATime, Ledger, [Next]_vars PROVE Ledger'
    OBVIOUS
<1>1. Safe /\ Counted /\ Orderly /\ Safe' /\ Counted' /\ Orderly'
    BY SafeStep, CountedStep, OrderlyStep DEF Ledger
<1>2. Typed' /\ OneFirstJob'
    BY <1>1 DEF Orderly
<1>3. \A l \in Leads : PaidFor(l)'
    BY <1>1, <1>2, PaidStep DEF Ledger
<1> QED  BY <1>1, <1>3 DEF Ledger

LEMMA LedgerInitially == Init => Ledger
<1> SUFFICES ASSUME Init PROVE Ledger
    OBVIOUS
<1>1. Safe /\ Counted /\ Orderly
    BY SafeInitially, CountedInitially, OrderlyInitially
<1> SUFFICES ASSUME NEW l \in Leads PROVE PaidFor(l)
    BY <1>1 DEF Ledger
<1>2. DOMAIN jobs = {} /\ DOMAIN mail = {} /\ faults = 0 /\ Steps \in Nat \ {0}
    BY EmptySeq, DomainAssumption DEF Init
<1>3. \A k : /\ SentTo(l, k) = {} /\ Kept(l, k) = {} /\ Lot(l, k) = {} /\ Open(l, k) = {}
             /\ Hands(l, k) = {}
    BY <1>2 DEF SentTo, Kept, Lot, Open, Hands
<1>4. Cardinality({}) = 0
    BY FS_EmptySet
<1>5. FollowUps(l)
    BY <1>3, <1>4 DEF FollowUps
<1>6. \A k : Spent(l, k) = 0 /\ Cardinality(Lot(l, k)) = 0
    BY <1>3, <1>4 DEF Spent
<1> DEFINE f == [k \in 0..Steps |-> 0]
<1>7. f \in [0..Steps -> Nat] /\ \A k \in 0..Steps : f[k] = 0
    OBVIOUS
<1>8. \A k \in 1..Steps : f[k] = 0 /\ f[k - 1] = 0
    BY <1>2
<1> HIDE DEF f
<1>9. Costs(l, f)
    BY <1>2, <1>6, <1>7, <1>8 DEF Costs
<1> QED  BY <1>5, <1>9 DEF PaidFor

\* While requests do not overlap, every message is paid for, once or by a fault.
THEOREM LedgerAlways == OneAtATime => (Spec => []Ledger)
<1>1. ASSUME OneAtATime PROVE Spec => []Ledger
    <2>1. Ledger /\ [Next]_vars => Ledger'
        BY <1>1, LedgerStep
    <2> QED  BY <2>1, LedgerInitially, PTL DEF Spec
<1> QED  BY <1>1

\* While requests do not overlap, a step is sent to a lead more than once only
\* for faults: each crash, lost answer or overlapping lease repeats it at most
\* once, however many slots there are and whichever steps the faults hit.
THEOREM DuplicatesHold == OneAtATime => (Spec => []DuplicatesNeedFaults)
<1>1. Ledger => DuplicatesNeedFaults
    <2> SUFFICES ASSUME Ledger, NEW l \in Leads, NEW k \in 1..Steps
                 PROVE  Cardinality(SentTo(l, k)) <= 1 + faults
        BY DEF DuplicatesNeedFaults
    <2>1. Typed /\ faults \in Nat
        BY DEF Ledger, Safe, Mapped, Typed, TypeOK
    <2>2. PICK f : Costs(l, f)
        BY DEF Ledger, PaidFor
    <2>3. k \in 0..Steps /\ k - 1 \in 0..Steps
        BY DomainAssumption
    <2>4. f[k] \in Nat /\ f[k - 1] \in Nat /\ f[k] <= faults
        BY <2>2, <2>3 DEF Costs
    <2>5. /\ Spent(l, k) <= Cardinality(Lot(l, k)) + f[k] - f[k - 1]
          /\ Cardinality(Lot(l, k)) <= 1 + f[k - 1]
        BY <2>2 DEF Costs
    <2>6. /\ Spent(l, k) \in Nat /\ Cardinality(Lot(l, k)) \in Nat
          /\ Cardinality(SentTo(l, k)) \in Nat /\ Cardinality(SentTo(l, k)) <= Spent(l, k)
        BY <2>1, CountsFinite DEF AllCountable, Countable
    <2> QED  BY <2>1, <2>4, <2>5, <2>6
<1>2. ASSUME OneAtATime PROVE Spec => []DuplicatesNeedFaults
    BY <1>1, <1>2, LedgerAlways, PTL
<1> QED  BY <1>2
=============================================================================
