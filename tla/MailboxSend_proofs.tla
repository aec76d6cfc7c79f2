------------------------- MODULE MailboxSend_proofs -------------------------
(***************************************************************************)
(* Proofs about MailboxSend, for any number of senders, addresses and      *)
(* bodies, any cap and any length of the mail.                             *)
(*                                                                         *)
(* The cap is not inductive by itself: it survives a commit only because   *)
(* the committing sender holds the lock alone and has checked the cap of a *)
(* day no later than its message's.  HolderIsSafe says so.  Midnight keeps *)
(* the cap because no mail is dated in the future (NoFutureMail), and a    *)
(* message is well formed because who is not idle has a draft (HasDraft).  *)
(***************************************************************************)
EXTENDS MailboxSend, FiniteSetTheorems, SequenceTheorems, TLAPS

NoFutureMail == \A i \in DOMAIN mail : mail[i].day <= day

HasDraft == \A s \in Senders : phase[s] # "idle" => draft[s] \in Drafts

IInv == TypeOK /\ NoFutureMail /\ HasDraft /\ HolderIsSafe /\ UnderCap

-----------------------------------------------------------------------------
(* Facts about mail.                                                       *)

\* The domain of a sequence of messages.
LEMMA MailDomain ==
    ASSUME NEW q \in Seq(Message)
    PROVE  Len(q) \in Nat /\ DOMAIN q = 1..Len(q) /\ \A i \in DOMAIN q : q[i] \in Message
BY LenProperties, ElementOfSeq

\* Appending a message leaves those before it as they are.
LEMMA MailAppended ==
    ASSUME NEW q \in Seq(Message), NEW m \in Message
    PROVE  /\ Append(q, m) \in Seq(Message)
           /\ DOMAIN Append(q, m) = DOMAIN q \cup {Len(q) + 1}
           /\ Len(q) + 1 \notin DOMAIN q
           /\ \A i \in DOMAIN q : Append(q, m)[i] = q[i]
           /\ Append(q, m)[Len(q) + 1] = m
<1>1. Append(q, m) \in Seq(Message) /\ Len(Append(q, m)) = Len(q) + 1
    BY AppendProperties
<1>2. /\ \A i \in 1..Len(q) : Append(q, m)[i] = q[i]
      /\ Append(q, m)[Len(q) + 1] = m
    BY AppendProperties
<1>3. DOMAIN Append(q, m) = 1..(Len(q) + 1)
    BY <1>1, MailDomain
<1> QED  BY <1>1, <1>2, <1>3, MailDomain

\* Recording a message changes nothing else.
LEMMA MailRecorded ==
    ASSUME NEW q \in Seq(Message), NEW k \in DOMAIN q
    PROVE  LET r == [q EXCEPT ![k].recorded = TRUE]
           IN  /\ r \in Seq(Message)
               /\ DOMAIN r = DOMAIN q
               /\ \A i \in DOMAIN q : i # k => r[i] = q[i]
               /\ r[k] = [q[k] EXCEPT !.recorded = TRUE]
<1> DEFINE e == [q[k] EXCEPT !.recorded = TRUE]
<1>1. [q EXCEPT ![k].recorded = TRUE] = [q EXCEPT ![k] = e]
    OBVIOUS
<1>2. q[k] \in Message /\ k \in 1..Len(q)
    BY MailDomain
<1>3. e \in Message
    BY <1>2 DEF Message
<1> HIDE DEF e
<1>4. [q EXCEPT ![k] = e] \in Seq(Message)
    BY <1>2, <1>3, ExceptSeq
<1> QED  BY <1>1, <1>4 DEF e

\* Sets of messages are finite.
LEMMA MailFinite ==
    ASSUME NEW q \in Seq(Message), NEW T \in SUBSET DOMAIN q
    PROVE  IsFiniteSet(T) /\ Cardinality(T) \in Nat
<1>1. IsFiniteSet(DOMAIN q)
    BY MailDomain, FS_Interval
<1> QED  BY <1>1, FS_Subset, FS_CardinalityType

\* The sets that the cap is about.
RecordedOn(q, d) == {i \in DOMAIN q : q[i].recorded /\ q[i].day = d}
RecordedSince(q, d) == {i \in DOMAIN q : q[i].recorded /\ q[i].day >= d}

\* They are SentSince, and the set of UnderCap.
LEMMA CapSets ==
    /\ \A d : SentSince(d) = RecordedSince(mail, d)
    /\ UnderCap <=> \A d \in 0..day : Cardinality(RecordedOn(mail, d)) <= DailySendCap
BY DEF SentSince, UnderCap, RecordedOn, RecordedSince

\* A message that is appended is not recorded, so they do not change.
LEMMA AppendCountsNothing ==
    ASSUME NEW q \in Seq(Message), NEW m \in Message, ~m.recorded, NEW d
    PROVE  /\ RecordedOn(Append(q, m), d) = RecordedOn(q, d)
           /\ RecordedSince(Append(q, m), d) = RecordedSince(q, d)
BY MailAppended DEF RecordedOn, RecordedSince

\* No mail is dated in the future, so what was sent since midnight is what is
\* dated today, and the report never has to clip what remains.
LEMMA Reported ==
    ASSUME TypeOK, NoFutureMail, UnderCap
    PROVE  MailboxResponse.sent_today + MailboxResponse.remaining_today = DailySendCap
<1>1. day \in Nat /\ mail \in Seq(Message) /\ DailySendCap \in Nat
    BY SendAssumption DEF TypeOK
<1>2. SentSince(day) = RecordedOn(mail, day)
    <2>1. \A i \in DOMAIN mail : mail[i].day \in Nat /\ mail[i].day <= day
        BY <1>1, MailDomain DEF Message, NoFutureMail
    <2>2. QED
        BY <1>1, <2>1 DEF SentSince, RecordedOn
<1>3. SentToday <= DailySendCap
    <2>1. day \in 0..day
        BY <1>1
    <2>2. QED
        BY <1>2, <2>1, CapSets DEF SentToday
<1>4. SentToday \in Nat
    <2>1. RecordedOn(mail, day) \in SUBSET DOMAIN mail
        BY DEF RecordedOn
    <2>2. QED
        BY <1>1, <1>2, <2>1, MailFinite DEF SentToday
<1>5. RemainingToday(MailboxOverview) = DailySendCap - SentToday
    BY <1>3 DEF RemainingToday, MailboxOverview
<1>6. MailboxResponse.sent_today = SentToday
    BY DEF MailboxResponse, MailboxOverview
<1>7. MailboxResponse.remaining_today = DailySendCap - SentToday
    BY <1>5 DEF MailboxResponse
<1>8. QED
    BY <1>1, <1>4, <1>6, <1>7

-----------------------------------------------------------------------------
(* The steps that leave the mail and the day alone.                        *)

\* What is counted does not change.
LEMMA SameMail ==
    ASSUME UNCHANGED <<mail, day>>
    PROVE  /\ \A d : SentSince(d)' = SentSince(d)
           /\ UnderCap' = UnderCap
           /\ NoFutureMail' = NoFutureMail
BY DEF SentSince, UnderCap, NoFutureMail

\* A sender that ends holds nothing any more; the others keep what they had.
LEMMA Ending ==
    ASSUME IInv, UNCHANGED <<mail, day, suppressed>>, NEW S \in SUBSET Senders,
           phase' = [s \in Senders |-> IF s \in S THEN "idle" ELSE phase[s]],
           draft' = [s \in Senders |-> IF s \in S THEN NoDraft ELSE draft[s]],
           since' = [s \in Senders |-> IF s \in S THEN 0 ELSE since[s]],
           msg' = [s \in Senders |-> IF s \in S THEN 0 ELSE msg[s]]
    PROVE  IInv'
<1>1. TypeOK'
    BY DEF IInv, TypeOK, Phases
<1>2. HasDraft'
    BY DEF IInv, TypeOK, HasDraft
<1>3. \A s \in Senders : HoldsLock(s)' =>
          HoldsLock(s) /\ since'[s] = since[s] /\ msg'[s] = msg[s]
                       /\ draft'[s] = draft[s] /\ phase'[s] = phase[s]
    BY DEF HoldsLock
<1>4. LockIsExclusive' /\ RoomUnderLock'
    BY <1>3, SameMail DEF IInv, HolderIsSafe, LockIsExclusive, RoomUnderLock
<1>5. AcceptedIsOwn'
    BY <1>3 DEF IInv, HolderIsSafe, AcceptedIsOwn, HoldsLock
<1> QED  BY <1>1, <1>2, <1>4, <1>5, SameMail DEF IInv, HolderIsSafe

\* End is the case of a single sender.
LEMMA EndOf ==
    ASSUME IInv, UNCHANGED <<mail, day, suppressed>>, NEW t \in Senders, End(t)
    PROVE  IInv'
<1>1. /\ phase' = [s \in Senders |-> IF s \in {t} THEN "idle" ELSE phase[s]]
      /\ draft' = [s \in Senders |-> IF s \in {t} THEN NoDraft ELSE draft[s]]
      /\ since' = [s \in Senders |-> IF s \in {t} THEN 0 ELSE since[s]]
      /\ msg' = [s \in Senders |-> IF s \in {t} THEN 0 ELSE msg[s]]
    BY DEF IInv, TypeOK, End
<1> QED  BY <1>1, Ending

LEMMA CheckStep ==
    ASSUME IInv, NEW t \in Senders, NEW a \in Addresses, NEW b \in Bodies, Check(t, a, b)
    PROVE  IInv'
<1>1. TypeOK'
    BY DEF IInv, TypeOK, Check, Phases, Drafts
<1>2. HasDraft'
    BY DEF IInv, TypeOK, HasDraft, Check, Drafts
<1>3. \A s \in Senders : HoldsLock(s)' => HoldsLock(s) /\ s # t
    BY DEF IInv, TypeOK, HoldsLock, Check
<1>4. LockIsExclusive' /\ RoomUnderLock'
    BY <1>3, SameMail DEF IInv, HolderIsSafe, LockIsExclusive, RoomUnderLock, Check
<1>5. AcceptedIsOwn'
    BY DEF IInv, TypeOK, HolderIsSafe, AcceptedIsOwn, Check
<1> QED  BY <1>1, <1>2, <1>4, <1>5, SameMail DEF IInv, HolderIsSafe, Check

LEMMA TakeMailboxStep ==
    ASSUME IInv, NEW t \in Senders, TakeMailbox(t)
    PROVE  IInv'
<1>1. TypeOK'
    BY DEF IInv, TypeOK, TakeMailbox, Phases
<1>2. HasDraft'
    BY DEF IInv, TypeOK, HasDraft, TakeMailbox
<1>3. \A s \in Senders : HoldsLock(s)' => s = t
    BY DEF IInv, TypeOK, HoldsLock, TakeMailbox, Busy
<1>4. LockIsExclusive'
    BY <1>3 DEF LockIsExclusive
<1>5. RoomUnderLock'
    <2>1. Cardinality(SentSince(day)) < DailySendCap
        <3>1. Cardinality(SentSince(day)) \in Nat
            BY MailFinite DEF IInv, TypeOK, SentSince
        <3> QED  BY <3>1, SendAssumption DEF TakeMailbox, Capped
    <2>2. since'[t] = day /\ day' = day /\ mail' = mail
        BY DEF IInv, TypeOK, TakeMailbox
    <2> QED  BY <1>3, <2>1, <2>2, SameMail DEF RoomUnderLock, IInv, TypeOK
<1>6. AcceptedIsOwn'
    BY DEF IInv, TypeOK, HolderIsSafe, AcceptedIsOwn, TakeMailbox, HoldsLock, Busy
<1> QED  BY <1>1, <1>2, <1>4, <1>5, <1>6, SameMail DEF IInv, HolderIsSafe, TakeMailbox

-----------------------------------------------------------------------------
(* The steps that change the mail or the day.                              *)

\* A delivery of the holder adds a message of its own, not recorded, dated
\* between the holder's check and now.
LEMMA Delivered ==
    ASSUME IInv, NEW t \in Senders, phase[t] = "sending", Deliver(t)
    PROVE  /\ mail' \in Seq(Message)
           /\ DOMAIN mail' = DOMAIN mail \cup {Len(mail) + 1}
           /\ Len(mail) + 1 \notin DOMAIN mail
           /\ Len(mail) + 1 \in Nat
           /\ \A i \in DOMAIN mail : mail'[i] = mail[i]
           /\ mail'[Len(mail) + 1].to = draft[t].to
           /\ mail'[Len(mail) + 1].body = draft[t].body
           /\ ~mail'[Len(mail) + 1].recorded
           /\ mail'[Len(mail) + 1].day \in since[t]..day
           /\ \A d : RecordedOn(mail', d) = RecordedOn(mail, d)
           /\ \A d : RecordedSince(mail', d) = RecordedSince(mail, d)
<1>1. PICK d \in since[t]..day :
          mail' = Append(mail, [to |-> draft[t].to, body |-> draft[t].body,
                                day |-> d, recorded |-> FALSE])
    BY DEF Deliver
<1> DEFINE m == [to |-> draft[t].to, body |-> draft[t].body, day |-> d, recorded |-> FALSE]
<1>2. m \in Message /\ ~m.recorded
    <2>1. draft[t] \in Drafts /\ since[t] \in Nat /\ day \in Nat
        BY DEF IInv, TypeOK, HasDraft
    <2> QED  BY <1>1, <2>1 DEF Drafts, Message
<1>3. mail \in Seq(Message) /\ mail' = Append(mail, m)
    BY <1>1 DEF IInv, TypeOK
<1>4. m.to = draft[t].to /\ m.body = draft[t].body /\ m.day = d
    OBVIOUS
<1> HIDE DEF m
<1>5. Len(mail) \in Nat
    BY <1>3, MailDomain
<1>6. /\ mail' \in Seq(Message)
      /\ DOMAIN mail' = DOMAIN mail \cup {Len(mail) + 1}
      /\ Len(mail) + 1 \notin DOMAIN mail
      /\ \A i \in DOMAIN mail : mail'[i] = mail[i]
      /\ mail'[Len(mail) + 1] = m
    BY <1>2, <1>3, MailAppended
<1>7. /\ \A x : RecordedOn(mail', x) = RecordedOn(mail, x)
      /\ \A x : RecordedSince(mail', x) = RecordedSince(mail, x)
    BY <1>2, <1>3, AppendCountsNothing
<1>8. Len(mail) + 1 \in Nat
    BY <1>5
<1>9. /\ mail'[Len(mail) + 1].to = draft[t].to
      /\ mail'[Len(mail) + 1].body = draft[t].body
      /\ mail'[Len(mail) + 1].day \in since[t]..day
    BY <1>4, <1>6
<1>10. ~mail'[Len(mail) + 1].recorded
    BY <1>2, <1>6
<1> QED  BY <1>6, <1>7, <1>8, <1>9, <1>10

\* The delivery by itself keeps what does not speak of the senders.
LEMMA DeliveryKeeps ==
    ASSUME IInv, NEW t \in Senders, phase[t] = "sending", Deliver(t), day' = day
    PROVE  /\ NoFutureMail'
           /\ UnderCap'
           /\ \A d : SentSince(d)' = SentSince(d)
<1>1. NoFutureMail'
    BY Delivered DEF IInv, TypeOK, NoFutureMail
<1>2. UnderCap'
    BY Delivered DEF IInv, UnderCap, RecordedOn
<1>3. \A d : SentSince(d)' = SentSince(d)
    BY Delivered DEF SentSince, RecordedSince
<1> QED  BY <1>1, <1>2, <1>3

LEMMA AcceptStep ==
    ASSUME IInv, NEW t \in Senders, Accept(t)
    PROVE  IInv'
<1>1. phase[t] = "sending" /\ Deliver(t) /\ day' = day
    BY DEF Accept
<1>2. TypeOK'
    BY <1>1, Delivered DEF IInv, TypeOK, Accept, Phases
<1>3. HasDraft'
    BY DEF IInv, TypeOK, HasDraft, Accept
<1>4. \A s \in Senders : HoldsLock(s)' => HoldsLock(s) /\ since'[s] = since[s] /\ s = t
    BY DEF IInv, TypeOK, HoldsLock, Accept, HolderIsSafe, LockIsExclusive
<1>5. LockIsExclusive'
    BY <1>4 DEF LockIsExclusive
<1>6. RoomUnderLock'
    BY <1>1, <1>4, DeliveryKeeps DEF IInv, HolderIsSafe, RoomUnderLock
<1>7. AcceptedIsOwn'
    <2>1. \A s \in Senders : phase'[s] = "accepted" => s = t
        BY <1>4 DEF HoldsLock
    <2>2. msg'[t] = Len(mail) + 1 /\ since'[t] = since[t] /\ draft' = draft
        BY DEF IInv, TypeOK, Accept
    <2>3. since[t] \in Nat /\ day \in Nat
        BY DEF IInv, TypeOK
    <2> QED  BY <1>1, <2>1, <2>2, <2>3, Delivered DEF AcceptedIsOwn
<1> QED  BY <1>1, <1>2, <1>3, <1>5, <1>6, <1>7, DeliveryKeeps DEF IInv, HolderIsSafe

LEMMA LoseAnswerStep ==
    ASSUME IInv, NEW t \in Senders, LoseAnswer(t)
    PROVE  IInv'
<1>1. phase[t] = "sending" /\ Deliver(t) /\ day' = day
    BY DEF LoseAnswer
<1>2. TypeOK'
    BY <1>1, Delivered DEF IInv, TypeOK, LoseAnswer, End, Phases
<1>3. HasDraft'
    BY DEF IInv, TypeOK, HasDraft, LoseAnswer, End
<1>4. \A s \in Senders : ~HoldsLock(s)'
    BY DEF IInv, TypeOK, HoldsLock, LoseAnswer, End, HolderIsSafe, LockIsExclusive
<1>5. HolderIsSafe'
    BY <1>4 DEF HolderIsSafe, LockIsExclusive, RoomUnderLock, AcceptedIsOwn, HoldsLock
<1> QED  BY <1>1, <1>2, <1>3, <1>5, DeliveryKeeps DEF IInv

\* A commit adds one message to the day it is dated, where the holder's check
\* has left room for it.
LEMMA CommitStep ==
    ASSUME IInv, NEW t \in Senders, Commit(t)
    PROVE  IInv'
<1> DEFINE k == msg[t]
<1>1. /\ mail \in Seq(Message)
      /\ k \in DOMAIN mail
      /\ mail' = [mail EXCEPT ![k].recorded = TRUE]
      /\ day' = day
      /\ HoldsLock(t)
      /\ mail[k].day >= since[t]
    BY DEF IInv, TypeOK, Commit, HolderIsSafe, AcceptedIsOwn, HoldsLock
<1>2. /\ mail' \in Seq(Message)
      /\ DOMAIN mail' = DOMAIN mail
      /\ \A i \in DOMAIN mail : i # k => mail'[i] = mail[i]
      /\ mail'[k] = [mail[k] EXCEPT !.recorded = TRUE]
    BY <1>1, MailRecorded
<1>3. \A i \in DOMAIN mail : mail[i] \in Message /\ mail'[i].day = mail[i].day
    <2> SUFFICES ASSUME NEW i \in DOMAIN mail
                 PROVE  mail[i] \in Message /\ mail'[i].day = mail[i].day
        OBVIOUS
    <2>1. mail[i] \in Message
        BY <1>1, MailDomain
    <2>2. CASE i # k
        BY <1>2, <2>1, <2>2
    <2>3. CASE i = k
        BY <1>2, <2>1, <2>3 DEF Message
    <2>4. QED
        BY <2>2, <2>3
<1>4. TypeOK'
    BY <1>2 DEF IInv, TypeOK, Commit, End, Phases
<1>5. HasDraft'
    BY DEF IInv, TypeOK, HasDraft, Commit, End
<1>6. NoFutureMail'
    BY <1>1, <1>2, <1>3 DEF IInv, NoFutureMail
<1>7. HolderIsSafe'
    <2>1. \A s \in Senders : ~HoldsLock(s)'
        BY <1>1 DEF IInv, TypeOK, HoldsLock, Commit, End, HolderIsSafe, LockIsExclusive
    <2> QED  BY <2>1 DEF HolderIsSafe, LockIsExclusive, RoomUnderLock, AcceptedIsOwn, HoldsLock
<1>8. UnderCap'
    <2> SUFFICES ASSUME NEW d \in 0..day
                 PROVE  Cardinality(RecordedOn(mail', d)) <= DailySendCap
        BY <1>1 DEF UnderCap, RecordedOn
    <2>1. RecordedOn(mail, d) \in SUBSET DOMAIN mail
        BY DEF RecordedOn
    <2>2. CASE d # mail[k].day
        <3>1. RecordedOn(mail', d) = RecordedOn(mail, d)
            BY <1>1, <1>2, <1>3, <2>2 DEF RecordedOn
        <3> QED  BY <3>1, CapSets DEF IInv
    <2>3. CASE d = mail[k].day
        <3>1. RecordedOn(mail', d) \in SUBSET (RecordedOn(mail, d) \cup {k})
            BY <1>1, <1>2, <1>3 DEF RecordedOn
        <3>2. RecordedOn(mail, d) \in SUBSET SentSince(since[t])
            BY <1>1, <1>3, <2>3 DEF RecordedOn, SentSince
        <3>3. Cardinality(SentSince(since[t])) < DailySendCap
            BY <1>1 DEF IInv, HolderIsSafe, RoomUnderLock
        <3>4. IsFiniteSet(SentSince(since[t])) /\ Cardinality(SentSince(since[t])) \in Nat
            BY <1>1, MailFinite DEF SentSince
        <3>5. /\ IsFiniteSet(RecordedOn(mail, d))
              /\ Cardinality(RecordedOn(mail, d)) \in Nat
              /\ Cardinality(RecordedOn(mail, d)) <= Cardinality(SentSince(since[t]))
            BY <1>1, <2>1, <3>2, <3>4, MailFinite, FS_Subset
        <3>6. /\ IsFiniteSet(RecordedOn(mail, d) \cup {k})
              /\ Cardinality(RecordedOn(mail, d) \cup {k}) <= Cardinality(RecordedOn(mail, d)) + 1
            BY <3>5, FS_AddElement
        <3>7. Cardinality(RecordedOn(mail', d)) <= Cardinality(RecordedOn(mail, d) \cup {k})
            BY <3>1, <3>6, FS_Subset
        <3>8. /\ Cardinality(RecordedOn(mail', d)) \in Nat
              /\ Cardinality(RecordedOn(mail, d) \cup {k}) \in Nat
            BY <3>1, <3>6, FS_Subset, FS_CardinalityType
        <3> QED  BY <3>3, <3>4, <3>5, <3>6, <3>7, <3>8, SendAssumption
    <2> QED  BY <2>2, <2>3
<1> QED  BY <1>4, <1>5, <1>6, <1>7, <1>8 DEF IInv

\* Midnight: no mail is dated tomorrow, and what fitted still fits.
LEMMA NextDayStep ==
    ASSUME IInv, NextDay
    PROVE  IInv'
<1>1. day' = day + 1 /\ day \in Nat /\ mail' = mail /\ mail \in Seq(Message)
    BY DEF NextDay, IInv, TypeOK
<1>2. TypeOK'
    BY DEF IInv, TypeOK, NextDay
<1>3. HasDraft'
    BY DEF IInv, HasDraft, NextDay
<1>4. \A i \in DOMAIN mail : mail[i].day \in Nat
    BY <1>1, MailDomain DEF Message
<1>5. NoFutureMail'
    BY <1>1, <1>4 DEF IInv, NoFutureMail
<1>6. LockIsExclusive' /\ AcceptedIsOwn'
    BY <1>1 DEF IInv, HolderIsSafe, LockIsExclusive, AcceptedIsOwn, HoldsLock, NextDay
<1>7. RoomUnderLock'
    <2>1. \A s \in Senders : since'[s] = since[s] /\ since[s] \in Nat
        BY DEF IInv, TypeOK, NextDay
    <2>2. \A d : SentSince(d)' = SentSince(d)
        BY <1>1 DEF SentSince
    <2>3. \A s \in Senders : HoldsLock(s)' => HoldsLock(s)
        BY DEF HoldsLock, NextDay
    <2> QED  BY <1>1, <2>1, <2>2, <2>3 DEF IInv, HolderIsSafe, RoomUnderLock
<1>8. UnderCap'
    <2> SUFFICES ASSUME NEW d \in 0..(day + 1)
                 PROVE  Cardinality(RecordedOn(mail, d)) <= DailySendCap
        BY <1>1 DEF UnderCap, RecordedOn
    <2>1. CASE d \in 0..day
        BY <2>1, CapSets DEF IInv
    <2>2. CASE d = day + 1
        <3>1. RecordedOn(mail, d) = {}
            BY <1>1, <1>4, <2>2 DEF RecordedOn, IInv, NoFutureMail
        <3> QED  BY <3>1, FS_EmptySet, SendAssumption
    <2> QED  BY <1>1, <2>1, <2>2
<1> QED  BY <1>2, <1>3, <1>5, <1>6, <1>7, <1>8 DEF IInv, HolderIsSafe

-----------------------------------------------------------------------------
(* The theorems.                                                           *)

LEMMA Initially == Init => IInv
<1> SUFFICES ASSUME Init PROVE IInv
    OBVIOUS
<1>1. mail = <<>> /\ DOMAIN mail = {}
    BY DEF Init
<1>2. TypeOK
    BY <1>1, EmptySeq DEF Init, TypeOK, Phases
<1>3. NoFutureMail /\ HasDraft
    BY <1>1 DEF Init, NoFutureMail, HasDraft
<1>4. HolderIsSafe
    BY DEF Init, HolderIsSafe, LockIsExclusive, RoomUnderLock, AcceptedIsOwn, HoldsLock
<1>5. UnderCap
    BY <1>1, FS_EmptySet, SendAssumption DEF UnderCap
<1> QED  BY <1>2, <1>3, <1>4, <1>5 DEF IInv

LEMMA EveryStep == IInv /\ [Next]_vars => IInv'
<1> SUFFICES ASSUME IInv, [Next]_vars PROVE IInv'
    OBVIOUS
<1>1. ASSUME NEW s \in Senders, NEW a \in Addresses, NEW b \in Bodies, Check(s, a, b)
      PROVE  IInv'
    BY <1>1, CheckStep
<1>2. ASSUME NEW s \in Senders, TakeMailbox(s)
      PROVE  IInv'
    BY <1>2, TakeMailboxStep
<1>3. ASSUME NEW s \in Senders, Defer(s) \/ Fail(s)
      PROVE  IInv'
    BY <1>3, EndOf DEF Defer, Fail
<1>4. ASSUME NEW s \in Senders, Accept(s)
      PROVE  IInv'
    BY <1>4, AcceptStep
<1>5. ASSUME NEW s \in Senders, LoseAnswer(s)
      PROVE  IInv'
    BY <1>5, LoseAnswerStep
<1>6. ASSUME NEW s \in Senders, Commit(s)
      PROVE  IInv'
    BY <1>6, CommitStep
<1>7. ASSUME NEW S \in SUBSET Senders, Crash(S)
      PROVE  IInv'
    BY <1>7, Ending DEF Crash
<1>8. ASSUME NEW a \in Addresses, Suppress(a)
      PROVE  IInv'
    <2>1. TypeOK'
        BY <1>8 DEF IInv, TypeOK, Suppress
    <2> QED  BY <1>8, <2>1, SameMail
             DEF IInv, Suppress, HasDraft, HolderIsSafe, LockIsExclusive, RoomUnderLock,
                 AcceptedIsOwn, HoldsLock
<1>9. CASE NextDay
    BY <1>9, NextDayStep
<1>10. CASE UNCHANGED vars
    <2>1. TypeOK' /\ HasDraft'
        BY <1>10 DEF vars, IInv, TypeOK, HasDraft
    <2> QED  BY <1>10, <2>1, SameMail
             DEF vars, IInv, HolderIsSafe, LockIsExclusive, RoomUnderLock,
                 AcceptedIsOwn, HoldsLock
<1> QED  BY <1>1, <1>2, <1>3, <1>4, <1>5, <1>6, <1>7, <1>8, <1>9, <1>10 DEF Next

\* The strengthened invariant holds for ever.
THEOREM Invariance == Spec => []IInv
BY Initially, EveryStep, PTL DEF Spec

\* Type correctness of the senders, the lock and the mail.
THEOREM TypeCorrect == Spec => []TypeOK
<1>1. IInv => TypeOK
    BY DEF IInv
<1> QED  BY <1>1, Invariance, PTL

\* Whoever holds the mailbox's lock holds it alone, still has room under the
\* cap, and the message the provider accepted from it is its own.
THEOREM HoldersAreSafe == Spec => []HolderIsSafe
<1>1. IInv => HolderIsSafe
    BY DEF IInv
<1> QED  BY <1>1, Invariance, PTL

\* However many transactions send, whatever crashes and however long a send
\* takes: no day has more recorded messages than the mailbox's daily cap.
THEOREM CapHolds == Spec => []CapRespected
<1>1. IInv => CapRespected
    BY Reported DEF IInv, CapRespected
<1> QED  BY <1>1, Invariance, PTL

\* A message is recorded only by the commit of the transaction that sent it,
\* and a record is never taken back.
THEOREM OrphansHold == Spec => OrphansStayUnrecorded
<1> DEFINE A == \A i \in DOMAIN mail :
                  /\ mail[i].recorded => mail'[i].recorded
                  /\ mail'[i].recorded /\ ~mail[i].recorded
                        => \E s \in Senders : phase[s] = "accepted" /\ msg[s] = i
<1>1. ASSUME IInv, [Next]_vars
      PROVE  [A]_vars
    <2>1. CASE mail' = mail
        BY <2>1
    <2>2. ASSUME NEW s \in Senders, Accept(s) \/ LoseAnswer(s)
          PROVE  A
        <3>1. \A i \in DOMAIN mail : mail'[i] = mail[i]
            BY <1>1, <2>2, Delivered DEF Accept, LoseAnswer
        <3> QED  BY <3>1
    <2>3. ASSUME NEW s \in Senders, Commit(s)
          PROVE  A
        <3>1. /\ mail \in Seq(Message)
              /\ msg[s] \in DOMAIN mail
              /\ phase[s] = "accepted"
              /\ mail' = [mail EXCEPT ![msg[s]].recorded = TRUE]
            BY <1>1, <2>3 DEF IInv, TypeOK, Commit, HolderIsSafe, AcceptedIsOwn
        <3>2. /\ \A i \in DOMAIN mail : i # msg[s] => mail'[i] = mail[i]
              /\ mail'[msg[s]] = [mail[msg[s]] EXCEPT !.recorded = TRUE]
            BY <3>1, MailRecorded
        <3>3. mail[msg[s]] \in Message
            BY <3>1, MailDomain
        <3>4. mail'[msg[s]].recorded
            BY <3>2, <3>3 DEF Message
        <3> QED  BY <3>1, <3>2, <3>4
    <2>4. mail' = mail \/ \E s \in Senders : Accept(s) \/ LoseAnswer(s) \/ Commit(s)
        BY <1>1 DEF Next, vars, Check, TakeMailbox, Defer, Fail, Crash, Suppress, NextDay
    <2> QED  BY <2>1, <2>2, <2>3, <2>4
<1>2. Spec => [][A]_vars
    BY <1>1, Invariance, PTL DEF Spec
<1> QED  BY <1>2 DEF OrphansStayUnrecorded

=============================================================================
