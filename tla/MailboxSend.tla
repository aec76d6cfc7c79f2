----------------------------- MODULE MailboxSend -----------------------------
(***************************************************************************)
(* One mailbox and the transactions that send from it: what the messaging  *)
(* context's SendEmailHandler promises to its callers, the campaign        *)
(* dispatch and the test-email route.                                      *)
(*                                                                         *)
(* A sender checks the suppression list, tries the mailbox's advisory      *)
(* lock, counts the messages sent since UTC midnight, writes an outbound   *)
(* row and calls the provider.  The lock and the row belong to the         *)
(* transaction: another transaction sees the row, and can take the lock,   *)
(* only once this one has committed or rolled back.                        *)
(*                                                                         *)
(* mail is what the provider accepted, in order.  A message is "recorded"  *)
(* once the transaction that sent it has committed; one whose transaction  *)
(* is lost stays unrecorded for ever, although it was delivered.           *)
(***************************************************************************)
EXTENDS Integers, Sequences, FiniteSets

CONSTANTS
    Senders,        \* transactions that can be sending at the same time
    Addresses,      \* recipients
    Bodies,         \* contents
    DailySendCap,   \* mailbox.daily_send_cap
    MaxMail,        \* bound: messages the provider accepts
    NoDraft         \* the draft of a sender that is not sending

ASSUME SendAssumption == DailySendCap \in Nat /\ MaxMail \in Nat

VARIABLES
    day,          \* the current UTC day
    suppressed,   \* addresses in messaging__suppressions
    mail,         \* what the provider accepted
    phase,        \* where each sender is
    draft,        \* the message of each sender
    since,        \* day_start of the sender that holds the lock
    msg           \* index in mail of the message the provider has accepted

vars == <<day, suppressed, mail, phase, draft, since, msg>>

Phases  == {"idle", "checked", "sending", "accepted"}
Drafts  == [to : Addresses, body : Bodies]
Message == [to : Addresses, body : Bodies, day : Nat, recorded : BOOLEAN]

TypeOK ==
    /\ day \in Nat
    /\ suppressed \subseteq Addresses
    /\ mail \in Seq(Message)
    /\ phase \in [Senders -> Phases]
    /\ draft \in [Senders -> Drafts \cup {NoDraft}]
    /\ since \in [Senders -> Nat]
    /\ msg \in [Senders -> Nat]

-----------------------------------------------------------------------------
\* The advisory lock is held from try_acquire to the end of the transaction.
HoldsLock(s) == phase[s] \in {"sending", "accepted"}

\* count_sent_since: committed rows with a provider message id, by creation day.
SentSince(d) == {i \in DOMAIN mail : mail[i].recorded /\ mail[i].day >= d}

\* Mutant: the lock is given back once the provider has answered.
BusyUntilAnswer == \E s \in Senders : phase[s] = "sending"

\* Mutant: one message too many fits.
CappedLate == Cardinality(SentSince(day)) > DailySendCap

Busy   == \E s \in Senders : HoldsLock(s)
Capped == Cardinality(SentSince(day)) >= DailySendCap

\* Mutant: the row is dated by a clock behind UTC.
DeliverInLocalTime(s) ==
    /\ Len(mail) < MaxMail
    /\ mail' = Append(mail, [to |-> draft[s].to, body |-> draft[s].body,
                             day |-> since[s] - 1, recorded |-> FALSE])

\* The provider accepts the sender's message.  The row was created after the
\* day_start of the cap check was read and before the call.
Deliver(s) ==
    /\ Len(mail) < MaxMail
    /\ \E d \in since[s]..day :
          mail' = Append(mail, [to |-> draft[s].to, body |-> draft[s].body,
                                day |-> d, recorded |-> FALSE])

End(s) ==
    /\ phase' = [phase EXCEPT ![s] = "idle"]
    /\ draft' = [draft EXCEPT ![s] = NoDraft]
    /\ since' = [since EXCEPT ![s] = 0]
    /\ msg' = [msg EXCEPT ![s] = 0]

-----------------------------------------------------------------------------
Init ==
    /\ day = 0
    /\ suppressed = {}
    /\ mail = <<>>
    /\ phase = [s \in Senders |-> "idle"]
    /\ draft = [s \in Senders |-> NoDraft]
    /\ since = [s \in Senders |-> 0]
    /\ msg = [s \in Senders |-> 0]

\* is_suppressed is false for the recipient.
Check(s, a, b) ==
    /\ phase[s] = "idle"
    /\ a \notin suppressed
    /\ phase' = [phase EXCEPT ![s] = "checked"]
    /\ draft' = [draft EXCEPT ![s] = [to |-> a, body |-> b]]
    /\ UNCHANGED <<day, suppressed, mail, since, msg>>

\* The lock is free and the count is below the cap.
TakeMailbox(s) ==
    /\ phase[s] = "checked"
    /\ ~Busy
    /\ ~Capped
    /\ phase' = [phase EXCEPT ![s] = "sending"]
    /\ since' = [since EXCEPT ![s] = day]
    /\ UNCHANGED <<day, suppressed, mail, draft, msg>>

\* MailboxBusyError, or DailySendCapReachedError (which frees the lock again).
Defer(s) ==
    /\ phase[s] = "checked"
    /\ Busy \/ Capped
    /\ End(s)
    /\ UNCHANGED <<day, suppressed, mail>>

\* The provider accepts the message and the answer arrives.
Accept(s) ==
    /\ phase[s] = "sending"
    /\ Deliver(s)
    /\ msg' = [msg EXCEPT ![s] = Len(mail) + 1]
    /\ phase' = [phase EXCEPT ![s] = "accepted"]
    /\ UNCHANGED <<day, suppressed, draft, since>>

\* The provider accepts the message but its answer is lost: the handler sees
\* an exception, and the savepoint rolls the row and the lock back.
LoseAnswer(s) ==
    /\ phase[s] = "sending"
    /\ Deliver(s)
    /\ End(s)
    /\ UNCHANGED <<day, suppressed>>

\* Any other exception of the handler.
Fail(s) ==
    /\ phase[s] \in {"checked", "sending"}
    /\ End(s)
    /\ UNCHANGED <<day, suppressed, mail>>

\* Mutant: mark_sent finds the row by its recipient.
CommitByRecipient(s) ==
    /\ phase[s] = "accepted"
    /\ mail' = [i \in DOMAIN mail |->
           IF mail[i].to = draft[s].to THEN [mail[i] EXCEPT !.recorded = TRUE]
           ELSE mail[i]]
    /\ End(s)
    /\ UNCHANGED <<day, suppressed>>

\* The transaction around the handler commits.
Commit(s) ==
    /\ phase[s] = "accepted"
    /\ mail' = [mail EXCEPT ![msg[s]].recorded = TRUE]
    /\ End(s)
    /\ UNCHANGED <<day, suppressed>>

\* A process dies, or its connection does, with the transactions it had open.
Crash(S) ==
    /\ \E s \in S : phase[s] # "idle"
    /\ phase' = [s \in Senders |-> IF s \in S THEN "idle" ELSE phase[s]]
    /\ draft' = [s \in Senders |-> IF s \in S THEN NoDraft ELSE draft[s]]
    /\ since' = [s \in Senders |-> IF s \in S THEN 0 ELSE since[s]]
    /\ msg' = [s \in Senders |-> IF s \in S THEN 0 ELSE msg[s]]
    /\ UNCHANGED <<day, suppressed, mail>>

\* The inbox poller suppresses an address.
Suppress(a) ==
    /\ suppressed' = suppressed \cup {a}
    /\ UNCHANGED <<day, mail, phase, draft, since, msg>>

\* UTC midnight.  Days without mail are all alike, so a day is counted only
\* when something was sent on it: this keeps the day within MaxMail.
NextDay ==
    /\ \E i \in DOMAIN mail : mail[i].day = day
    /\ day' = day + 1
    /\ UNCHANGED <<suppressed, mail, phase, draft, since, msg>>

Next ==
    \/ \E s \in Senders :
          \/ \E a \in Addresses, b \in Bodies : Check(s, a, b)
          \/ TakeMailbox(s)
          \/ Defer(s)
          \/ Accept(s)
          \/ LoseAnswer(s)
          \/ Fail(s)
          \/ Commit(s)
    \/ \E S \in SUBSET Senders : Crash(S)
    \/ \E a \in Addresses : Suppress(a)
    \/ NextDay

Spec == Init /\ [][Next]_vars

-----------------------------------------------------------------------------
(* What GET /mailboxes tells of the mailbox.                               *)

\* MailboxActivity.sent_since, from the start of the UTC day.
SentToday == Cardinality(SentSince(day))

MailboxOverview ==
    [sent_today |-> SentToday, suppressed_addresses |-> Cardinality(suppressed)]

RemainingToday(overview) ==
    IF overview.sent_today <= DailySendCap THEN DailySendCap - overview.sent_today ELSE 0

MailboxResponse ==
    [daily_send_cap       |-> DailySendCap,
     sent_today           |-> MailboxOverview.sent_today,
     remaining_today      |-> RemainingToday(MailboxOverview),
     suppressed_addresses |-> MailboxOverview.suppressed_addresses]

-----------------------------------------------------------------------------
UnderCap ==
    \A d \in 0..day :
        Cardinality({i \in DOMAIN mail : mail[i].recorded /\ mail[i].day = d})
            <= DailySendCap

\* The cap of README "Sending guards": on no UTC day are more messages
\* recorded than the cap, whatever the senders interleave, and also for a
\* message created before midnight and committed after it; so what GET
\* /mailboxes shows as sent and as remaining today adds up to the cap.
CapRespected ==
    /\ UnderCap
    /\ MailboxResponse.sent_today + MailboxResponse.remaining_today = DailySendCap

LockIsExclusive ==
    \A s, t \in Senders : HoldsLock(s) /\ HoldsLock(t) => s = t

RoomUnderLock ==
    \A s \in Senders : HoldsLock(s) =>
        /\ since[s] <= day
        /\ Cardinality(SentSince(since[s])) < DailySendCap

AcceptedIsOwn ==
    \A s \in Senders : phase[s] = "accepted" =>
        /\ msg[s] \in DOMAIN mail
        /\ mail[msg[s]].to = draft[s].to
        /\ mail[msg[s]].body = draft[s].body
        /\ ~mail[msg[s]].recorded
        /\ mail[msg[s]].day >= since[s]

\* What the holder of the lock can rely on until it commits: nobody else
\* holds it, its message still fits under the cap it checked, also when
\* midnight has passed since, and the message the provider accepted from it
\* is its own draft, not recorded yet and dated no earlier than the check.
HolderIsSafe == LockIsExclusive /\ RoomUnderLock /\ AcceptedIsOwn

\* A record is never taken back, and a message that no open transaction
\* carries is never recorded afterwards: an orphan of a lost answer or a
\* crash can never be matched to a reply.
OrphansStayUnrecorded ==
    [][\A i \in DOMAIN mail :
          /\ mail[i].recorded => mail'[i].recorded
          /\ mail'[i].recorded /\ ~mail[i].recorded
                => \E s \in Senders : phase[s] = "accepted" /\ msg[s] = i]_vars

=============================================================================
