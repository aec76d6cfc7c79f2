---------------------------- MODULE InboxPolling ----------------------------
(***************************************************************************)
(* The inbox poll of one mailbox: Gmail's history, the receiver, and the   *)
(* transaction of PollInboxHandler.run_once, by any number of pollers at   *)
(* once (two workers, or an old one that is still running).                *)
(*                                                                         *)
(* A position in history is a Gmail message and its history id alike.      *)
(* outbound is messaging__outbound_messages as the provider has it: a      *)
(* message is "accepted" while the transaction that sends it is open,      *)
(* then "sent" or "lost".  Its index stands for its Message-ID, its Gmail  *)
(* thread and its age.  A poll writes nothing that others see before its   *)
(* commit, except that its new inbound rows hold their unique keys.        *)
(***************************************************************************)
EXTENDS ReplyMatching

CONSTANTS
    Pollers,        \* processes that poll this mailbox
    Addresses,      \* recipients
    Subjects,       \* subjects of outbound messages, without prefixes
    Answers,        \* the answers there can be: [form, signals, body, cues, quoted]
    LlmAnswers,     \* answers of the configured model, {} for none
    CandidateLimit, \* _CANDIDATE_LIMIT
    PageSize,       \* messages per page of Gmail's history
    Owner, Daemon,  \* the mailbox's own address and the mailer daemon's
    NoCursor,       \* a mailbox that was never polled
    MaxSends, MaxReplies, MaxMail, MaxPolls, MaxIncidents    \* bounds

\* What clients keep of the message they answer, see Reply.
Forms == {"direct", "chain", "thread", "subject", "bare"}

ASSUME InboxAssumption ==
    /\ CandidateLimit \in Nat \ {0} /\ PageSize \in Nat \ {0}
    /\ MaxSends \in Nat /\ MaxReplies \in Nat /\ MaxMail \in Nat
    /\ MaxPolls \in Nat /\ MaxIncidents \in Nat
    /\ NoCursor \notin Nat
    /\ Owner \notin Addresses /\ Daemon \notin Addresses /\ Owner # Daemon
    /\ Answers \subseteq [form : Forms, signals : SUBSET Signals, body : BOOLEAN,
                          cues : SUBSET Cues, quoted : SUBSET Cues]

VARIABLES
    outbound,    \* what was handed to the provider, oldest first
    history,     \* the messages Gmail added to the mailbox, in order
    hidden,      \* those deleted or moved out of the inbox since
    expired,     \* history up to here is no longer served
    cursor,      \* mailbox.last_sync_cursor
    inbound,     \* messaging__inbound_messages, in commit order
    suppressed,  \* messaging__suppressions
    outbox,      \* messaging__outbox_events
    poll,        \* the state of each poller's transaction
    skipped,     \* history: positions a (re)baselined cursor jumped over
    overlapped,  \* history: two polls were open at once
    polls,       \* polls begun, up to MaxPolls
    incidents    \* what has gone wrong, up to MaxIncidents

mailVars == <<outbound, history, hidden, expired>>
tables   == <<cursor, inbound, suppressed, outbox, skipped>>
vars     == <<mailVars, tables, poll, overlapped, polls, incidents>>

-----------------------------------------------------------------------------
Reasons == {"unsubscribe", "hard_bounce"}
Stages  == {"idle", "fetching", "reading", "working", "inserting"}

\* InboundMessage: unmatched is matched to Absent and has no intent.
Row == [pos : Nat \ {0}, matched : Nat, intent : Intents \cup {"none"}]

\* The payloads of InboundReceived, ReplyMatched and ReplyClassified.
Event == [type : {"InboundReceived", "ReplyMatched", "ReplyClassified"},
          pos : Nat \ {0}, matched : Nat, intent : Intents \cup {"none"}]

Suppression == [email : Addresses, reason : Reasons]

Outbound == [to : Addresses, subject : Subjects, state : {"accepted", "sent", "lost"}]

\* A poll goes through its queue in the order of history, oldest first, and
\* its candidates are ordered by age: both are sets of positions.
Poll == [at : Stages, start : Nat \cup {NoCursor}, upto : Nat, next : Nat,
         queue : SUBSET (Nat \ {0}), candidates : SUBSET (Nat \ {0}), gap : SUBSET Nat,
         rows : Seq(Row), events : Seq(Event), suppress : SUBSET Suppression]

Idle == [at |-> "idle", start |-> NoCursor, upto |-> 0, next |-> 0, queue |-> {},
         candidates |-> {}, gap |-> {}, rows |-> <<>>, events |-> <<>>, suppress |-> {}]

\* A header and a message, see ReplyMatching.  answers, onTime and form say what
\* a reply is really an answer to, whether that was recorded by then, and what
\* the client kept; no program can read them.
Header  == [id : Nat, brackets : BOOLEAN]
Message == [sent : BOOLEAN, from : Addresses \cup {Owner, Daemon}, answers : Nat,
            onTime : BOOLEAN, form : Forms, inReplyTo : Header, references : Seq(Header),
            thread : Nat, subject : [prefixes : Nat, base : Subjects \cup {Empty}],
            signals : SUBSET Signals, body : BOOLEAN, cues : SUBSET Cues,
            quoted : SUBSET Cues]

TypeOK ==
    /\ outbound \in Seq(Outbound) /\ history \in Seq(Message)
    /\ hidden \subseteq DOMAIN history
    /\ expired \in 0..Len(history)
    /\ cursor \in (0..Len(history)) \cup {NoCursor}
    /\ inbound \in Seq(Row)
    /\ suppressed \subseteq Suppression
    /\ outbox \in Seq(Event)
    /\ poll \in [Pollers -> Poll]
    /\ skipped \subseteq DOMAIN history
    /\ overlapped \in BOOLEAN
    /\ polls \in 0..MaxPolls /\ incidents \in 0..MaxIncidents

-----------------------------------------------------------------------------
\* InboundMessageRepository.exists, as other transactions see the table.
Stored(i) == \E k \in DOMAIN inbound : inbound[k].pos = i

\* An open poll has inserted the message: its unique key is taken.
KeyHeld(p, i) ==
    \E q \in Pollers \ {p} : \E k \in DOMAIN poll[q].rows : poll[q].rows[k].pos = i

\* An outbound row as match_reply sees it.
Candidate(o) ==
    [id |-> o, messageId |-> [id |-> o, brackets |-> TRUE], thread |-> o,
     subject |-> [prefixes |-> 0, base |-> outbound[o].subject], to |-> outbound[o].to]

Candidates(s) == {Candidate(o) : o \in s.candidates}

\* The newest n of a set of outbound messages.
Newest(S, n) == {o \in S : Cardinality({b \in S : b > o}) < n}

\* Mutant: an answered message stays a candidate.
EverySent == Newest({o \in DOMAIN outbound : outbound[o].state = "sent"}, CandidateLimit)

\* list_unanswered: recorded messages that no inbound row is matched to.
Unanswered ==
    Newest({o \in DOMAIN outbound :
               /\ outbound[o].state = "sent"
               /\ \A k \in DOMAIN inbound : inbound[k].matched # o}, CandidateLimit)

-----------------------------------------------------------------------------
\* A message Gmail adds to the mailbox: one that the mailbox sent ...
SentCopy(o, a, s) ==
    [sent |-> TRUE, from |-> Owner, answers |-> Absent, onTime |-> FALSE, form |-> "bare",
     inReplyTo |-> [id |-> Absent, brackets |-> FALSE], references |-> <<>>, thread |-> o,
     subject |-> [prefixes |-> 0, base |-> s],
     signals |-> {}, body |-> TRUE, cues |-> {}, quoted |-> {}]

\* ... or the answer to outbound message o.  "direct" keeps all headers,
\* "chain" is an answer further down the conversation, "thread" has lost the
\* headers but not the thread, "subject" the thread as well, "bare" everything.
Reply(o, a) ==
    LET fresh == MaxSends + Len(history) + 1
        name  == [id |-> o, brackets |-> FALSE]
        other == [id |-> fresh, brackets |-> TRUE]
    IN  [sent |-> FALSE,
         from |-> IF "daemon" \in a.signals THEN Daemon ELSE outbound[o].to,
         answers |-> o, onTime |-> outbound[o].state = "sent", form |-> a.form,
         inReplyTo |-> CASE a.form = "direct" -> name
                         [] a.form = "chain"  -> other
                         [] OTHER           -> [id |-> Absent, brackets |-> FALSE],
         references |-> CASE a.form = "direct" -> <<name>>
                          [] a.form = "chain"  -> <<[id |-> Absent, brackets |-> TRUE],
                                                  other, name>>
                          [] OTHER           -> <<>>,
         thread |-> IF a.form \in {"direct", "thread"} THEN o ELSE fresh,
         subject |-> [prefixes |-> 2,
                      base |-> IF a.form \in {"chain", "bare"} THEN Empty
                               ELSE outbound[o].subject],
         signals |-> a.signals, body |-> a.body, cues |-> a.cues, quoted |-> a.quoted]

Replies == {i \in DOMAIN history : ~history[i].sent}
Sending == \E o \in DOMAIN outbound : outbound[o].state = "accepted"

Init ==
    /\ outbound = <<>> /\ history = <<>> /\ hidden = {}
    /\ expired = 0
    /\ cursor \in {NoCursor, 0}     \* seeded only, or baselined while empty
    /\ inbound = <<>> /\ suppressed = {} /\ outbox = <<>>
    /\ skipped = {} /\ overlapped = FALSE /\ polls = 0 /\ incidents = 0
    /\ poll = [p \in Pollers |-> Idle]

-----------------------------------------------------------------------------
\* The world around the poll.

\* The provider accepts a message; its row is not committed.  The mailbox's
\* lock admits one such transaction at a time.
Accept(a, s) ==
    /\ ~Sending
    /\ Len(outbound) < MaxSends /\ Len(history) < MaxMail
    /\ \A x \in suppressed : x.email # a
    /\ outbound' = Append(outbound, [to |-> a, subject |-> s, state |-> "accepted"])
    /\ history' = Append(history, SentCopy(Len(outbound) + 1, a, s))
    /\ UNCHANGED <<hidden, expired, tables, poll, overlapped, polls, incidents>>

\* That transaction commits ...
CommitSend(o) ==
    /\ outbound[o].state = "accepted"
    /\ outbound' = [outbound EXCEPT ![o].state = "sent"]
    /\ UNCHANGED <<history, hidden, expired, tables, poll, overlapped, polls, incidents>>

\* What may go wrong, and happens MaxIncidents times at most.
Incident == incidents < MaxIncidents /\ incidents' = incidents + 1

\* ... or is lost: the row is rolled back.
LoseSend(o) ==
    /\ Incident
    /\ outbound[o].state = "accepted"
    /\ outbound' = [outbound EXCEPT ![o].state = "lost"]
    /\ UNCHANGED <<history, hidden, expired, tables, poll, overlapped, polls>>

\* Someone, or some machine, answers a message that was delivered.
Answer(o, a) ==
    /\ Cardinality(Replies) < MaxReplies /\ Len(history) < MaxMail
    /\ history' = Append(history, Reply(o, a))
    /\ UNCHANGED <<outbound, hidden, expired, tables, poll, overlapped, polls, incidents>>

\* A reply is deleted, archived or found to be spam.
Hide(i) ==
    /\ Incident
    /\ hidden' = hidden \cup {i}
    /\ UNCHANGED <<outbound, history, expired, tables, poll, overlapped, polls>>

\* Gmail drops its history up to now.
Expire ==
    /\ Incident
    /\ expired < Len(history)
    /\ expired' = Len(history)
    /\ UNCHANGED <<outbound, history, hidden, tables, poll, overlapped, polls>>

-----------------------------------------------------------------------------
\* The poll.
Step(p, s) ==
    /\ poll' = [poll EXCEPT ![p] = s]
    /\ UNCHANGED <<mailVars, incidents>>

After(position) == IF position = NoCursor THEN 0 ELSE position

\* The worker's transaction begins by reading the mailbox.
Begin(p) ==
    /\ polls < MaxPolls /\ polls' = polls + 1
    /\ poll[p].at = "idle"
    /\ Step(p, [Idle EXCEPT !.at = "fetching", !.start = cursor,
                            !.upto = After(cursor)])
    /\ overlapped' = (overlapped \/ \E q \in Pollers : poll[q].at # "idle")
    /\ UNCHANGED tables

\* fetch_new without a cursor, or with one that Gmail no longer knows: the
\* new cursor is the current position, and what is before it is not fetched.
Baseline(p) ==
    /\ poll[p].at = "fetching"
    /\ poll[p].start = NoCursor \/ After(poll[p].start) < expired
    /\ Step(p, [poll[p] EXCEPT !.at = "working", !.next = Len(history), !.queue = {},
                               !.gap = (After(poll[p].start) + 1)..Len(history),
                               !.start = NoCursor, !.upto = 0])
    /\ UNCHANGED <<tables, overlapped, polls>>

\* One page of _added_message_ids; the last one's history id is the new cursor.
FetchPage(p) ==
    LET last == Min({poll[p].upto + PageSize, Len(history)})
    IN  /\ poll[p].at = "fetching"
        /\ poll[p].start # NoCursor /\ poll[p].start >= expired
        /\ Step(p, [poll[p] EXCEPT
               !.queue = @ \cup (poll[p].upto + 1)..last,
               !.upto = last, !.next = Len(history),
               !.at = IF last = Len(history) THEN "reading" ELSE "fetching"])
        /\ UNCHANGED <<tables, overlapped, polls>>

\* Mutant: mail that the mailbox sent is not told from mail it received.
AnyVisible(i) == i \notin hidden

\* What _get_message keeps: in the inbox, not sent, not from the mailbox.
Fetchable(i) ==
    i \notin hidden /\ ~history[i].sent /\ history[i].from # Owner

\* Mutant: the cursor is read after the messages.
ReadThenMoveCursor(p) ==
    /\ poll[p].at = "reading"
    /\ Step(p, [poll[p] EXCEPT !.queue = {i \in @ : Fetchable(i)}, !.candidates = Unanswered,
                               !.next = Len(history), !.at = "working",
                               !.start = NoCursor, !.upto = 0])
    /\ UNCHANGED <<tables, overlapped, polls>>

\* The messages are read one by one, and then, once, the candidates.  Nothing
\* that happens in between could not have happened before.
ReadMessages(p) ==
    /\ poll[p].at = "reading"
    /\ Step(p, [poll[p] EXCEPT !.queue = {i \in @ : Fetchable(i)}, !.candidates = Unanswered,
                               !.at = "working", !.start = NoCursor, !.upto = 0])
    /\ UNCHANGED <<tables, overlapped, polls>>

\* exists: a message another poll has stored is skipped ...
Skip(p) ==
    /\ poll[p].at = "working" /\ poll[p].queue # {}
    /\ Stored(Min(poll[p].queue))
    /\ Step(p, [poll[p] EXCEPT !.queue = @ \ {Min(@)}])
    /\ UNCHANGED <<tables, overlapped, polls>>

\* ... and one that another open poll has inserted is not seen: the poll goes
\* on to insert it and waits for the key.
Wait(p) ==
    /\ poll[p].at = "working" /\ poll[p].queue # {}
    /\ ~Stored(Min(poll[p].queue)) /\ KeyHeld(p, Min(poll[p].queue))
    /\ Step(p, [poll[p] EXCEPT !.at = "inserting"])
    /\ UNCHANGED <<tables, overlapped, polls>>

\* The intents a matched message can be given.
IntentsOf(m) ==
    IF IsBounce(m) THEN {"bounce"} ELSE Classifications(CuesRead(m), LlmAnswers)

\* InboundReceived, and for a matched message ReplyMatched and ReplyClassified.
Events(i, o, intent) ==
    LET event(type, matched, x) == [type |-> type, pos |-> i, matched |-> matched, intent |-> x]
    IN  <<event("InboundReceived", Absent, "none")>> \o
        IF o = Absent THEN <<>>
        ELSE <<event("ReplyMatched", o, "none"), event("ReplyClassified", o, intent)>>

\* Mutant: the sender of the answer is suppressed.
SuppressSender(i, o, intent) ==
    {[email |-> history[i].from, reason |-> r] : r \in SuppressionReason(intent)}

\* The recipient of the message that was answered.
Suppress(i, o, intent) ==
    {[email |-> outbound[o].to, reason |-> r] : r \in SuppressionReason(intent)}

\* The message is added with all that follows from its match.
Added(s, i, o, intent) ==
    [s EXCEPT !.queue = @ \ {i}, !.at = "working", !.candidates = @ \ {o},
              !.rows = Append(@, [pos |-> i, matched |-> o, intent |-> intent]),
              !.events = @ \o Events(i, o, intent),
              !.suppress = @ \cup (IF o = Absent THEN {} ELSE Suppress(i, o, intent))]

\* Mutant: no unique constraint on the provider's message id.
KeyAlwaysFree(p, i) == TRUE

\* The unique constraint: an insertion waits for a poll that holds the key.
KeyFree(p, i) == ~KeyHeld(p, i) /\ ~Stored(i)

\* The rest of run_once's loop body.
Insert(p) ==
    /\ poll[p].at \in {"working", "inserting"} /\ poll[p].queue # {}
    /\ KeyFree(p, Min(poll[p].queue))
    /\ LET i == Min(poll[p].queue)
           o == MatchReply(history[i], Candidates(poll[p]))
       IN  \E intent \in IF o = Absent THEN {"none"} ELSE IntentsOf(history[i]) :
              Step(p, Added(poll[p], i, o, intent))
    /\ UNCHANGED <<tables, overlapped, polls>>

\* The poll that held the key has committed: the unique constraint refuses
\* the row, and the whole poll is rolled back.
Conflict(p) ==
    /\ poll[p].at = "inserting"
    /\ Stored(Min(poll[p].queue))
    /\ Step(p, Idle)
    /\ UNCHANGED <<tables, overlapped, polls>>

\* advance_cursor, whatever the cursor is by now, and the commit.
Commit(p) ==
    /\ poll[p].at = "working" /\ poll[p].queue = {}
    /\ Step(p, Idle)
    /\ cursor' = poll[p].next
    /\ inbound' = inbound \o poll[p].rows
    /\ outbox' = outbox \o poll[p].events
    /\ suppressed' = suppressed \cup poll[p].suppress
    /\ skipped' = skipped \cup poll[p].gap
    /\ UNCHANGED <<overlapped, polls>>

\* Any exception of the poll, or its process dies.
Abort(p) ==
    /\ Incident
    /\ poll[p].at # "idle"
    /\ poll' = [poll EXCEPT ![p] = Idle]
    /\ UNCHANGED <<mailVars, tables, overlapped, polls>>

Polls(p) ==
    \/ Begin(p) \/ Baseline(p) \/ FetchPage(p) \/ ReadMessages(p) \/ Skip(p)
    \/ Wait(p) \/ Insert(p) \/ Conflict(p) \/ Commit(p)

Next ==
    \/ \E a \in Addresses, s \in Subjects : Accept(a, s)
    \/ \E o \in DOMAIN outbound :
          \/ CommitSend(o) \/ LoseSend(o)
          \/ \E a \in Answers : Answer(o, a)
    \/ \E i \in Replies : Hide(i)
    \/ Expire
    \/ \E p \in Pollers : Polls(p) \/ Abort(p)

Spec == Init /\ [][Next]_vars

-----------------------------------------------------------------------------
\* The cursor never runs ahead of what is stored: every reply up to it has
\* its row, unless it had left the inbox or the cursor was (re)baselined past
\* it.  Pollers overwrite each other's cursor, which may move it back.
NothingMissed ==
    cursor # NoCursor =>
        \A i \in Replies : i <= cursor => Stored(i) \/ i \in hidden \cup skipped

\* A Gmail message is stored once, however many polls fetched it.
OneRowPerMessage ==
    \A j, k \in DOMAIN inbound : inbound[j].pos = inbound[k].pos => j = k

\* The recipient of the message that the k-th stored message really answers.
AnswersTo(k) == outbound[history[inbound[k].pos].answers].to

\* A match never strays to another lead: what follows from it, pausing the
\* lead and suppressing the address, is done to the recipient of the message
\* that was really answered, whatever the client kept of its headers.
RightRecipient ==
    \A k \in DOMAIN inbound : inbound[k].matched # Absent =>
        /\ ~history[inbound[k].pos].sent
        /\ outbound[inbound[k].matched].to = AnswersTo(k)

\* Which replies are surely matched to the message they answer: one that came
\* after the commit of the transaction that sent it, names the message or is
\* in its thread, is the first message stored of its recipient, and answers
\* one of the newest CandidateLimit messages.
FirstReplyIsMatched ==
    \A k \in DOMAIN inbound :
        LET m == history[inbound[k].pos]
        IN  /\ m.onTime
            /\ m.form \in {"direct", "chain", "thread"}
            /\ \A j \in 1..(k - 1) : AnswersTo(j) # AnswersTo(k)
            /\ Len(outbound) - m.answers < CandidateLimit
            => inbound[k].matched = m.answers

Classified == {e \in DOMAIN outbox : outbox[e].type = "ReplyClassified"}

\* Each message has at most one ReplyClassified event, its first answer's, as
\* the campaign's reply consumer expects.  Two polls that overlap can give it
\* two, since each has read its own candidates.
SecondAnswerNeedsOverlap ==
    ~overlapped =>
        \A d, e \in Classified : outbox[d].matched = outbox[e].matched => d = e

\* Replies that concern mail to an address.
About(a) == {i \in Replies : outbound[history[i].answers].to = a}

\* An address is suppressed as bouncing only if a delivery report came for it,
\* never for an automatic answer or on the word of a model; and as
\* unsubscribed only if its owner wrote so or a model said so, not because an
\* answer quotes us, unless it has no plain text of its own.
SuppressionsAreJustified ==
    \A x \in suppressed :
        /\ x.reason = "hard_bounce" => \E i \in About(x.email) :
              history[i].signals \notin {{}, {"auto-submitted"}}
        /\ x.reason = "unsubscribe" /\ "unsubscribe" \notin LlmAnswers => \E i \in About(x.email) :
              "unsubscribe" \in history[i].cues \/ ~history[i].body

\* match_reply agrees with its reference definition on every reply and every
\* list of candidates a poll has in hand.
MatchIsBestEvidence ==
    \A p \in Pollers, i \in Replies :
        BestEvidence(history[i], Candidates(poll[p]),
                     MatchReply(history[i], Candidates(poll[p])))
=============================================================================
