------------------------- MODULE InboxPolling_proofs -------------------------
(***************************************************************************)
(* What InboxPolling promises, for all pollers, messages and answers, every *)
(* size of page and of candidate list, and all bounds.                     *)
(***************************************************************************)
EXTENDS InboxPolling, FiniteSetTheorems, SequenceTheorems, TLAPS

LEMMA MinIn ==
    ASSUME NEW S \in SUBSET Nat, S # {}
    PROVE  Min(S) \in S /\ \A x \in S : Min(S) <= x
<1> DEFINE R == OpToRel(<, Nat)
<1>1. \A x, y \in Nat : <<x, y>> \in R <=> x < y
    BY SMT DEF OpToRel
<1>2. IsWellFoundedOn(R, Nat)
    BY NatLessThanWellFounded
<1> HIDE DEF R
<1>4. \A T : T \subseteq Nat /\ T # {} => \E x \in T : \A y \in T : ~ (<<y, x>> \in R)
    BY <1>2, WFMin, Zenon
<1>5. S \subseteq Nat
    OBVIOUS
<1>6. \E x \in S : \A y \in S : ~ (<<y, x>> \in R)
    BY <1>4, <1>5
<1>7. PICK x \in S : \A y \in S : ~ (<<y, x>> \in R)
    BY <1>6
<1>8. ASSUME NEW y \in S
      PROVE  x <= y
  <2>1. x \in Nat /\ y \in Nat /\ ~(y < x)
      BY <1>1, <1>5, <1>7
  <2> QED  BY <2>1
<1>3. \E z \in S : \A y \in S : z <= y
    BY <1>8
<1> QED  BY <1>3 DEF Min

LEMMA MaxIn ==
    ASSUME NEW S \in SUBSET Nat, S # {}, NEW n \in Nat, \A x \in S : x <= n
    PROVE  Max(S) \in S /\ \A x \in S : x <= Max(S)
<1> DEFINE T == {k \in Nat : n - k \in S}
<1>1. T \in SUBSET Nat
    OBVIOUS
<1>2. T # {}
  <2>1. PICK x \in S : x <= n
    OBVIOUS
  <2>2. n - x \in Nat /\ n - (n - x) = x
    BY <2>1
  <2> QED  BY <2>1, <2>2
<1>3. Min(T) \in T /\ \A y \in T : Min(T) <= y
    BY <1>1, <1>2, MinIn
<1>4. ASSUME NEW y \in S
      PROVE  y <= n - Min(T)
  <2>1. n - y \in Nat /\ n - (n - y) = y
      OBVIOUS
  <2> QED  BY <2>1, <1>3
<1>5. \E x \in S : \A y \in S : x >= y
    BY <1>3, <1>4
<1>6. Max(S) \in S /\ \A y \in S : Max(S) >= y
    BY <1>5 DEF Max
<1> QED  BY <1>6
-----------------------------------------------------------------------------
(* Messages.                                                               *)

\* A header that names no message, the one that was answered, or one that is
\* none of ours, now or ever.
Names(id, m) == id \in {Absent, m.answers} \/ id > MaxSends

\* What is true of a message in the mailbox that the mailbox did not send.
Faithful(m) ==
    /\ m.answers \in DOMAIN outbound
    /\ m.from \in {outbound[m.answers].to, Daemon}
    /\ Names(m.inReplyTo.id, m)
    /\ \A k \in DOMAIN m.references : Names(m.references[k].id, m)
    /\ Names(m.thread, m)
    /\ m.onTime => outbound[m.answers].state = "sent"
    /\ m.form = "direct" => m.inReplyTo.id = m.answers
    /\ m.form = "chain" =>
          /\ m.inReplyTo.id > MaxSends
          /\ \E k \in DOMAIN m.references : m.references[k].id = m.answers
    /\ m.form = "thread" =>
          m.inReplyTo.id = Absent /\ m.references = <<>> /\ m.thread = m.answers

MailIsFaithful ==
    /\ Len(outbound) <= MaxSends
    /\ \A i \in Replies : Faithful(history[i])

\* A copy of a sent message and an answer are messages.
LEMMA SentCopyTyped ==
    ASSUME TypeOK, NEW a \in Addresses, NEW s \in Subjects
    PROVE  SentCopy(Len(outbound) + 1, a, s) \in Message
<1>1. Len(outbound) + 1 \in Nat
    BY DEF TypeOK
<1>2. [id |-> Absent, brackets |-> FALSE] \in Header
    BY DEF Header, Absent
<1>3. <<>> \in Seq(Header)
    OBVIOUS
<1>4. [prefixes |-> 0, base |-> s] \in [prefixes : Nat, base : Subjects \cup {Empty}]
    OBVIOUS
<1> QED  BY <1>1, <1>2, <1>3, <1>4 DEF SentCopy, Message, Forms, Absent

LEMMA ReplyTyped ==
    ASSUME TypeOK, MailIsFaithful, NEW o \in DOMAIN outbound, NEW a \in Answers
    PROVE  /\ Reply(o, a) \in Message
           /\ ~Reply(o, a).sent
           /\ Faithful(Reply(o, a))
<1> DEFINE m == Reply(o, a)
           fresh == MaxSends + Len(history) + 1
           name  == [id |-> o, brackets |-> FALSE]
           other == [id |-> fresh, brackets |-> TRUE]
           blank == [id |-> Absent, brackets |-> FALSE]
           bracket == [id |-> Absent, brackets |-> TRUE]
<1>1. /\ o \in Nat /\ o # 0 /\ fresh \in Nat /\ fresh > MaxSends
      /\ outbound[o] \in Outbound /\ MaxSends \in Nat
    BY InboxAssumption DEF TypeOK
<1>2. /\ a.form \in Forms /\ a.signals \in SUBSET Signals /\ a.body \in BOOLEAN
      /\ a.cues \in SUBSET Cues /\ a.quoted \in SUBSET Cues
    BY InboxAssumption
<1>3. name \in Header /\ other \in Header /\ blank \in Header /\ bracket \in Header
    BY <1>1 DEF Header, Absent
<1>4. /\ m.sent = FALSE /\ m.answers = o /\ m.form = a.form
      /\ m.from = IF "daemon" \in a.signals THEN Daemon ELSE outbound[o].to
      /\ m.onTime = (outbound[o].state = "sent")
      /\ m.inReplyTo = CASE a.form = "direct" -> name
                         [] a.form = "chain"  -> other
                         [] OTHER           -> blank
      /\ m.references = CASE a.form = "direct" -> <<name>>
                          [] a.form = "chain"  -> <<bracket, other, name>>
                          [] OTHER           -> <<>>
      /\ m.thread = IF a.form \in {"direct", "thread"} THEN o ELSE fresh
      /\ m.subject = [prefixes |-> 2,
                      base |-> IF a.form \in {"chain", "bare"} THEN Empty
                               ELSE outbound[o].subject]
      /\ m.signals = a.signals /\ m.body = a.body /\ m.cues = a.cues
      /\ m.quoted = a.quoted
    BY DEF Reply
<1>5. m.inReplyTo \in Header
    BY <1>3, <1>4
<1>6. m.references \in Seq(Header)
  <2>1. <<name>> \in Seq(Header) /\ <<bracket, other, name>> \in Seq(Header)
        /\ <<>> \in Seq(Header)
      BY <1>3
  <2> QED  BY <2>1, <1>4
<1>7. m.subject \in [prefixes : Nat, base : Subjects \cup {Empty}]
    BY <1>1, <1>4 DEF Outbound
<1>8. m.from \in {outbound[o].to, Daemon} /\ m.from \in Addresses \cup {Owner, Daemon}
    BY <1>1, <1>4 DEF Outbound
<1>9. m \in Message
  <2>1. m = [sent |-> m.sent, from |-> m.from, answers |-> m.answers, onTime |-> m.onTime,
             form |-> m.form, inReplyTo |-> m.inReplyTo, references |-> m.references,
             thread |-> m.thread, subject |-> m.subject, signals |-> m.signals,
             body |-> m.body, cues |-> m.cues, quoted |-> m.quoted]
      BY DEF Reply
  <2>2. m.thread \in Nat /\ m.onTime \in BOOLEAN
      BY <1>1, <1>4
  <2> HIDE DEF m
  <2> QED  BY <2>1, <2>2, <1>1, <1>2, <1>4, <1>5, <1>6, <1>7, <1>8 DEF Message
<1>10. Names(m.inReplyTo.id, m) /\ Names(m.thread, m)
    BY <1>1, <1>4 DEF Names
<1>11. /\ \A k \in DOMAIN m.references : Names(m.references[k].id, m)
       /\ m.form = "chain" => \E k \in DOMAIN m.references : m.references[k].id = m.answers
  <2>1. CASE a.form = "direct"
    <3>1. DOMAIN m.references = {1} /\ m.references[1] = name
        BY <2>1, <1>4
    <3> QED  BY <3>1, <2>1, <1>4 DEF Names
  <2>2. CASE a.form = "chain"
    <3>1. m.references = <<bracket, other, name>>
        BY <2>2, <1>4
    <3>2. /\ DOMAIN m.references = 1..3 /\ m.references[1] = bracket
          /\ m.references[2] = other /\ m.references[3] = name
        BY <3>1
    <3>3. m.references[3].id = m.answers
        BY <3>2, <1>4
    <3>4. \A k \in 1..3 : k = 1 \/ k = 2 \/ k = 3
        OBVIOUS
    <3>5. Names(bracket.id, m) /\ Names(other.id, m) /\ Names(name.id, m)
        BY <1>1, <1>4 DEF Names
    <3> HIDE DEF m, bracket, other, name
    <3> QED  BY <3>2, <3>3, <3>4, <3>5
  <2>3. CASE a.form \notin {"direct", "chain"}
    <3>1. DOMAIN m.references = {}
        BY <2>3, <1>4
    <3> QED  BY <3>1, <2>3, <1>4
  <2> QED  BY <2>1, <2>2, <2>3
<1>12. /\ m.form = "direct" => m.inReplyTo.id = m.answers
       /\ m.form = "chain" => m.inReplyTo.id > MaxSends
       /\ m.form = "thread" =>
             m.inReplyTo.id = Absent /\ m.references = <<>> /\ m.thread = m.answers
    BY <1>1, <1>4
<1> HIDE DEF m
<1>13. Faithful(m)
    BY <1>4, <1>8, <1>10, <1>11, <1>12 DEF Faithful
<1> QED  BY <1>4, <1>9, <1>13 DEF m

-----------------------------------------------------------------------------
(* Matching.                                                               *)

Referred(m, ids) == \E k \in DOMAIN m.references : m.references[k].id \in ids

Similar(m, o) ==
    /\ m.from = outbound[o].to
    /\ m.subject.base # Empty /\ m.subject.base = outbound[o].subject

\* What match_reply finds among the outbound messages ids.
Matched(m, ids, o) ==
    IF m.inReplyTo.id \in ids THEN o = m.inReplyTo.id
    ELSE IF Referred(m, ids)
         THEN o \in ids /\ \E k \in DOMAIN m.references : m.references[k].id = o
    ELSE IF m.thread \in ids THEN o = m.thread
    ELSE IF \E c \in ids : Similar(m, c) THEN o \in ids /\ Similar(m, o)
    ELSE o = Absent

\* The groups of candidates that match_reply looks at.
LEMMA Groups ==
    ASSUME NEW m, NEW s, s.candidates \subseteq Nat \ {0}
    PROVE  /\ \A id : WithMessageId(id, Candidates(s)) = s.candidates \cap {id}
           /\ \A t : InThread(t, Candidates(s)) = s.candidates \cap {t}
           /\ SameSubject(m, Candidates(s)) = {o \in s.candidates : Similar(m, o)}
<1> DEFINE C == Candidates(s)
<1>1. \A o \in s.candidates :
         /\ Candidate(o).id = o /\ Candidate(o).messageId.id = o /\ Candidate(o).thread = o
         /\ Candidate(o).to = outbound[o].to /\ Candidate(o).subject.base = outbound[o].subject
         /\ o # 0
    BY DEF Candidate
<1>2. \A c : c \in C <=> \E o \in s.candidates : c = Candidate(o)
    BY DEF Candidates
<1> HIDE DEF C
<1>3. ASSUME NEW id
      PROVE  WithMessageId(id, C) = s.candidates \cap {id}
    BY <1>1, <1>2 DEF WithMessageId, MessageId, Ids, Absent
<1>4. ASSUME NEW t
      PROVE  InThread(t, C) = s.candidates \cap {t}
    BY <1>1, <1>2 DEF InThread, Ids, Absent
<1>5. SameSubject(m, C) = {o \in s.candidates : Similar(m, o)}
    BY <1>1, <1>2 DEF SameSubject, NormalSubject, Similar, Ids
<1> QED  BY <1>3, <1>4, <1>5 DEF C

\* match_reply returns the candidate that the first kind of evidence points
\* to, and nothing if there is none.
LEMMA MatchFinds ==
    ASSUME NEW m \in Message, NEW s, s.candidates \subseteq Nat \ {0},
           NEW n \in Nat, \A o \in s.candidates : o <= n
    PROVE  Matched(m, s.candidates, MatchReply(m, Candidates(s)))
<1> DEFINE C == Candidates(s)
           named(k) == WithMessageId(MessageId(m.references[k]), C)
           referred == {k \in ReferenceIds(m.references) : named(k) # {}}
           similar == {o \in s.candidates : Similar(m, o)}
           o == MatchReply(m, C)
<1>1. /\ m.inReplyTo.id \in Nat /\ m.thread \in Nat
      /\ m.references \in Seq(Header)
    BY DEF Message, Header
<1>2. DOMAIN m.references \subseteq Nat /\ \A k \in DOMAIN m.references : m.references[k].id \in Nat
  <2>1. DOMAIN m.references = 1..Len(m.references) /\ Len(m.references) \in Nat
      BY <1>1
  <2>2. \A k \in DOMAIN m.references : m.references[k] \in Header
      BY <1>1, <2>1
  <2> QED  BY <2>1, <2>2 DEF Header
<1>3. /\ WithMessageId(MessageId(m.inReplyTo), C) = s.candidates \cap {m.inReplyTo.id}
      /\ \A k : named(k) = s.candidates \cap {m.references[k].id}
      /\ InThread(m.thread, C) = s.candidates \cap {m.thread}
      /\ SameSubject(m, C) = similar
    BY Groups DEF MessageId
<1>4. /\ referred \in SUBSET Nat
      /\ \A k \in referred : k \in DOMAIN m.references /\ m.references[k].id \in s.candidates
      /\ Referred(m, s.candidates) => referred # {}
  <2>1. ASSUME NEW k \in DOMAIN m.references, m.references[k].id \in s.candidates
        PROVE  k \in referred
    <3>1. named(k) # {}
        BY <2>1, <1>3
    <3>2. k \in ReferenceIds(m.references)
        BY <2>1 DEF ReferenceIds, MessageId, Absent
    <3> QED  BY <3>1, <3>2
  <2>2. ASSUME NEW k \in referred
        PROVE  k \in DOMAIN m.references /\ m.references[k].id \in s.candidates
    <3>1. k \in DOMAIN m.references /\ named(k) # {}
        BY DEF ReferenceIds
    <3> QED  BY <3>1, <1>3
  <2> HIDE DEF referred
  <2> QED  BY <2>1, <2>2, <1>2 DEF Referred
<1>5. \A x \in s.candidates : Min(s.candidates \cap {x}) = x
  <2>1. ASSUME NEW x \in s.candidates
        PROVE  Min(s.candidates \cap {x}) = x
    <3>1. s.candidates \cap {x} \in SUBSET Nat /\ s.candidates \cap {x} # {}
        OBVIOUS
    <3> QED  BY <3>1, MinIn
  <2> QED  BY <2>1
<1>6. similar # {} => Max(similar) \in similar
  <2>1. similar \in SUBSET Nat /\ \A x \in similar : x <= n
      OBVIOUS
  <2> HIDE DEF similar
  <2> QED  BY <2>1, MaxIn
<1>7. o = IF s.candidates \cap {m.inReplyTo.id} # {} THEN Min(s.candidates \cap {m.inReplyTo.id})
          ELSE IF referred # {} THEN Min(named(Min(referred)))
          ELSE IF s.candidates \cap {m.thread} # {} THEN Min(s.candidates \cap {m.thread})
          ELSE IF similar # {} THEN Max(similar)
          ELSE Absent
    BY <1>3 DEF MatchReply
<1>8. CASE m.inReplyTo.id \in s.candidates
    BY <1>5, <1>7, <1>8 DEF Matched
<1>9. CASE m.inReplyTo.id \notin s.candidates /\ Referred(m, s.candidates)
  <2> DEFINE k == Min(referred)
  <2>1. k \in referred
      BY <1>4, <1>9, MinIn
  <2>2. k \in DOMAIN m.references /\ m.references[k].id \in s.candidates
      BY <2>1, <1>4
  <2>3. o = Min(s.candidates \cap {m.references[k].id})
    <3>1. named(k) = s.candidates \cap {m.references[k].id}
        BY <1>3
    <3>2. referred # {} /\ s.candidates \cap {m.inReplyTo.id} = {}
        BY <1>4, <1>9
    <3> HIDE DEF referred, named, similar, o
    <3> QED  BY <3>1, <3>2, <1>7
  <2> HIDE DEF k, o
  <2>4. o = m.references[k].id
      BY <2>2, <2>3, <1>5
  <2> QED  BY <2>2, <2>4, <1>9 DEF Matched, o
<1>10. CASE m.inReplyTo.id \notin s.candidates /\ ~Referred(m, s.candidates)
  <2>1. referred = {}
      BY <1>4, <1>10 DEF Referred
  <2>2. s.candidates \cap {m.inReplyTo.id} = {}
      BY <1>10
  <2>3. CASE m.thread \in s.candidates
    <3>1. s.candidates \cap {m.thread} # {}
        BY <2>3
    <3> HIDE DEF referred, named, similar, o
    <3>2. o = m.thread
        BY <3>1, <2>1, <2>2, <2>3, <1>5, <1>7
    <3> QED  BY <3>2, <2>3, <1>10 DEF Matched, o
  <2>4. CASE m.thread \notin s.candidates
    <3>1. s.candidates \cap {m.thread} = {}
        BY <2>4
    <3>2. o = IF similar # {} THEN Max(similar) ELSE Absent
      <4> HIDE DEF referred, named, similar, o
      <4> QED  BY <3>1, <2>1, <2>2, <1>7
    <3>3. CASE similar # {}
      <4>1. o \in similar
          BY <3>2, <3>3, <1>6
      <4>2. o \in s.candidates /\ Similar(m, o)
          BY <4>1
      <4> QED  BY <4>2, <2>4, <1>10 DEF Matched, o
    <3>4. CASE similar = {}
      <4>1. ~ \E c \in s.candidates : Similar(m, c)
          BY <3>4
      <4>2. o = Absent
          BY <3>2, <3>4
      <4> QED  BY <4>1, <4>2, <2>4, <1>10 DEF Matched, o
    <3> QED  BY <3>3, <3>4
  <2> QED  BY <2>3, <2>4
<1> QED  BY <1>8, <1>9, <1>10

-----------------------------------------------------------------------------
(* Types, and where a poll's data come from.                               *)

\* A row is a reply's, and matched to a message to the recipient of the one
\* that was really answered.
Right(r) ==
    /\ r.pos \in Replies
    /\ r.matched # Absent =>
          /\ r.matched \in DOMAIN outbound
          /\ outbound[r.matched].to = outbound[history[r.pos].answers].to

\* What an open poll has in hand comes from the mailbox.
InRange(s) ==
    /\ s.queue \subseteq DOMAIN history /\ s.gap \subseteq DOMAIN history
    /\ s.upto <= Len(history) /\ s.next <= Len(history)
    /\ \A o \in s.candidates : o \in DOMAIN outbound /\ outbound[o].state = "sent"
    /\ \A k \in DOMAIN s.rows : Right(s.rows[k])
    /\ s.at \in {"working", "inserting"} => s.queue \subseteq Replies
    /\ s.at \in {"fetching", "reading"} =>
          s.rows = <<>> /\ s.events = <<>> /\ s.suppress = {} /\ s.gap = {}
    /\ s.at = "reading" => s.next = s.upto
    /\ s.at = "idle" => s = Idle

Base ==
    /\ TypeOK
    /\ MailIsFaithful
    /\ \A p \in Pollers : InRange(poll[p])
    /\ \A k \in DOMAIN inbound : Right(inbound[k])

\* The mailbox and its records only grow.
MailGrows ==
    /\ \A o \in DOMAIN outbound :
          /\ o \in DOMAIN outbound'
          /\ outbound'[o].to = outbound[o].to /\ outbound'[o].subject = outbound[o].subject
          /\ outbound[o].state = "sent" => outbound'[o].state = "sent"
    /\ \A i \in DOMAIN history : i \in DOMAIN history' /\ history'[i] = history[i]
    /\ Len(outbound) <= Len(outbound') /\ Len(history) <= Len(history')
    /\ hidden \subseteq hidden'

\* What happens around the polls.
World ==
    \/ \E a \in Addresses, s \in Subjects : Accept(a, s)
    \/ \E o \in DOMAIN outbound :
          \/ CommitSend(o) \/ LoseSend(o)
          \/ \E a \in Answers : Answer(o, a)
    \/ \E i \in Replies : Hide(i)
    \/ Expire

\* A message that is added leaves those before it alone.
LEMMA HistoryAppends ==
    ASSUME TypeOK, NEW m \in Message, history' = Append(history, m)
    PROVE  /\ history' \in Seq(Message)
           /\ Len(history') = Len(history) + 1 /\ Len(history) \in Nat
           /\ DOMAIN history = 1..Len(history) /\ DOMAIN history' = 1..(Len(history) + 1)
           /\ history'[Len(history) + 1] = m
           /\ \A i \in DOMAIN history : i \in DOMAIN history' /\ history'[i] = history[i]
<1>1. history \in Seq(Message)
    BY DEF TypeOK
<1> QED  BY <1>1, AppendProperties

LEMMA WorldGrows ==
    ASSUME TypeOK, MailIsFaithful, World
    PROVE  /\ MailGrows
           /\ outbound' \in Seq(Outbound) /\ history' \in Seq(Message)
           /\ hidden' \subseteq DOMAIN history' /\ expired' \in 0..Len(history')
           /\ incidents' \in 0..MaxIncidents
           /\ MailIsFaithful'
           /\ UNCHANGED <<tables, poll, overlapped, polls>>
<1> USE DEF TypeOK
<1>0. /\ Len(outbound) \in Nat /\ DOMAIN outbound = 1..Len(outbound)
      /\ Len(history) \in Nat /\ DOMAIN history = 1..Len(history)
      /\ \A o \in DOMAIN outbound : outbound[o] \in Outbound
      /\ \A i \in DOMAIN history : history[i] \in Message
      /\ MaxSends \in Nat /\ MaxIncidents \in Nat
    BY InboxAssumption
<1>1. ASSUME NEW a \in Addresses, NEW s \in Subjects, Accept(a, s)
      PROVE  /\ MailGrows
             /\ outbound' \in Seq(Outbound) /\ history' \in Seq(Message)
             /\ hidden' \subseteq DOMAIN history' /\ expired' \in 0..Len(history')
             /\ incidents' \in 0..MaxIncidents
             /\ MailIsFaithful'
             /\ UNCHANGED <<tables, poll, overlapped, polls>>
  <2> DEFINE o == [to |-> a, subject |-> s, state |-> "accepted"]
             m == SentCopy(Len(outbound) + 1, a, s)
  <2>1. /\ outbound' = Append(outbound, o) /\ history' = Append(history, m)
        /\ UNCHANGED <<hidden, expired, tables, poll, overlapped, polls, incidents>>
        /\ Len(outbound) < MaxSends
      BY <1>1 DEF Accept
  <2>2. m \in Message /\ m.sent
      BY SentCopyTyped DEF SentCopy
  <2>3. o \in Outbound
      BY DEF Outbound
  <2> HIDE DEF m, o
  <2>4. /\ outbound' \in Seq(Outbound) /\ Len(outbound') = Len(outbound) + 1
        /\ DOMAIN outbound' = 1..(Len(outbound) + 1)
        /\ \A x \in DOMAIN outbound : x \in DOMAIN outbound' /\ outbound'[x] = outbound[x]
      BY <2>1, <2>3, <1>0, AppendProperties
  <2>5. /\ history' \in Seq(Message) /\ Len(history') = Len(history) + 1
        /\ DOMAIN history' = 1..(Len(history) + 1)
        /\ history'[Len(history) + 1] = m
        /\ \A i \in DOMAIN history : i \in DOMAIN history' /\ history'[i] = history[i]
      BY <2>1, <2>2, HistoryAppends
  <2>6. MailGrows
      BY <2>1, <2>4, <2>5, <1>0 DEF MailGrows
  <2>7. hidden' \subseteq DOMAIN history' /\ expired' \in 0..Len(history')
      BY <2>1, <2>5, <1>0
  <2>8. ASSUME NEW i \in Replies'
        PROVE  Faithful(history[i])'
    <3>1. i \in DOMAIN history' /\ ~history'[i].sent
        BY <2>8 DEF Replies
    <3>2. i \in DOMAIN history
        BY <3>1, <2>2, <2>5, <1>0
    <3>3. history'[i] = history[i] /\ history[i] \in Message
        BY <3>2, <2>5, <1>0
    <3>4. i \in Replies
        BY <3>1, <3>2, <3>3 DEF Replies
    <3>5. Faithful(history[i])
        BY <3>4 DEF MailIsFaithful
    <3> QED  BY <3>3, <3>5, <2>6, <1>0 DEF Faithful, MailGrows, Names
  <2>9. MailIsFaithful'
    <3>1. Len(outbound') <= MaxSends
        BY <2>1, <2>4, <1>0
    <3> QED  BY <3>1, <2>8 DEF MailIsFaithful
  <2> QED  BY <2>1, <2>4, <2>5, <2>6, <2>7, <2>9
<1>2. ASSUME NEW o \in DOMAIN outbound, CommitSend(o) \/ LoseSend(o)
      PROVE  /\ MailGrows
             /\ outbound' \in Seq(Outbound) /\ history' \in Seq(Message)
             /\ hidden' \subseteq DOMAIN history' /\ expired' \in 0..Len(history')
             /\ incidents' \in 0..MaxIncidents
             /\ MailIsFaithful'
             /\ UNCHANGED <<tables, poll, overlapped, polls>>
  <2>1. PICK x \in {"sent", "lost"} : outbound' = [outbound EXCEPT ![o].state = x]
      BY <1>2 DEF CommitSend, LoseSend
  <2>2. /\ outbound[o].state = "accepted"
        /\ UNCHANGED <<history, hidden, expired, tables, poll, overlapped, polls>>
        /\ incidents' \in 0..MaxIncidents
      BY <1>2, <1>0 DEF CommitSend, LoseSend, Incident
  <2>3. outbound' \in Seq(Outbound) /\ Len(outbound') = Len(outbound)
        /\ DOMAIN outbound' = DOMAIN outbound
    <3>1. [outbound[o] EXCEPT !.state = x] \in Outbound
        BY <1>0 DEF Outbound
    <3>2. outbound' = [outbound EXCEPT ![o] = [outbound[o] EXCEPT !.state = x]]
        BY <2>1
    <3> QED  BY <3>1, <3>2, <1>0, ExceptSeq
  <2>4. \A y \in DOMAIN outbound :
           /\ outbound'[y].to = outbound[y].to /\ outbound'[y].subject = outbound[y].subject
           /\ outbound[y].state = "sent" => outbound'[y].state = "sent"
      BY <2>1, <2>2, <1>0 DEF Outbound
  <2>5. MailGrows
      BY <2>2, <2>3, <2>4, <1>0 DEF MailGrows
  <2>6. MailIsFaithful'
    <3>1. Replies' = Replies
        BY <2>2 DEF Replies
    <3>2. ASSUME NEW i \in Replies
          PROVE  Faithful(history[i])'
      <4>1. i \in DOMAIN history /\ history[i] \in Message /\ Faithful(history[i])
          BY <1>0 DEF MailIsFaithful, Replies
      <4> QED  BY <4>1, <2>2, <2>5, <1>0 DEF Faithful, MailGrows, Names
    <3> QED  BY <3>1, <3>2, <2>3 DEF MailIsFaithful
  <2> QED  BY <2>2, <2>3, <2>5, <2>6
<1>3. ASSUME NEW o \in DOMAIN outbound, NEW a \in Answers, Answer(o, a)
      PROVE  /\ MailGrows
             /\ outbound' \in Seq(Outbound) /\ history' \in Seq(Message)
             /\ hidden' \subseteq DOMAIN history' /\ expired' \in 0..Len(history')
             /\ incidents' \in 0..MaxIncidents
             /\ MailIsFaithful'
             /\ UNCHANGED <<tables, poll, overlapped, polls>>
  <2> DEFINE m == Reply(o, a)
  <2>1. /\ history' = Append(history, m)
        /\ UNCHANGED <<outbound, hidden, expired, tables, poll, overlapped, polls, incidents>>
      BY <1>3 DEF Answer
  <2>2. m \in Message /\ Faithful(m)
      BY ReplyTyped
  <2> HIDE DEF m
  <2>5. /\ history' \in Seq(Message) /\ Len(history') = Len(history) + 1
        /\ DOMAIN history' = 1..(Len(history) + 1)
        /\ history'[Len(history) + 1] = m
        /\ \A i \in DOMAIN history : i \in DOMAIN history' /\ history'[i] = history[i]
      BY <2>1, <2>2, HistoryAppends
  <2>6. MailGrows
      BY <2>1, <2>5, <1>0 DEF MailGrows
  <2>7. hidden' \subseteq DOMAIN history' /\ expired' \in 0..Len(history')
      BY <2>1, <2>5, <1>0
  <2>8. ASSUME NEW i \in Replies'
        PROVE  Faithful(history[i])'
    <3>1. i \in DOMAIN history' /\ ~history'[i].sent
        BY <2>8 DEF Replies
    <3>2. CASE i \in DOMAIN history
      <4>1. history'[i] = history[i] /\ history[i] \in Message
          BY <3>2, <2>5, <1>0
      <4>2. i \in Replies
          BY <3>1, <3>2, <4>1 DEF Replies
      <4>3. Faithful(history[i])
          BY <4>2 DEF MailIsFaithful
      <4> QED  BY <4>1, <4>3, <2>1 DEF Faithful, Names
    <3>3. CASE i \notin DOMAIN history
      <4>1. history'[i] = m
          BY <3>1, <3>3, <2>5, <1>0
      <4> QED  BY <4>1, <2>1, <2>2 DEF Faithful, Names
    <3> QED  BY <3>2, <3>3
  <2>9. MailIsFaithful'
      BY <2>1, <2>8 DEF MailIsFaithful
  <2> QED  BY <2>1, <2>5, <2>6, <2>7, <2>9
<1>4. ASSUME (\E i \in Replies : Hide(i)) \/ Expire
      PROVE  /\ MailGrows
             /\ outbound' \in Seq(Outbound) /\ history' \in Seq(Message)
             /\ hidden' \subseteq DOMAIN history' /\ expired' \in 0..Len(history')
             /\ incidents' \in 0..MaxIncidents
             /\ MailIsFaithful'
             /\ UNCHANGED <<tables, poll, overlapped, polls>>
  <2>1. /\ UNCHANGED <<outbound, history, tables, poll, overlapped, polls>>
        /\ incidents' \in 0..MaxIncidents
        /\ hidden \subseteq hidden' /\ hidden' \subseteq DOMAIN history
        /\ expired' \in 0..Len(history)
      BY <1>4, <1>0 DEF Hide, Expire, Incident, Replies
  <2>2. MailGrows
      BY <2>1, <1>0 DEF MailGrows
  <2>3. MailIsFaithful'
      BY <2>1 DEF MailIsFaithful, Faithful, Names, Replies
  <2> QED  BY <2>1, <2>2, <2>3
<1> QED  BY <1>1, <1>2, <1>3, <1>4, World DEF World

-----------------------------------------------------------------------------
(* What a message intends.                                                 *)

LEMMA DeterministicFinds ==
    ASSUME NEW cues \in SUBSET Cues
    PROVE  Deterministic(cues) \in cues \cup {"unclear"}
<1> DEFINE hit == {i \in DOMAIN RuleOrder : RuleOrder[i] \in cues}
<1>1. DOMAIN RuleOrder = 1..4
    BY DEF RuleOrder
<1>2. hit # {} => RuleOrder[Min(hit)] \in cues
  <2>1. hit \in SUBSET Nat
      BY <1>1
  <2>2. hit # {} => Min(hit) \in hit
      BY <2>1, MinIn
  <2> QED  BY <2>2
<1>3. Deterministic(cues) = IF hit = {} THEN "unclear" ELSE RuleOrder[Min(hit)]
    BY DEF Deterministic
<1> HIDE DEF hit
<1> QED  BY <1>2, <1>3

\* An intent is one of the intents; only a delivery report is a bounce; and
\* who is said to unsubscribe has written so, or a model has said so.
LEMMA IntentsFound ==
    ASSUME NEW m \in Message, NEW intent \in IntentsOf(m)
    PROVE  /\ intent \in Intents
           /\ intent = "bounce" => m.signals \notin {{}, {"auto-submitted"}}
           /\ intent = "unsubscribe" /\ "unsubscribe" \notin LlmAnswers
                  => "unsubscribe" \in m.cues \/ ~m.body
<1>1. m.cues \in SUBSET Cues /\ m.quoted \in SUBSET Cues /\ m.body \in BOOLEAN
    BY DEF Message
<1>2. CASE IsBounce(m)
  <2>1. intent = "bounce"
      BY <1>2 DEF IntentsOf
  <2>2. m.signals # {} /\ m.signals # {"auto-submitted"}
      BY <1>2 DEF IsBounce
  <2> QED  BY <2>1, <2>2 DEF Intents
<1>3. CASE ~IsBounce(m)
  <2> DEFINE found == Deterministic(CuesRead(m))
  <2>1. CuesRead(m) \in SUBSET Cues
      BY <1>1 DEF CuesRead
  <2>2. found \in CuesRead(m) \cup {"unclear"}
      BY <2>1, DeterministicFinds
  <2>3. m.body => CuesRead(m) = m.cues
      BY DEF CuesRead
  <2> HIDE DEF found
  <2>4. intent \in Classifications(CuesRead(m), LlmAnswers)
      BY <1>3 DEF IntentsOf
  <2>5. intent = found \/ (intent \in LlmAnswers /\ intent \in Intents \ {"bounce"})
      BY <2>4 DEF Classifications, ParseLabel, found
  <2> QED  BY <1>1, <2>1, <2>2, <2>3, <2>5 DEF Cues, Intents
<1> QED  BY <1>2, <1>3

-----------------------------------------------------------------------------
(* The steps of a poll keep its data in range.                             *)

LEMMA QueueHead ==
    ASSUME TypeOK, NEW p \in Pollers, poll[p].queue # {}
    PROVE  Min(poll[p].queue) \in poll[p].queue
<1>1. poll[p].queue \in SUBSET Nat
    BY DEF TypeOK, Poll
<1> QED  BY <1>1, MinIn

\* The replies in the mailbox and the numbers of what was sent.
LEMMA MailFacts ==
    ASSUME Base
    PROVE  /\ \A i \in Replies : history[i] \in Message /\ Faithful(history[i])
           /\ Len(outbound) \in Nat /\ DOMAIN outbound = 1..Len(outbound)
           /\ Len(outbound) <= MaxSends /\ MaxSends \in Nat
<1>1. outbound \in Seq(Outbound) /\ history \in Seq(Message) /\ MailIsFaithful
    BY DEF Base, TypeOK
<1>2. \A i \in DOMAIN history : history[i] \in Message
    BY <1>1
<1>3. \A i \in Replies : history[i] \in Message /\ Faithful(history[i])
    BY <1>1, <1>2 DEF MailIsFaithful, Replies
<1>4. Len(outbound) \in Nat /\ DOMAIN outbound = 1..Len(outbound)
    BY <1>1, LenProperties
<1> QED  BY <1>1, <1>3, <1>4, InboxAssumption DEF MailIsFaithful

\* What a poll matches is one of its candidates, and to the right recipient.
LEMMA MatchIsRight ==
    ASSUME Base, NEW p \in Pollers, NEW i \in Replies,
           NEW o, o = MatchReply(history[i], Candidates(poll[p]))
    PROVE  /\ o \in Nat
           /\ o # Absent =>
                 /\ o \in poll[p].candidates
                 /\ o \in DOMAIN outbound
                 /\ outbound[o].to = outbound[history[i].answers].to
<1> DEFINE m == history[i]
           ids == poll[p].candidates
<1>1. /\ m \in Message /\ Faithful(m)
      /\ Len(outbound) \in Nat /\ DOMAIN outbound = 1..Len(outbound)
      /\ Len(outbound) <= MaxSends /\ MaxSends \in Nat
    BY MailFacts
<1>2. ids \subseteq DOMAIN outbound
    BY DEF Base, InRange
<1>3. /\ \A k \in DOMAIN outbound : outbound[k].to \in Addresses
      /\ m.answers \in DOMAIN outbound
  <2>1. \A k \in DOMAIN outbound : outbound[k] \in Outbound
      BY <1>1 DEF Base, TypeOK
  <2> QED  BY <2>1, <1>1 DEF Outbound, Faithful
<1>4. ids \subseteq Nat \ {0} /\ \A k \in ids : k <= Len(outbound)
    BY <1>1, <1>2
<1>5. Matched(m, ids, o)
    BY <1>1, <1>4, MatchFinds
<1>6. \A id : Names(id, m) /\ id \in ids => id = m.answers
    BY <1>1, <1>4 DEF Names, Absent
<1>7. ASSUME NEW c \in ids, Similar(m, c)
      PROVE  outbound[c].to = outbound[m.answers].to
  <2>1. m.from = outbound[c].to /\ m.from \in Addresses
      BY <1>2, <1>3, <1>7 DEF Similar
  <2> QED  BY <2>1, <1>1, InboxAssumption DEF Faithful
<1>8. /\ Names(m.inReplyTo.id, m) /\ Names(m.thread, m)
      /\ \A k \in DOMAIN m.references : Names(m.references[k].id, m)
    BY <1>1 DEF Faithful
<1> HIDE DEF m, ids
<1>9. o = Absent \/ (o \in ids /\ (o = m.answers \/ Similar(m, o)))
    BY <1>5, <1>6, <1>8 DEF Matched, Referred
<1>10. o # Absent => outbound[o].to = outbound[m.answers].to
    BY <1>7, <1>9
<1> QED  BY <1>2, <1>4, <1>9, <1>10 DEF m, ids, Absent

\* A record with the fields of a poll is one.
LEMMA PollTyped ==
    ASSUME NEW s,
           s = [at |-> s.at, start |-> s.start, upto |-> s.upto, next |-> s.next,
                queue |-> s.queue, candidates |-> s.candidates, gap |-> s.gap,
                rows |-> s.rows, events |-> s.events, suppress |-> s.suppress],
           s.at \in Stages, s.start \in Nat \cup {NoCursor}, s.upto \in Nat, s.next \in Nat,
           s.queue \subseteq Nat \ {0}, s.candidates \subseteq Nat \ {0},
           s.gap \subseteq Nat, s.rows \in Seq(Row), s.events \in Seq(Event),
           s.suppress \subseteq Suppression
    PROVE  s \in Poll
BY DEF Poll

LEMMA BeginIn ==
    ASSUME Base, NEW p \in Pollers, Begin(p)
    PROVE  poll'[p] \in Poll /\ InRange(poll[p])'
<1>1. /\ poll'[p] = [Idle EXCEPT !.at = "fetching", !.start = cursor, !.upto = After(cursor)]
      /\ UNCHANGED <<outbound, history>>
    BY DEF Base, TypeOK, Begin, Step, mailVars
<1>2. After(cursor) \in Nat /\ After(cursor) <= Len(history) /\ cursor \in Nat \cup {NoCursor}
      /\ Len(history) \in Nat
    BY InboxAssumption DEF Base, TypeOK, After
<1>3. /\ poll'[p].at = "fetching" /\ poll'[p].start = cursor /\ poll'[p].upto = After(cursor)
      /\ poll'[p].next = 0 /\ poll'[p].queue = {} /\ poll'[p].candidates = {}
      /\ poll'[p].gap = {} /\ poll'[p].rows = <<>> /\ poll'[p].events = <<>>
      /\ poll'[p].suppress = {}
    BY <1>1 DEF Idle
<1>4. poll'[p] \in Poll
  <2>1. poll'[p] = [at |-> poll'[p].at, start |-> poll'[p].start, upto |-> poll'[p].upto,
                     next |-> poll'[p].next, queue |-> poll'[p].queue,
                     candidates |-> poll'[p].candidates, gap |-> poll'[p].gap,
                     rows |-> poll'[p].rows, events |-> poll'[p].events,
                     suppress |-> poll'[p].suppress]
      BY <1>1 DEF Idle
  <2>2. /\ poll'[p].at \in Stages /\ poll'[p].next \in Nat
        /\ poll'[p].queue \subseteq Nat \ {0} /\ poll'[p].candidates \subseteq Nat \ {0}
        /\ poll'[p].gap \subseteq Nat /\ poll'[p].suppress \subseteq Suppression
      BY <1>3 DEF Stages
  <2>3. poll'[p].rows \in Seq(Row) /\ poll'[p].events \in Seq(Event)
      BY <1>3
  <2>4. poll'[p].start \in Nat \cup {NoCursor} /\ poll'[p].upto \in Nat
      BY <1>2, <1>3
  <2> QED  BY <2>1, <2>2, <2>3, <2>4, PollTyped
<1>5. InRange(poll[p])'
    BY <1>1, <1>2, <1>3 DEF InRange
<1> QED  BY <1>4, <1>5

LEMMA BaselineIn ==
    ASSUME Base, NEW p \in Pollers, Baseline(p)
    PROVE  poll'[p] \in Poll /\ InRange(poll[p])'
<1> DEFINE s == poll[p]
<1>0. s \in Poll /\ InRange(s) /\ Len(history) \in Nat /\ DOMAIN history = 1..Len(history)
    BY DEF Base, TypeOK
<1>1. /\ poll'[p] = [s EXCEPT !.at = "working", !.next = Len(history), !.queue = {},
                              !.gap = (After(s.start) + 1)..Len(history),
                              !.start = NoCursor, !.upto = 0]
      /\ UNCHANGED <<outbound, history>> /\ s.at = "fetching"
    BY DEF Base, TypeOK, Baseline, Step, mailVars
<1>2. After(s.start) \in Nat
    BY <1>0 DEF Poll, After
<1>3. /\ poll'[p].at = "working" /\ poll'[p].start = NoCursor /\ poll'[p].upto = 0
      /\ poll'[p].next = Len(history) /\ poll'[p].queue = {}
      /\ poll'[p].candidates = s.candidates
      /\ poll'[p].gap = (After(s.start) + 1)..Len(history)
      /\ poll'[p].rows = s.rows /\ poll'[p].events = s.events
      /\ poll'[p].suppress = s.suppress
    BY <1>0, <1>1 DEF Poll
<1>4. poll'[p] \in Poll
  <2>1. poll'[p] = [at |-> poll'[p].at, start |-> poll'[p].start, upto |-> poll'[p].upto,
                     next |-> poll'[p].next, queue |-> poll'[p].queue,
                     candidates |-> poll'[p].candidates, gap |-> poll'[p].gap,
                     rows |-> poll'[p].rows, events |-> poll'[p].events,
                     suppress |-> poll'[p].suppress]
      BY <1>0, <1>1 DEF Poll
  <2>2. poll'[p].gap \subseteq Nat
      BY <1>0, <1>2, <1>3
  <2>3. /\ poll'[p].at \in Stages /\ poll'[p].start \in Nat \cup {NoCursor}
        /\ poll'[p].upto \in Nat /\ poll'[p].next \in Nat
        /\ poll'[p].queue \subseteq Nat \ {0}
      BY <1>0, <1>3 DEF Stages
  <2>4. /\ poll'[p].candidates \subseteq Nat \ {0} /\ poll'[p].rows \in Seq(Row)
        /\ poll'[p].events \in Seq(Event) /\ poll'[p].suppress \subseteq Suppression
      BY <1>0, <1>3 DEF Poll
  <2> QED  BY <2>1, <2>2, <2>3, <2>4, PollTyped
<1>5. s.rows = <<>>
    BY <1>0, <1>1 DEF InRange
<1> HIDE DEF s
<1>6. InRange(poll[p])'
    BY <1>0, <1>1, <1>2, <1>3, <1>5 DEF InRange
<1> QED  BY <1>4, <1>6

LEMMA FetchPageIn ==
    ASSUME Base, NEW p \in Pollers, FetchPage(p)
    PROVE  poll'[p] \in Poll /\ InRange(poll[p])'
<1> DEFINE s == poll[p]
           last == Min({s.upto + PageSize, Len(history)})
<1>0. s \in Poll /\ InRange(s) /\ Len(history) \in Nat /\ DOMAIN history = 1..Len(history)
    BY DEF Base, TypeOK
<1>1. /\ poll'[p] = [s EXCEPT
               !.queue = @ \cup (s.upto + 1)..last,
               !.upto = last, !.next = Len(history),
               !.at = IF last = Len(history) THEN "reading" ELSE "fetching"]
      /\ UNCHANGED <<outbound, history>> /\ s.at = "fetching"
    BY DEF Base, TypeOK, FetchPage, Step, mailVars
<1>2. last \in Nat /\ last <= Len(history)
  <2>1. {s.upto + PageSize, Len(history)} \in SUBSET Nat
      BY <1>0, InboxAssumption DEF Poll
  <2> QED  BY <2>1, <1>0, MinIn
<1> HIDE DEF last
<1>3. /\ poll'[p].at = IF last = Len(history) THEN "reading" ELSE "fetching"
      /\ poll'[p].start = s.start /\ poll'[p].upto = last
      /\ poll'[p].next = Len(history) /\ poll'[p].queue = s.queue \cup (s.upto + 1)..last
      /\ poll'[p].candidates = s.candidates /\ poll'[p].gap = s.gap
      /\ poll'[p].rows = s.rows /\ poll'[p].events = s.events
      /\ poll'[p].suppress = s.suppress
    BY <1>0, <1>1 DEF Poll
<1>4. poll'[p] \in Poll
  <2>1. poll'[p] = [at |-> poll'[p].at, start |-> poll'[p].start, upto |-> poll'[p].upto,
                     next |-> poll'[p].next, queue |-> poll'[p].queue,
                     candidates |-> poll'[p].candidates, gap |-> poll'[p].gap,
                     rows |-> poll'[p].rows, events |-> poll'[p].events,
                     suppress |-> poll'[p].suppress]
      BY <1>0, <1>1 DEF Poll
  <2>2. (s.upto + 1)..last \subseteq Nat \ {0}
      BY <1>0, <1>2 DEF Poll
  <2>3. poll'[p].queue \subseteq Nat \ {0}
      BY <2>2, <1>0, <1>3 DEF Poll
  <2> QED  BY <2>1, <2>3, <1>0, <1>2, <1>3, PollTyped DEF Stages, Poll
<1>5. s.rows = <<>> /\ s.upto \in Nat
    BY <1>0, <1>1 DEF InRange, Poll
<1>6. (s.upto + 1)..last \subseteq DOMAIN history
    BY <1>0, <1>2, <1>5
<1> HIDE DEF s
<1>7. InRange(poll[p])'
    BY <1>0, <1>1, <1>2, <1>3, <1>5, <1>6 DEF InRange
<1> QED  BY <1>4, <1>7

LEMMA ReadMessagesIn ==
    ASSUME Base, NEW p \in Pollers, ReadMessages(p)
    PROVE  poll'[p] \in Poll /\ InRange(poll[p])'
<1> DEFINE s == poll[p]
<1>0. s \in Poll /\ InRange(s) /\ Len(history) \in Nat /\ DOMAIN history = 1..Len(history)
      /\ DOMAIN outbound \subseteq Nat \ {0}
    BY DEF Base, TypeOK
<1>1. /\ poll'[p] = [s EXCEPT !.queue = {i \in s.queue : Fetchable(i)},
                              !.candidates = Unanswered,
                              !.at = "working", !.start = NoCursor, !.upto = 0]
      /\ UNCHANGED <<outbound, history>> /\ s.at = "reading"
    BY DEF Base, TypeOK, ReadMessages, Step, mailVars
<1>2. \A o \in Unanswered : o \in DOMAIN outbound /\ outbound[o].state = "sent"
    BY DEF Unanswered, Newest
<1>3. /\ poll'[p].at = "working" /\ poll'[p].start = NoCursor /\ poll'[p].upto = 0
      /\ poll'[p].next = s.next /\ poll'[p].queue = {i \in s.queue : Fetchable(i)}
      /\ poll'[p].candidates = Unanswered /\ poll'[p].gap = s.gap
      /\ poll'[p].rows = s.rows /\ poll'[p].events = s.events
      /\ poll'[p].suppress = s.suppress
    BY <1>0, <1>1 DEF Poll
<1>4. poll'[p] \in Poll
  <2>1. Unanswered \in SUBSET (Nat \ {0})
      BY <1>0, <1>2
  <2>2. {i \in s.queue : Fetchable(i)} \in SUBSET (Nat \ {0})
      BY <1>0 DEF Poll
  <2>3. poll'[p] = [at |-> poll'[p].at, start |-> poll'[p].start, upto |-> poll'[p].upto,
                     next |-> poll'[p].next, queue |-> poll'[p].queue,
                     candidates |-> poll'[p].candidates, gap |-> poll'[p].gap,
                     rows |-> poll'[p].rows, events |-> poll'[p].events,
                     suppress |-> poll'[p].suppress]
      BY <1>0, <1>1 DEF Poll
  <2> QED  BY <2>1, <2>2, <2>3, <1>0, <1>3, PollTyped DEF Stages, Poll
<1>5. s.rows = <<>>
    BY <1>0, <1>1 DEF InRange
<1>6. {i \in s.queue : Fetchable(i)} \subseteq Replies
    BY <1>0 DEF Fetchable, InRange, Replies
<1>7. Replies' = Replies
    BY <1>1 DEF Replies
<1> HIDE DEF s
<1>8. InRange(poll[p])'
    BY <1>0, <1>1, <1>2, <1>3, <1>5, <1>6, <1>7 DEF InRange
<1> QED  BY <1>4, <1>8

\* Skipping a message and waiting for its key keep what the poll has.
LEMMA SkipOrWaitIn ==
    ASSUME Base, NEW p \in Pollers, Skip(p) \/ Wait(p)
    PROVE  poll'[p] \in Poll /\ InRange(poll[p])'
<1> DEFINE s == poll[p]
<1>0. s \in Poll /\ InRange(s) /\ Replies \subseteq DOMAIN history
    BY DEF Base, TypeOK, Replies
<1>1. PICK at \in {"working", "inserting"}, queue \in SUBSET s.queue :
         /\ poll'[p] = [s EXCEPT !.queue = queue, !.at = at]
         /\ UNCHANGED <<outbound, history>> /\ s.at = "working"
  <2>1. CASE Skip(p)
    <3>1. /\ poll'[p] = [s EXCEPT !.queue = s.queue \ {Min(s.queue)}]
          /\ UNCHANGED <<outbound, history>> /\ s.at = "working"
        BY <2>1 DEF Base, TypeOK, Skip, Step, mailVars
    <3>2. poll'[p] = [s EXCEPT !.queue = s.queue \ {Min(s.queue)}, !.at = "working"]
        BY <3>1, <1>0 DEF Poll
    <3>3. s.queue \ {Min(s.queue)} \in SUBSET s.queue
        OBVIOUS
    <3> HIDE DEF s
    <3> QED  BY <3>1, <3>2, <3>3
  <2>2. CASE Wait(p)
    <3>1. /\ poll'[p] = [s EXCEPT !.at = "inserting"]
          /\ UNCHANGED <<outbound, history>> /\ s.at = "working"
        BY <2>2 DEF Base, TypeOK, Wait, Step, mailVars
    <3>2. poll'[p] = [s EXCEPT !.queue = s.queue, !.at = "inserting"]
        BY <3>1, <1>0 DEF Poll
    <3> QED  BY <3>1, <3>2
  <2> QED  BY <2>1, <2>2
<1>2. poll'[p] \in Poll
    BY <1>0, <1>1 DEF Poll, Stages
<1>3. /\ poll'[p].at = at /\ poll'[p].start = s.start /\ poll'[p].upto = s.upto
      /\ poll'[p].next = s.next /\ poll'[p].queue = queue
      /\ poll'[p].candidates = s.candidates /\ poll'[p].gap = s.gap
      /\ poll'[p].rows = s.rows /\ poll'[p].events = s.events
      /\ poll'[p].suppress = s.suppress
    BY <1>0, <1>1 DEF Poll
<1>4. Replies' = Replies
    BY <1>1 DEF Replies
<1>5. ASSUME NEW k \in DOMAIN poll'[p].rows
      PROVE  Right(poll[p].rows[k])'
  <2>1. poll'[p].rows[k] = s.rows[k] /\ Right(s.rows[k])
      BY <1>0, <1>3 DEF InRange
  <2> QED  BY <2>1, <1>1, <1>4 DEF Right
<1>6. queue \subseteq DOMAIN history /\ queue \subseteq Replies
    BY <1>0, <1>1 DEF InRange
<1> HIDE DEF s
<1>7. InRange(poll[p])'
    BY <1>0, <1>1, <1>3, <1>4, <1>5, <1>6 DEF InRange
<1> QED  BY <1>2, <1>7

\* Conflict, Commit and Abort end the poll.
LEMMA IdleIn ==
    ASSUME Base, NEW p \in Pollers, Conflict(p) \/ Commit(p) \/ Abort(p)
    PROVE  poll'[p] = Idle /\ poll'[p] \in Poll /\ InRange(poll[p])'
<1>1. poll'[p] = Idle
    BY DEF Base, TypeOK, Conflict, Commit, Abort, Step
<1>2. Idle \in Poll
    BY DEF Idle, Poll, Stages
<1>3. /\ Idle.queue = {} /\ Idle.gap = {} /\ Idle.upto = 0 /\ Idle.next = 0
      /\ Idle.candidates = {} /\ Idle.rows = <<>> /\ Idle.at = "idle"
    BY DEF Idle
<1>4. UNCHANGED <<outbound, history>> /\ Len(history) \in Nat
    BY DEF Base, TypeOK, Conflict, Commit, Abort, Step, mailVars
<1>5. InRange(poll[p])'
    BY <1>1, <1>3, <1>4 DEF InRange
<1> QED  BY <1>1, <1>2, <1>5

\* What Added puts into the poll has the types that a poll's data have.
LEMMA InsertIn ==
    ASSUME Base, NEW p \in Pollers, Insert(p)
    PROVE  poll'[p] \in Poll /\ InRange(poll[p])'
<1> DEFINE s == poll[p]
           i == Min(s.queue)
           o == MatchReply(history[i], Candidates(s))
<1>0. s \in Poll /\ InRange(s) /\ s.at \in {"working", "inserting"}
    BY DEF Base, TypeOK, Insert
<1>1. i \in s.queue /\ i \in Replies /\ i \in Nat \ {0} /\ history[i] \in Message
  <2>1. i \in s.queue
      BY QueueHead DEF Base, Insert
  <2>2. s.queue \subseteq Replies /\ s.queue \subseteq Nat \ {0}
      BY <1>0 DEF InRange, Poll
  <2>3. Replies \subseteq DOMAIN history /\ \A k \in DOMAIN history : history[k] \in Message
      BY DEF Base, TypeOK, Replies
  <2> QED  BY <2>1, <2>2, <2>3
<1>2. PICK intent \in IF o = Absent THEN {"none"} ELSE IntentsOf(history[i]) :
         Step(p, Added(s, i, o, intent))
    BY DEF Insert
<1>3. /\ o \in Nat
      /\ o # Absent =>
            /\ o \in DOMAIN outbound
            /\ outbound[o].to = outbound[history[i].answers].to
    BY <1>1, MatchIsRight
<1>4. intent \in Intents \cup {"none"}
    BY <1>1, <1>2, IntentsFound
<1> HIDE DEF o, i
<1> DEFINE row == [pos |-> i, matched |-> o, intent |-> intent]
           suppress == IF o = Absent THEN {} ELSE Suppress(i, o, intent)
<1>5. row \in Row /\ Right(row)
    BY <1>1, <1>3, <1>4 DEF Row, Right
<1>6. Events(i, o, intent) \in Seq(Event)
  <2>1. /\ [type |-> "InboundReceived", pos |-> i, matched |-> Absent, intent |-> "none"] \in Event
        /\ [type |-> "ReplyMatched", pos |-> i, matched |-> o, intent |-> "none"] \in Event
        /\ [type |-> "ReplyClassified", pos |-> i, matched |-> o, intent |-> intent] \in Event
      BY <1>1, <1>3, <1>4 DEF Event, Absent
  <2> QED  BY <2>1 DEF Events
<1>7. suppress \subseteq Suppression
  <2>1. CASE o = Absent
      BY <2>1
  <2>2. CASE o # Absent
    <3>1. outbound[o] \in Outbound
        BY <1>3, <2>2 DEF Base, TypeOK
    <3>2. SuppressionReason(intent) \subseteq Reasons
        BY DEF SuppressionReason, Reasons
    <3> QED  BY <3>1, <3>2, <2>2 DEF Suppress, Suppression, Outbound
  <2> QED  BY <2>1, <2>2
<1>8. /\ poll'[p] = [s EXCEPT
             !.queue = s.queue \ {i}, !.at = "working", !.candidates = s.candidates \ {o},
             !.rows = Append(s.rows, row), !.events = s.events \o Events(i, o, intent),
             !.suppress = s.suppress \cup suppress]
      /\ UNCHANGED <<outbound, history>>
    BY <1>2 DEF Base, TypeOK, Step, Added, mailVars
<1> HIDE DEF row, suppress
<1>9. /\ poll'[p].at = "working" /\ poll'[p].start = s.start /\ poll'[p].upto = s.upto
      /\ poll'[p].next = s.next /\ poll'[p].queue = s.queue \ {i}
      /\ poll'[p].candidates = s.candidates \ {o} /\ poll'[p].gap = s.gap
      /\ poll'[p].rows = Append(s.rows, row)
      /\ poll'[p].events = s.events \o Events(i, o, intent)
      /\ poll'[p].suppress = s.suppress \cup suppress
    BY <1>0, <1>8 DEF Poll
<1>10. poll'[p] \in Poll
  <2>1. poll'[p] = [at |-> poll'[p].at, start |-> poll'[p].start, upto |-> poll'[p].upto,
                     next |-> poll'[p].next, queue |-> poll'[p].queue,
                     candidates |-> poll'[p].candidates, gap |-> poll'[p].gap,
                     rows |-> poll'[p].rows, events |-> poll'[p].events,
                     suppress |-> poll'[p].suppress]
      BY <1>0, <1>8 DEF Poll
  <2>2. /\ s.start \in Nat \cup {NoCursor} /\ s.upto \in Nat /\ s.next \in Nat
        /\ s.queue \subseteq Nat \ {0} /\ s.candidates \subseteq Nat \ {0}
        /\ s.gap \subseteq Nat /\ s.rows \in Seq(Row) /\ s.events \in Seq(Event)
        /\ s.suppress \subseteq Suppression
      BY <1>0 DEF Poll
  <2>3. Append(s.rows, row) \in Seq(Row)
      BY <2>2, <1>5
  <2>4. s.events \o Events(i, o, intent) \in Seq(Event)
      BY <2>2, <1>6
  <2>5. /\ poll'[p].at \in Stages /\ poll'[p].queue \subseteq Nat \ {0}
        /\ poll'[p].candidates \subseteq Nat \ {0}
        /\ poll'[p].suppress \subseteq Suppression
      BY <2>2, <1>7, <1>9 DEF Stages
  <2> HIDE DEF s
  <2>6. /\ poll'[p].start \in Nat \cup {NoCursor} /\ poll'[p].upto \in Nat
        /\ poll'[p].next \in Nat /\ poll'[p].gap \subseteq Nat
        /\ poll'[p].rows \in Seq(Row) /\ poll'[p].events \in Seq(Event)
      BY <2>2, <2>3, <2>4, <1>9
  <2> QED  BY <2>1, <2>5, <2>6, PollTyped
<1>11. Replies' = Replies
    BY <1>8 DEF Replies
<1>12. ASSUME NEW k \in DOMAIN poll'[p].rows
       PROVE  Right(poll[p].rows[k])'
  <2>1. s.rows \in Seq(Row)
      BY <1>0 DEF Poll
  <2>2. poll'[p].rows[k] = row \/ (k \in DOMAIN s.rows /\ poll'[p].rows[k] = s.rows[k])
      BY <2>1, <1>5, <1>9, AppendProperties
  <2>3. Right(poll'[p].rows[k])
      BY <2>2, <1>0, <1>5 DEF InRange
  <2> QED  BY <2>3, <1>8, <1>11 DEF Right
<1>13. /\ s.queue \ {i} \subseteq DOMAIN history /\ s.queue \ {i} \subseteq Replies
       /\ s.gap \subseteq DOMAIN history /\ s.upto <= Len(history) /\ s.next <= Len(history)
       /\ \A c \in s.candidates : c \in DOMAIN outbound /\ outbound[c].state = "sent"
    BY <1>0 DEF InRange
<1> HIDE DEF s
<1>14. InRange(poll[p])'
    BY <1>8, <1>9, <1>11, <1>12, <1>13 DEF InRange
<1> QED  BY <1>10, <1>14

\* The rows of a poll come after those that are stored.
LEMMA CommitRows ==
    ASSUME TypeOK, NEW p \in Pollers, Commit(p)
    PROVE  LET n == Len(inbound)
               m == Len(poll[p].rows)
           IN  /\ n \in Nat /\ m \in Nat /\ inbound' \in Seq(Row)
               /\ DOMAIN inbound = 1..n /\ DOMAIN poll[p].rows = 1..m
               /\ DOMAIN inbound' = 1..(n + m)
               /\ \A k \in 1..n : inbound'[k] = inbound[k]
               /\ \A k \in (n + 1)..(n + m) : inbound'[k] = poll[p].rows[k - n]
<1>1. inbound \in Seq(Row) /\ poll[p].rows \in Seq(Row) /\ inbound' = inbound \o poll[p].rows
    BY DEF TypeOK, Poll, Commit
<1> QED  BY <1>1, ConcatProperties

LEMMA CommitTables ==
    ASSUME Base, NEW p \in Pollers, Commit(p)
    PROVE  /\ inbound' \in Seq(Row) /\ outbox' \in Seq(Event)
           /\ suppressed' \subseteq Suppression
           /\ cursor' \in (0..Len(history')) \cup {NoCursor}
           /\ skipped' \subseteq DOMAIN history'
           /\ \A k \in DOMAIN inbound' : Right(inbound[k])'
<1> DEFINE s == poll[p]
           n == Len(inbound)
           m == Len(s.rows)
<1>1. s \in Poll /\ InRange(s) /\ Len(history) \in Nat
    BY DEF Base, TypeOK
<1>2. /\ cursor' = s.next /\ outbox' = outbox \o s.events
      /\ suppressed' = suppressed \cup s.suppress /\ skipped' = skipped \cup s.gap
      /\ UNCHANGED <<outbound, history>>
    BY DEF Base, TypeOK, Commit, Step, mailVars
<1>3. outbox \in Seq(Event) /\ suppressed \subseteq Suppression /\ skipped \subseteq DOMAIN history
    BY DEF Base, TypeOK
<1>4. s.events \in Seq(Event) /\ s.suppress \subseteq Suppression /\ s.next \in Nat
    BY <1>1 DEF Poll
<1>5. outbox' \in Seq(Event)
    BY <1>2, <1>3, <1>4
<1>6. s.gap \subseteq DOMAIN history /\ s.next <= Len(history)
    BY <1>1 DEF InRange
<1>7. /\ n \in Nat /\ m \in Nat /\ inbound' \in Seq(Row)
      /\ DOMAIN inbound = 1..n /\ DOMAIN s.rows = 1..m
      /\ DOMAIN inbound' = 1..(n + m)
      /\ \A k \in 1..n : inbound'[k] = inbound[k]
      /\ \A k \in (n + 1)..(n + m) : inbound'[k] = s.rows[k - n]
    BY CommitRows DEF Base
<1>8. (\A k \in 1..n : Right(inbound[k])) /\ (\A k \in 1..m : Right(s.rows[k]))
    BY <1>1, <1>7 DEF Base, InRange
<1>9. Replies' = Replies
    BY <1>2 DEF Replies
<1> HIDE DEF s, n, m
<1>10. ASSUME NEW k \in DOMAIN inbound'
       PROVE  Right(inbound[k])'
  <2>1. Right(inbound'[k])
    <3>1. CASE k \in 1..n
        BY <3>1, <1>7, <1>8
    <3>2. CASE k \notin 1..n
      <4>1. k \in (n + 1)..(n + m) /\ k - n \in 1..m
          BY <3>2, <1>7, <1>10
      <4> QED  BY <4>1, <1>7, <1>8
    <3> QED  BY <3>1, <3>2
  <2> QED  BY <2>1, <1>2, <1>9 DEF Right
<1> QED  BY <1>1, <1>2, <1>3, <1>4, <1>5, <1>6, <1>7, <1>10

-----------------------------------------------------------------------------
(* Base is an invariant.                                                   *)

\* A step of the polls is one poller's.
PollStep(p) == Polls(p) \/ Abort(p)

LEMMA PollStepFrame ==
    ASSUME TypeOK, NEW p \in Pollers, PollStep(p)
    PROVE  /\ poll' \in [Pollers -> {poll'[q] : q \in Pollers}]
           /\ \A q \in Pollers : q # p => poll'[q] = poll[q]
           /\ UNCHANGED mailVars
           /\ Commit(p) \/ UNCHANGED tables
           /\ Begin(p) \/ UNCHANGED <<overlapped, polls>>
           /\ incidents' \in 0..MaxIncidents
<1>1. PICK s : poll' = [poll EXCEPT ![p] = s]
    BY DEF PollStep, Polls, Begin, Baseline, FetchPage, ReadMessages, Skip, Wait, Insert,
           Conflict, Commit, Abort, Step
<1>2. poll' \in [Pollers -> {poll'[q] : q \in Pollers}]
      /\ \A q \in Pollers : q # p => poll'[q] = poll[q]
    BY <1>1 DEF TypeOK
<1>3. UNCHANGED mailVars /\ incidents' \in 0..MaxIncidents
    BY InboxAssumption DEF PollStep, Polls, Begin, Baseline, FetchPage, ReadMessages, Skip,
           Wait, Insert, Conflict, Commit, Abort, Step, Incident, TypeOK
<1>4. (Commit(p) \/ UNCHANGED tables) /\ (Begin(p) \/ UNCHANGED <<overlapped, polls>>)
    BY DEF PollStep, Polls, Begin, Baseline, FetchPage, ReadMessages, Skip,
           Wait, Insert, Conflict, Commit, Abort
<1> QED  BY <1>2, <1>3, <1>4

LEMMA PollStepIn ==
    ASSUME Base, NEW p \in Pollers, PollStep(p)
    PROVE  poll'[p] \in Poll /\ InRange(poll[p])'
BY BeginIn, BaselineIn, FetchPageIn, ReadMessagesIn, SkipOrWaitIn, InsertIn, IdleIn
   DEF PollStep, Polls

LEMMA NextSteps ==
    ASSUME Next
    PROVE  World \/ \E p \in Pollers : PollStep(p)
BY DEF Next, World, PollStep

LEMMA BaseInit ==
    ASSUME Init
    PROVE  Base
<1>1. Idle \in Poll
    BY DEF Idle, Poll, Stages
<1>2. /\ Idle.queue = {} /\ Idle.gap = {} /\ Idle.upto = 0 /\ Idle.next = 0
      /\ Idle.candidates = {} /\ Idle.rows = <<>> /\ Idle.at = "idle"
    BY DEF Idle
<1>3. Len(history) = 0 /\ Len(outbound) = 0 /\ DOMAIN history = {} /\ DOMAIN inbound = {}
    BY DEF Init
<1>4. TypeOK
  <2>1. poll \in [Pollers -> Poll]
      BY <1>1 DEF Init
  <2>2. outbound \in Seq(Outbound) /\ history \in Seq(Message) /\ inbound \in Seq(Row)
        /\ outbox \in Seq(Event)
      BY DEF Init
  <2>3. cursor \in (0..Len(history)) \cup {NoCursor} /\ expired \in 0..Len(history)
      BY <1>3 DEF Init
  <2>4. polls \in 0..MaxPolls /\ incidents \in 0..MaxIncidents
      BY InboxAssumption DEF Init
  <2>5. hidden \subseteq DOMAIN history /\ skipped \subseteq DOMAIN history
        /\ suppressed \subseteq Suppression /\ overlapped \in BOOLEAN
      BY DEF Init
  <2> QED  BY <2>1, <2>2, <2>3, <2>4, <2>5 DEF TypeOK
<1>5. MailIsFaithful
    BY <1>3, InboxAssumption DEF MailIsFaithful, Replies
<1>6. \A p \in Pollers : InRange(poll[p])
  <2>1. InRange(Idle)
      BY <1>2, <1>3 DEF InRange
  <2> QED  BY <2>1 DEF Init
<1> QED  BY <1>3, <1>4, <1>5, <1>6 DEF Base

\* A poll that takes no step stays in range while the mailbox grows.
LEMMA InRangeStays ==
    ASSUME TypeOK, MailIsFaithful, MailGrows, NEW p \in Pollers,
           InRange(poll[p]), poll'[p] = poll[p]
    PROVE  InRange(poll[p])'
<1> DEFINE s == poll[p]
<1>0. s \in Poll /\ Len(history) \in Nat
    BY DEF TypeOK
<1>1. /\ s \in Poll /\ Len(history) \in Nat /\ Len(history) <= Len(history')
      /\ DOMAIN history \subseteq DOMAIN history' /\ s.rows \in Seq(Row)
    BY <1>0 DEF Poll, MailGrows
<1>2. Replies \subseteq Replies'
    BY DEF Replies, MailGrows
<1>3. ASSUME NEW k \in DOMAIN s.rows
      PROVE  Right(poll[p].rows[k])'
  <2>1. s.rows[k] \in Row /\ Right(s.rows[k])
      BY <1>1 DEF InRange
  <2>2. s.rows[k].pos \in Replies /\ s.rows[k].pos \in DOMAIN history
      BY <2>1 DEF Right, Replies
  <2>3. history[s.rows[k].pos].answers \in DOMAIN outbound
      BY <2>2 DEF MailIsFaithful, Faithful
  <2>4. \A o \in DOMAIN outbound : o \in DOMAIN outbound' /\ outbound'[o].to = outbound[o].to
      BY DEF MailGrows
  <2>5. history'[s.rows[k].pos] = history[s.rows[k].pos]
      BY <2>2 DEF MailGrows
  <2> DEFINE r == s.rows[k]
  <2>6. r.pos \in Replies' /\ poll'[p].rows[k] = r
      BY <1>2, <2>2
  <2>7. r.matched # Absent => /\ r.matched \in DOMAIN outbound
                              /\ outbound[r.matched].to = outbound[history[r.pos].answers].to
      BY <2>1 DEF Right
  <2> HIDE DEF r
  <2>8. Right(r)'
      BY <2>3, <2>4, <2>5, <2>6, <2>7 DEF Right, r
  <2> QED  BY <2>6, <2>8 DEF r
<1>4. \A o \in s.candidates : o \in DOMAIN outbound' /\ outbound'[o].state = "sent"
    BY DEF InRange, MailGrows
<1>5. Len(history') \in Int => s.upto <= Len(history') /\ s.next <= Len(history')
    BY <1>1 DEF InRange, Poll
<1> QED  BY <1>1, <1>2, <1>3, <1>4 DEF InRange, Poll

LEMMA BaseStep ==
    ASSUME Base, [Next]_vars
    PROVE  Base'
<1>1. CASE World
  <2>1. /\ MailGrows
        /\ outbound' \in Seq(Outbound) /\ history' \in Seq(Message)
        /\ hidden' \subseteq DOMAIN history' /\ expired' \in 0..Len(history')
        /\ incidents' \in 0..MaxIncidents
        /\ MailIsFaithful'
        /\ UNCHANGED <<tables, poll, overlapped, polls>>
      BY <1>1, WorldGrows DEF Base
  <2>2. /\ cursor \in 0..Len(history') \cup {NoCursor} /\ skipped \subseteq DOMAIN history'
      BY <2>1 DEF Base, TypeOK, MailGrows
  <2>3. TypeOK'
      BY <2>1, <2>2 DEF Base, TypeOK, tables
  <2>4. \A p \in Pollers : InRange(poll[p])'
      BY <2>1, InRangeStays DEF Base
  <2>5. ASSUME NEW k \in DOMAIN inbound
        PROVE  Right(inbound[k])'
    <3>1. inbound[k] \in Row /\ Right(inbound[k])
        BY DEF Base, TypeOK
    <3>2. inbound[k].pos \in Replies /\ inbound[k].pos \in DOMAIN history
        BY <3>1 DEF Right, Replies
    <3>3. history[inbound[k].pos].answers \in DOMAIN outbound
        BY <3>2 DEF Base, MailIsFaithful, Faithful
    <3>4. Replies \subseteq Replies'
        BY <2>1 DEF Replies, MailGrows
    <3> QED  BY <2>1, <3>1, <3>2, <3>3, <3>4 DEF Right, MailGrows, tables
  <2> QED  BY <2>1, <2>3, <2>4, <2>5 DEF Base, tables
<1>2. ASSUME NEW p \in Pollers, PollStep(p)
      PROVE  Base'
  <2>1. /\ poll' \in [Pollers -> {poll'[q] : q \in Pollers}]
        /\ \A q \in Pollers : q # p => poll'[q] = poll[q]
        /\ UNCHANGED mailVars
        /\ Commit(p) \/ UNCHANGED tables
        /\ Begin(p) \/ UNCHANGED <<overlapped, polls>>
        /\ incidents' \in 0..MaxIncidents
      BY <1>2, PollStepFrame DEF Base
  <2>2. poll'[p] \in Poll /\ InRange(poll[p])'
      BY <1>2, PollStepIn
  <2>3. ASSUME NEW q \in Pollers
        PROVE  poll'[q] \in Poll /\ InRange(poll[q])'
    <3>1. CASE q = p
        BY <3>1, <2>2
    <3>2. CASE q # p
      <4>1. poll'[q] = poll[q] /\ poll[q] \in Poll /\ InRange(poll[q])
            /\ UNCHANGED <<outbound, history>>
          BY <3>2, <2>1 DEF Base, TypeOK, mailVars
      <4> QED  BY <4>1 DEF InRange, Right, Replies
    <3> QED  BY <3>1, <3>2
  <2>4. poll' \in [Pollers -> Poll]
      BY <2>1, <2>3
  <2>5. /\ inbound' \in Seq(Row) /\ outbox' \in Seq(Event)
        /\ suppressed' \subseteq Suppression
        /\ cursor' \in (0..Len(history')) \cup {NoCursor}
        /\ skipped' \subseteq DOMAIN history'
        /\ \A k \in DOMAIN inbound' : Right(inbound[k])'
    <3>1. CASE Commit(p)
        BY <3>1, CommitTables
    <3>2. CASE UNCHANGED tables
        BY <3>2, <2>1 DEF Base, TypeOK, tables, mailVars, Right, Replies
    <3> QED  BY <3>1, <3>2, <2>1
  <2>6. overlapped' \in BOOLEAN /\ polls' \in 0..MaxPolls
    <3>1. CASE Begin(p)
        BY <3>1, InboxAssumption DEF Begin, Base, TypeOK
    <3>2. CASE UNCHANGED <<overlapped, polls>>
        BY <3>2 DEF Base, TypeOK
    <3> QED  BY <3>1, <3>2, <2>1
  <2>7. TypeOK'
      BY <2>1, <2>4, <2>5, <2>6 DEF Base, TypeOK, mailVars
  <2>8. MailIsFaithful'
      BY <2>1 DEF Base, MailIsFaithful, Faithful, Names, Replies, mailVars
  <2> QED  BY <2>3, <2>5, <2>7, <2>8 DEF Base
<1>3. CASE UNCHANGED vars
  <2>1. UNCHANGED <<outbound, history, inbound, poll>>
      BY <1>3 DEF vars, mailVars, tables
  <2>2. TypeOK'
      BY <1>3 DEF Base, TypeOK, vars, mailVars, tables
  <2>3. MailIsFaithful'
      BY <2>1 DEF Base, MailIsFaithful, Faithful, Names, Replies
  <2>4. ASSUME NEW p \in Pollers
        PROVE  InRange(poll[p])'
    <3>1. InRange(poll[p])
        BY DEF Base
    <3> QED  BY <2>1, <3>1 DEF InRange, Right, Replies
  <2>5. \A k \in DOMAIN inbound : Right(inbound[k])'
      BY <2>1 DEF Base, Right, Replies
  <2> QED  BY <2>1, <2>2, <2>3, <2>4, <2>5 DEF Base
<1> QED  BY <1>1, <1>2, <1>3, NextSteps

\* Every state is one that the tables, the mailbox and the polls can be in, and
\* what a poll has in hand comes from the mailbox.
THEOREM BaseHolds == Spec => []Base
<1>1. Init => Base
    BY BaseInit
<1>2. Base /\ [Next]_vars => Base'
    BY BaseStep
<1> QED  BY <1>1, <1>2, PTL DEF Spec

\* Type correctness of the poll and of the mailbox it reads.
THEOREM TypeCorrect == Spec => []TypeOK
<1>1. Base => TypeOK
    BY DEF Base
<1> QED  BY <1>1, BaseHolds, PTL

\* A match never strays to another lead, for whatever clients keep of the
\* headers of the message they answer.
THEOREM MatchesAreRight == Spec => []RightRecipient
<1>1. Base => RightRecipient
    BY DEF Base, Right, RightRecipient, AnswersTo, Replies
<1> QED  BY <1>1, BaseHolds, PTL

-----------------------------------------------------------------------------
(* Each message is stored once.                                            *)

\* What Insert does with message i, its match o and its intent.
Inserts(p, i, o, intent) ==
    /\ i \in Replies /\ KeyFree(p, i)
    /\ o = MatchReply(history[i], Candidates(poll[p]))
    /\ intent \in IF o = Absent THEN {"none"} ELSE IntentsOf(history[i])
    /\ poll'[p].at = "working" /\ poll'[p].next = poll[p].next
    /\ poll'[p].queue = poll[p].queue \ {i} /\ poll'[p].gap = poll[p].gap
    /\ poll'[p].candidates = poll[p].candidates \ {o}
    /\ poll'[p].events = poll[p].events \o Events(i, o, intent)
    /\ poll'[p].suppress = poll[p].suppress
          \cup (IF o = Absent THEN {} ELSE Suppress(i, o, intent))
    /\ Len(poll[p].rows) \in Nat /\ DOMAIN poll[p].rows = 1..Len(poll[p].rows)
    /\ DOMAIN poll'[p].rows = 1..(Len(poll[p].rows) + 1)
    /\ \A k \in DOMAIN poll[p].rows : poll'[p].rows[k] = poll[p].rows[k]
    /\ poll'[p].rows[Len(poll[p].rows) + 1] = [pos |-> i, matched |-> o, intent |-> intent]
    /\ UNCHANGED <<mailVars, tables>>

LEMMA InsertStep ==
    ASSUME Base, NEW p \in Pollers, Insert(p)
    PROVE  \E i \in poll[p].queue, o \in Nat, intent \in Intents \cup {"none"} :
              Inserts(p, i, o, intent)
<1> DEFINE s == poll[p]
           i == Min(s.queue)
           o == MatchReply(history[i], Candidates(s))
<1>0. s \in Poll /\ InRange(s) /\ s.at \in {"working", "inserting"}
    BY DEF Base, TypeOK, Insert
<1>1. i \in s.queue /\ i \in Replies /\ history[i] \in Message
  <2>1. i \in s.queue
      BY QueueHead DEF Base, Insert
  <2>2. s.queue \subseteq Replies
      BY <1>0 DEF InRange
  <2>3. Replies \subseteq DOMAIN history /\ \A k \in DOMAIN history : history[k] \in Message
      BY DEF Base, TypeOK, Replies
  <2> QED  BY <2>1, <2>2, <2>3
<1>2. PICK intent \in IF o = Absent THEN {"none"} ELSE IntentsOf(history[i]) :
         Step(p, Added(s, i, o, intent))
    BY DEF Insert
<1>3. o \in Nat
    BY <1>1, MatchIsRight
<1>4. intent \in Intents \cup {"none"}
    BY <1>1, <1>2, IntentsFound
<1>5. KeyFree(p, i) /\ UNCHANGED <<mailVars, tables>>
    BY DEF Insert, Step
<1> HIDE DEF o, i
<1> DEFINE row == [pos |-> i, matched |-> o, intent |-> intent]
           suppress == IF o = Absent THEN {} ELSE Suppress(i, o, intent)
<1>6. poll'[p] = [s EXCEPT
         !.queue = s.queue \ {i}, !.at = "working", !.candidates = s.candidates \ {o},
         !.rows = Append(s.rows, row), !.events = s.events \o Events(i, o, intent),
         !.suppress = s.suppress \cup suppress]
    BY <1>2 DEF Base, TypeOK, Step, Added
<1>7. row \in Row
    BY <1>1, <1>3, <1>4, <1>0 DEF Row, Poll
<1> HIDE DEF row, suppress
<1>8. /\ poll'[p].at = "working" /\ poll'[p].next = s.next
      /\ poll'[p].queue = s.queue \ {i} /\ poll'[p].gap = s.gap
      /\ poll'[p].candidates = s.candidates \ {o}
      /\ poll'[p].rows = Append(s.rows, row)
      /\ poll'[p].events = s.events \o Events(i, o, intent)
      /\ poll'[p].suppress = s.suppress \cup suppress
    BY <1>0, <1>6 DEF Poll
<1>9. s.rows \in Seq(Row)
    BY <1>0 DEF Poll
<1>10. /\ Len(s.rows) \in Nat /\ DOMAIN s.rows = 1..Len(s.rows)
       /\ DOMAIN poll'[p].rows = 1..(Len(s.rows) + 1)
       /\ \A k \in DOMAIN s.rows : poll'[p].rows[k] = s.rows[k]
       /\ poll'[p].rows[Len(s.rows) + 1] = row
    BY <1>7, <1>8, <1>9, AppendProperties
<1>11. Inserts(p, i, o, intent)
    BY <1>1, <1>2, <1>5, <1>8, <1>10 DEF Inserts, row, suppress, i, o
<1> QED  BY <1>1, <1>3, <1>4, <1>11

\* The other steps of a poll store nothing and add no row.
LEMMA OtherSteps ==
    ASSUME Base, NEW p \in Pollers, PollStep(p)
    PROVE  \/ Insert(p) \/ Commit(p)
           \/ /\ UNCHANGED <<cursor, inbound, suppressed, outbox, skipped>>
              /\ \/ /\ poll'[p].rows = <<>> /\ poll'[p].events = <<>>
                    /\ poll'[p].suppress = {}
                 \/ /\ poll'[p].rows = poll[p].rows /\ poll'[p].events = poll[p].events
                    /\ poll'[p].suppress = poll[p].suppress
                    /\ poll'[p].queue \subseteq poll[p].queue
                    /\ poll'[p].candidates = poll[p].candidates
<1>0. poll[p] \in Poll /\ InRange(poll[p])
    BY DEF Base, TypeOK
<1>1. CASE Begin(p)
  <2>1. poll'[p] = [Idle EXCEPT !.at = "fetching", !.start = cursor, !.upto = After(cursor)]
        /\ UNCHANGED tables
      BY <1>1 DEF Base, TypeOK, Begin, Step
  <2>2. poll'[p].rows = <<>> /\ poll'[p].events = <<>> /\ poll'[p].suppress = {}
      BY <2>1 DEF Idle
  <2> QED  BY <2>1, <2>2 DEF tables
<1>2. ASSUME Baseline(p) \/ FetchPage(p) \/ ReadMessages(p)
      PROVE  /\ poll[p].at \in {"fetching", "reading"} /\ UNCHANGED tables
             /\ poll'[p].rows = poll[p].rows /\ poll'[p].events = poll[p].events
             /\ poll'[p].suppress = poll[p].suppress
  <2>1. CASE Baseline(p)
    <3>1. /\ poll[p].at = "fetching" /\ UNCHANGED tables
          /\ poll'[p] = [poll[p] EXCEPT !.at = "working", !.next = Len(history), !.queue = {},
                                 !.gap = (After(poll[p].start) + 1)..Len(history),
                                 !.start = NoCursor, !.upto = 0]
        BY <2>1 DEF Base, TypeOK, Baseline, Step
    <3> QED  BY <3>1, <1>0 DEF Poll
  <2>2. CASE FetchPage(p)
    <3> DEFINE last == Min({poll[p].upto + PageSize, Len(history)})
    <3>1. /\ poll[p].at = "fetching" /\ UNCHANGED tables
          /\ poll'[p] = [poll[p] EXCEPT
                 !.queue = @ \cup (poll[p].upto + 1)..last,
                 !.upto = last, !.next = Len(history),
                 !.at = IF last = Len(history) THEN "reading" ELSE "fetching"]
        BY <2>2 DEF Base, TypeOK, FetchPage, Step
    <3> HIDE DEF last
    <3> QED  BY <3>1, <1>0 DEF Poll
  <2>3. CASE ReadMessages(p)
    <3>1. /\ poll[p].at = "reading" /\ UNCHANGED tables
          /\ poll'[p] = [poll[p] EXCEPT !.queue = {i \in @ : Fetchable(i)},
                                 !.candidates = Unanswered,
                                 !.at = "working", !.start = NoCursor, !.upto = 0]
        BY <2>3 DEF Base, TypeOK, ReadMessages, Step
    <3> QED  BY <3>1, <1>0 DEF Poll
  <2> QED  BY <1>2, <2>1, <2>2, <2>3
<1>3. ASSUME Baseline(p) \/ FetchPage(p) \/ ReadMessages(p)
      PROVE  /\ UNCHANGED <<cursor, inbound, suppressed, outbox, skipped>>
             /\ poll'[p].rows = <<>> /\ poll'[p].events = <<>> /\ poll'[p].suppress = {}
    BY <1>0, <1>2, <1>3 DEF tables, InRange
<1>4. CASE Skip(p) \/ Wait(p)
  <2>1. CASE Skip(p)
    <3>1. UNCHANGED tables
          /\ poll'[p] = [poll[p] EXCEPT !.queue = @ \ {Min(@)}]
        BY <2>1 DEF Base, TypeOK, Skip, Step
    <3>2. /\ poll'[p].rows = poll[p].rows /\ poll'[p].events = poll[p].events
          /\ poll'[p].suppress = poll[p].suppress /\ poll'[p].candidates = poll[p].candidates
          /\ poll'[p].queue = poll[p].queue \ {Min(poll[p].queue)}
        BY <3>1, <1>0 DEF Poll
    <3> QED  BY <3>1, <3>2 DEF tables
  <2>2. CASE Wait(p)
    <3>1. UNCHANGED tables
          /\ poll'[p] = [poll[p] EXCEPT !.at = "inserting"]
        BY <2>2 DEF Base, TypeOK, Wait, Step
    <3>2. /\ poll'[p].rows = poll[p].rows /\ poll'[p].events = poll[p].events
          /\ poll'[p].suppress = poll[p].suppress /\ poll'[p].candidates = poll[p].candidates
          /\ poll'[p].queue = poll[p].queue
        BY <3>1, <1>0 DEF Poll
    <3> QED  BY <3>1, <3>2 DEF tables
  <2> QED  BY <1>4, <2>1, <2>2
<1>5. CASE Conflict(p) \/ Abort(p)
  <2>1. poll'[p] = Idle /\ UNCHANGED tables
      BY <1>5, IdleIn DEF Conflict, Abort
  <2>2. poll'[p].rows = <<>> /\ poll'[p].events = <<>> /\ poll'[p].suppress = {}
      BY <2>1 DEF Idle
  <2> QED  BY <2>1, <2>2 DEF tables
<1> QED  BY <1>1, <1>3, <1>4, <1>5 DEF PollStep, Polls

\* A row that a poll has inserted is the only one of its message: the poll has
\* no second in its queue, no other poll has inserted it, none has stored it.
KeysOwned ==
    /\ OneRowPerMessage
    /\ \A p \in Pollers : \A j \in DOMAIN poll[p].rows :
          /\ \A k \in DOMAIN poll[p].rows : poll[p].rows[j].pos = poll[p].rows[k].pos => j = k
          /\ poll[p].rows[j].pos \notin poll[p].queue
          /\ ~Stored(poll[p].rows[j].pos)
          /\ ~KeyHeld(p, poll[p].rows[j].pos)

LEMMA KeysOwnedStep ==
    ASSUME Base, KeysOwned, [Next]_vars
    PROVE  KeysOwned'
<1>1. CASE World \/ UNCHANGED vars
  <2>1. UNCHANGED <<inbound, poll>>
      BY <1>1, WorldGrows DEF Base, tables, vars
  <2> QED  BY <2>1 DEF KeysOwned, OneRowPerMessage, Stored, KeyHeld
<1>2. ASSUME NEW p \in Pollers, PollStep(p)
      PROVE  KeysOwned'
  <2>0. \A q \in Pollers : q # p => poll'[q] = poll[q]
      BY <1>2, PollStepFrame DEF Base
  <2>1. CASE Insert(p)
    <3>1. UNCHANGED inbound
        BY <2>1 DEF Insert, tables
    <3>2. PICK i \in poll[p].queue :
             /\ KeyFree(p, i) /\ poll'[p].queue = poll[p].queue \ {i}
             /\ DOMAIN poll[p].rows \subseteq DOMAIN poll'[p].rows
             /\ \A k \in DOMAIN poll[p].rows : poll'[p].rows[k] = poll[p].rows[k]
             /\ \E n \in DOMAIN poll'[p].rows :
                   /\ DOMAIN poll'[p].rows = DOMAIN poll[p].rows \cup {n}
                   /\ poll'[p].rows[n].pos = i
      <4>1. PICK i \in poll[p].queue, o \in Nat, intent \in Intents \cup {"none"} :
               Inserts(p, i, o, intent)
          BY <2>1, InsertStep
      <4> DEFINE n == Len(poll[p].rows) + 1
      <4>2. /\ n \in DOMAIN poll'[p].rows
            /\ DOMAIN poll'[p].rows = DOMAIN poll[p].rows \cup {n}
          BY <4>1 DEF Inserts
      <4>3. poll'[p].rows[n].pos = i
          BY <4>1 DEF Inserts
      <4> HIDE DEF n
      <4> QED  BY <4>1, <4>2, <4>3 DEF Inserts
    <3>3. PICK n \in DOMAIN poll'[p].rows :
             /\ DOMAIN poll'[p].rows = DOMAIN poll[p].rows \cup {n}
             /\ poll'[p].rows[n].pos = i
        BY <3>2
    <3>4. ~Stored(i) /\ ~KeyHeld(p, i)
        BY <3>2 DEF KeyFree
    <3>5. \A k \in DOMAIN poll[p].rows :
             poll[p].rows[k].pos # i /\ poll[p].rows[k].pos \notin poll[p].queue
        BY <3>2 DEF KeysOwned
    <3>6. ASSUME NEW q \in Pollers, NEW j \in DOMAIN poll'[q].rows
          PROVE  /\ \A k \in DOMAIN poll'[q].rows :
                       poll'[q].rows[j].pos = poll'[q].rows[k].pos => j = k
                 /\ poll'[q].rows[j].pos \notin poll'[q].queue
                 /\ ~Stored(poll[q].rows[j].pos)'
                 /\ ~KeyHeld(q, poll[q].rows[j].pos)'
      <4>1. CASE q = p
        <5>1. poll'[p].rows[j].pos = i \/ (j \in DOMAIN poll[p].rows
                 /\ poll'[p].rows[j].pos = poll[p].rows[j].pos)
            BY <4>1, <3>2, <3>3
        <5>2. \A k \in DOMAIN poll'[p].rows : poll'[p].rows[j].pos = poll'[p].rows[k].pos => j = k
            BY <4>1, <3>2, <3>3, <3>5 DEF KeysOwned
        <5>3. poll'[p].rows[j].pos \notin poll'[p].queue
            BY <5>1, <3>2, <3>5
        <5>4. ~Stored(poll'[p].rows[j].pos) /\ ~KeyHeld(p, poll'[p].rows[j].pos)
            BY <5>1, <3>4 DEF KeysOwned
        <5> QED  BY <4>1, <5>2, <5>3, <5>4, <3>1, <2>0 DEF Stored, KeyHeld
      <4>2. CASE q # p
        <5>1. poll'[q] = poll[q] /\ j \in DOMAIN poll[q].rows
            BY <4>2, <2>0
        <5>2. poll[q].rows[j].pos # i
            BY <4>2, <5>1, <3>4 DEF KeyHeld
        <5>3. ~KeyHeld(q, poll[q].rows[j].pos) /\ ~Stored(poll[q].rows[j].pos)
            BY <5>1 DEF KeysOwned
        <5>4. ~KeyHeld(q, poll[q].rows[j].pos)'
            BY <5>1, <5>2, <5>3, <3>2, <3>3, <2>0 DEF KeyHeld
        <5> QED  BY <5>1, <5>3, <5>4, <3>1 DEF KeysOwned, Stored
      <4> QED  BY <4>1, <4>2
    <3> QED  BY <3>1, <3>6 DEF KeysOwned, OneRowPerMessage
  <2>2. CASE Commit(p)
    <3> DEFINE n == Len(inbound)
               m == Len(poll[p].rows)
    <3>1. /\ n \in Nat /\ m \in Nat
          /\ DOMAIN inbound = 1..n /\ DOMAIN poll[p].rows = 1..m
          /\ DOMAIN inbound' = 1..(n + m)
          /\ \A k \in 1..n : inbound'[k] = inbound[k]
          /\ \A k \in (n + 1)..(n + m) : inbound'[k] = poll[p].rows[k - n]
        BY <2>2, CommitRows DEF Base
    <3>2. poll'[p].rows = <<>>
        BY <2>2, IdleIn DEF Idle
    <3> HIDE DEF n, m
    <3>3. \A k \in DOMAIN inbound' :
             \/ k \in 1..n /\ inbound'[k] = inbound[k]
             \/ k - n \in 1..m /\ inbound'[k] = poll[p].rows[k - n]
        BY <3>1
    <3>4. \A j \in 1..n, k \in 1..m : inbound[j].pos # poll[p].rows[k].pos
        BY <3>1 DEF KeysOwned, Stored
    <3>5. /\ \A j, k \in 1..n : inbound[j].pos = inbound[k].pos => j = k
          /\ \A j, k \in 1..m : poll[p].rows[j].pos = poll[p].rows[k].pos => j = k
        BY <3>1 DEF KeysOwned, OneRowPerMessage
    <3>6. OneRowPerMessage'
      <4> SUFFICES ASSUME NEW j \in DOMAIN inbound', NEW k \in DOMAIN inbound',
                          inbound'[j].pos = inbound'[k].pos
                   PROVE  j = k
          BY DEF OneRowPerMessage
      <4>1. j \in Int /\ k \in Int
          BY <3>1
      <4>2. CASE j \in 1..n /\ k \in 1..n
          BY <4>2, <3>1, <3>5
      <4>3. CASE j \notin 1..n /\ k \notin 1..n
        <5>1. j - n = k - n
            BY <4>3, <3>3, <3>5
        <5> QED  BY <5>1, <4>1, <3>1
      <4>4. CASE j \in 1..n /\ k \notin 1..n
        <5>1. k - n \in 1..m /\ inbound'[k] = poll[p].rows[k - n] /\ inbound'[j] = inbound[j]
            BY <4>4, <3>1, <3>3
        <5> QED  BY <5>1, <4>4, <3>4
      <4>5. CASE j \notin 1..n /\ k \in 1..n
        <5>1. j - n \in 1..m /\ inbound'[j] = poll[p].rows[j - n] /\ inbound'[k] = inbound[k]
            BY <4>5, <3>1, <3>3
        <5> QED  BY <5>1, <4>5, <3>4
      <4> QED  BY <4>2, <4>3, <4>4, <4>5
    <3>7. ASSUME NEW q \in Pollers, NEW j \in DOMAIN poll'[q].rows
          PROVE  /\ \A k \in DOMAIN poll'[q].rows :
                       poll'[q].rows[j].pos = poll'[q].rows[k].pos => j = k
                 /\ poll'[q].rows[j].pos \notin poll'[q].queue
                 /\ ~Stored(poll[q].rows[j].pos)'
                 /\ ~KeyHeld(q, poll[q].rows[j].pos)'
      <4>1. q # p
          BY <3>2
      <4>2. poll'[q] = poll[q] /\ j \in DOMAIN poll[q].rows
          BY <4>1, <2>0
      <4>3. ~KeyHeld(q, poll[q].rows[j].pos) /\ ~Stored(poll[q].rows[j].pos)
          BY <4>2 DEF KeysOwned
      <4>4. \A k \in 1..m : poll[p].rows[k].pos # poll[q].rows[j].pos
          BY <4>1, <4>3, <3>1 DEF KeyHeld
      <4>5. ~Stored(poll[q].rows[j].pos)'
          BY <4>2, <4>3, <4>4, <3>1, <3>3 DEF Stored
      <4>6. ~KeyHeld(q, poll[q].rows[j].pos)'
          BY <4>2, <4>3, <3>2, <2>0 DEF KeyHeld
      <4> QED  BY <4>2, <4>5, <4>6 DEF KeysOwned
    <3> QED  BY <3>6, <3>7 DEF KeysOwned
  <2>3. CASE /\ UNCHANGED inbound
             /\ \/ poll'[p].rows = <<>>
                \/ poll'[p].rows = poll[p].rows /\ poll'[p].queue \subseteq poll[p].queue
    <3>1. ASSUME NEW q \in Pollers, NEW j \in DOMAIN poll'[q].rows
          PROVE  /\ \A k \in DOMAIN poll'[q].rows :
                       poll'[q].rows[j].pos = poll'[q].rows[k].pos => j = k
                 /\ poll'[q].rows[j].pos \notin poll'[q].queue
                 /\ ~Stored(poll[q].rows[j].pos)'
                 /\ ~KeyHeld(q, poll[q].rows[j].pos)'
      <4>1. poll'[q].rows = poll[q].rows /\ poll'[q].queue \subseteq poll[q].queue
          BY <2>0, <2>3
      <4>2. ~KeyHeld(q, poll[q].rows[j].pos) /\ ~Stored(poll[q].rows[j].pos)
          BY <4>1 DEF KeysOwned
      <4>3. ~KeyHeld(q, poll[q].rows[j].pos)'
          BY <4>1, <4>2, <2>0, <2>3 DEF KeyHeld
      <4> QED  BY <4>1, <4>2, <4>3, <2>3 DEF KeysOwned, Stored
    <3> QED  BY <3>1, <2>3 DEF KeysOwned, OneRowPerMessage
  <2> QED  BY <2>1, <2>2, <2>3, <1>2, OtherSteps
<1> QED  BY <1>1, <1>2, NextSteps

\* A Gmail message has one row, however many polls fetch it at once.
THEOREM StoredOnce == Spec => []OneRowPerMessage
<1>1. Init => KeysOwned
    BY DEF Init, KeysOwned, OneRowPerMessage, Idle
<1>2. Base /\ KeysOwned /\ [Next]_vars => KeysOwned'
    BY KeysOwnedStep
<1>3. KeysOwned => OneRowPerMessage
    BY DEF KeysOwned
<1> QED  BY <1>1, <1>2, <1>3, BaseHolds, PTL DEF Spec

-----------------------------------------------------------------------------
(* No reply is passed over.                                                *)

\* How far a poll will have read history when it commits, as it stands.
Reached(s) == IF s.at \in {"working", "inserting"} THEN s.next ELSE s.upto

Accounted(i) == Stored(i) \/ i \in hidden \cup skipped

Carries(s, i) ==
    i \in s.queue \cup s.gap \/ \E k \in DOMAIN s.rows : s.rows[k].pos = i

\* What a poll has read, it still has in hand unless others accounted for it;
\* and it has read nothing from before its cursor.
Followed(s) ==
    /\ \A i \in Replies : i <= Reached(s) => Accounted(i) \/ Carries(s, i)
    /\ s.at = "fetching" =>
          After(s.start) <= s.upto /\ \A i \in s.queue : After(s.start) < i

NothingDropped == NothingMissed /\ \A p \in Pollers : Followed(poll[p])

LEMMA AccountedStays ==
    ASSUME Base, [Next]_vars, NEW i, Accounted(i)
    PROVE  Accounted(i)'
<1>1. CASE World \/ UNCHANGED vars
  <2>1. UNCHANGED <<inbound, skipped>> /\ hidden \subseteq hidden'
      BY <1>1, WorldGrows DEF Base, MailGrows, tables, vars, mailVars
  <2> QED  BY <2>1 DEF Accounted, Stored
<1>2. ASSUME NEW p \in Pollers, PollStep(p)
      PROVE  Accounted(i)'
  <2>1. UNCHANGED hidden
      BY <1>2, PollStepFrame DEF Base, mailVars
  <2>2. CASE Commit(p)
    <3> DEFINE n == Len(inbound)
               m == Len(poll[p].rows)
    <3>1. /\ n \in Nat /\ m \in Nat /\ DOMAIN inbound = 1..n
          /\ DOMAIN inbound' = 1..(n + m) /\ \A k \in 1..n : inbound'[k] = inbound[k]
        BY <2>2, CommitRows DEF Base
    <3>2. skipped \subseteq skipped'
        BY <2>2 DEF Commit
    <3> HIDE DEF n, m
    <3>3. Stored(i) => Stored(i)'
        BY <3>1 DEF Stored
    <3> QED  BY <3>2, <3>3, <2>1 DEF Accounted
  <2>3. CASE UNCHANGED tables
      BY <2>1, <2>3 DEF Accounted, Stored, tables
  <2> QED  BY <2>2, <2>3, <1>2, PollStepFrame DEF Base
<1> QED  BY <1>1, <1>2, NextSteps

\* A step that leaves the mailbox and the tables alone.
LEMMA SameAccounts ==
    ASSUME UNCHANGED <<mailVars, tables>>
    PROVE  Replies' = Replies /\ \A i : Accounted(i)' = Accounted(i)
BY DEF Accounted, Stored, Replies, mailVars, tables

LEMMA BeginFollows ==
    ASSUME Base, NothingMissed, NEW p \in Pollers, Begin(p)
    PROVE  Followed(poll[p])'
<1>1. /\ poll'[p] = [Idle EXCEPT !.at = "fetching", !.start = cursor, !.upto = After(cursor)]
      /\ UNCHANGED <<mailVars, tables>>
    BY DEF Base, TypeOK, Begin, Step
<1>2. /\ poll'[p].at = "fetching" /\ poll'[p].upto = After(cursor)
      /\ poll'[p].start = cursor /\ poll'[p].queue = {}
    BY <1>1 DEF Idle
<1>3. \A i \in Replies : i \in Nat \ {0}
    BY DEF Base, TypeOK, Replies
<1>4. After(cursor) \in Nat
    BY DEF Base, TypeOK, After
<1>5. ASSUME NEW i \in Replies, i <= After(cursor)
      PROVE  Accounted(i)
    BY <1>3, <1>5 DEF After, NothingMissed, Accounted
<1>6. \A i \in Replies' : i <= Reached(poll'[p]) => Accounted(i)'
    BY <1>1, <1>2, <1>5, SameAccounts DEF Reached
<1>7. After(poll'[p].start) <= poll'[p].upto
    BY <1>2, <1>4
<1> QED  BY <1>2, <1>6, <1>7 DEF Followed, Reached

LEMMA BaselineFollows ==
    ASSUME Base, NEW p \in Pollers, Followed(poll[p]), Baseline(p)
    PROVE  Followed(poll[p])'
<1> DEFINE s == poll[p]
<1>1. /\ poll'[p] = [s EXCEPT !.at = "working", !.next = Len(history), !.queue = {},
                              !.gap = (After(s.start) + 1)..Len(history),
                              !.start = NoCursor, !.upto = 0]
      /\ UNCHANGED <<mailVars, tables>> /\ s.at = "fetching" /\ s \in Poll /\ InRange(s)
    BY DEF Base, TypeOK, Baseline, Step
<1>2. /\ poll'[p].gap = (After(s.start) + 1)..Len(history)
      /\ poll'[p].at = "working" /\ poll'[p].next = Len(history)
    BY <1>1 DEF Poll
<1>3. /\ After(s.start) \in Nat /\ Len(history) \in Nat /\ s.upto \in Nat
      /\ \A i \in Replies : i \in Nat
    BY <1>1 DEF Base, TypeOK, Poll, After, Replies
<1>4. /\ s.rows = <<>> /\ s.gap = {} /\ After(s.start) <= s.upto /\ Reached(s) = s.upto
      /\ \A i \in s.queue : After(s.start) < i
    BY <1>1 DEF InRange, Followed, Reached
<1>5. ASSUME NEW i \in Replies, i <= Len(history)
      PROVE  Accounted(i) \/ i \in poll'[p].gap
  <2>1. CASE i <= After(s.start)
    <3>1. i <= s.upto /\ i \notin s.queue
        BY <2>1, <1>3, <1>4
    <3>2. ~Carries(s, i)
        BY <3>1, <1>4 DEF Carries
    <3> QED  BY <3>1, <3>2, <1>4 DEF Followed
  <2>2. CASE ~(i <= After(s.start))
      BY <2>2, <1>2, <1>3, <1>5
  <2> QED  BY <2>1, <2>2
<1> HIDE DEF s
<1>6. \A i \in Replies' : i <= Reached(poll'[p]) => Accounted(i)' \/ Carries(poll'[p], i)
    BY <1>1, <1>2, <1>5, SameAccounts DEF Reached, Carries
<1> QED  BY <1>2, <1>6 DEF Followed, Carries, Reached

LEMMA FetchPageFollows ==
    ASSUME Base, NEW p \in Pollers, Followed(poll[p]), FetchPage(p)
    PROVE  Followed(poll[p])'
<1> DEFINE s == poll[p]
           last == Min({s.upto + PageSize, Len(history)})
<1>1. /\ poll'[p] = [s EXCEPT
               !.queue = @ \cup (s.upto + 1)..last,
               !.upto = last, !.next = Len(history),
               !.at = IF last = Len(history) THEN "reading" ELSE "fetching"]
      /\ UNCHANGED <<mailVars, tables>> /\ s.at = "fetching" /\ s \in Poll /\ InRange(s)
    BY DEF Base, TypeOK, FetchPage, Step
<1>2. last \in Nat /\ s.upto <= last
  <2>1. s.upto \in Nat /\ PageSize \in Nat
      BY <1>1, InboxAssumption DEF Poll
  <2>2. s.upto <= Len(history) /\ Len(history) \in Nat
      BY <1>1 DEF Base, TypeOK, InRange
  <2>3. {s.upto + PageSize, Len(history)} \in SUBSET Nat
      BY <2>1, <2>2
  <2>4. last = s.upto + PageSize \/ last = Len(history)
      BY <2>3, MinIn
  <2> HIDE DEF s, last
  <2> QED  BY <2>1, <2>2, <2>4
<1> HIDE DEF last
<1>3. /\ poll'[p].queue = s.queue \cup (s.upto + 1)..last /\ poll'[p].upto = last
      /\ poll'[p].start = s.start /\ poll'[p].at \in {"reading", "fetching"}
    BY <1>1 DEF Poll
<1>4. /\ After(s.start) \in Nat /\ s.upto \in Nat /\ \A i \in Replies : i \in Nat
    BY <1>1 DEF Base, TypeOK, Poll, After, Replies
<1>5. /\ s.rows = <<>> /\ s.gap = {} /\ After(s.start) <= s.upto /\ Reached(s) = s.upto
      /\ \A i \in s.queue : After(s.start) < i
    BY <1>1 DEF InRange, Followed, Reached
<1>6. ASSUME NEW i \in Replies, i <= last
      PROVE  Accounted(i) \/ i \in poll'[p].queue
  <2>1. CASE i <= s.upto
      BY <2>1, <1>3, <1>5 DEF Followed, Carries
  <2>2. CASE ~(i <= s.upto)
      BY <2>2, <1>2, <1>3, <1>4, <1>6
  <2> QED  BY <2>1, <2>2
<1>7. ASSUME NEW i \in poll'[p].queue
      PROVE  After(s.start) < i
    BY <1>2, <1>3, <1>4, <1>5
<1> HIDE DEF s
<1>8. \A i \in Replies' : i <= Reached(poll'[p]) => Accounted(i)' \/ Carries(poll'[p], i)
    BY <1>1, <1>3, <1>6, SameAccounts DEF Reached, Carries
<1>9. After(poll'[p].start) <= poll'[p].upto
    BY <1>2, <1>3, <1>4, <1>5
<1> QED  BY <1>3, <1>7, <1>8, <1>9 DEF Followed, Carries, Reached

LEMMA ReadMessagesFollows ==
    ASSUME Base, NEW p \in Pollers, Followed(poll[p]), ReadMessages(p)
    PROVE  Followed(poll[p])'
<1> DEFINE s == poll[p]
<1>1. /\ poll'[p] = [s EXCEPT !.queue = {i \in s.queue : Fetchable(i)},
                              !.candidates = Unanswered,
                              !.at = "working", !.start = NoCursor, !.upto = 0]
      /\ UNCHANGED <<mailVars, tables>> /\ s.at = "reading" /\ s \in Poll /\ InRange(s)
    BY DEF Base, TypeOK, ReadMessages, Step
<1>2. /\ poll'[p].queue = {i \in s.queue : Fetchable(i)}
      /\ poll'[p].at = "working" /\ poll'[p].next = s.next
    BY <1>1 DEF Poll
<1>3. s.next = s.upto /\ s.rows = <<>> /\ s.gap = {} /\ Reached(s) = s.upto
    BY <1>1 DEF InRange, Reached
<1>4. ASSUME NEW i \in Replies, i \notin hidden
      PROVE  Fetchable(i)
  <2>1. Faithful(history[i])
      BY DEF Base, MailIsFaithful
  <2>2. history[i].answers \in DOMAIN outbound /\ \A o \in DOMAIN outbound : outbound[o] \in Outbound
      BY <2>1 DEF Base, TypeOK, Faithful
  <2>3. history[i].from \in Addresses \cup {Daemon}
      BY <2>1, <2>2 DEF Faithful, Outbound
  <2> QED  BY <2>3, <1>4, InboxAssumption DEF Fetchable, Replies
<1>5. ASSUME NEW i \in Replies, i <= s.next
      PROVE  Accounted(i) \/ i \in poll'[p].queue
  <2>1. Accounted(i) \/ i \in s.queue
      BY <1>3, <1>5 DEF Followed, Carries
  <2>2. i \in hidden => Accounted(i)
      BY DEF Accounted
  <2> QED  BY <2>1, <2>2, <1>2, <1>4
<1> HIDE DEF s
<1>6. \A i \in Replies' : i <= Reached(poll'[p]) => Accounted(i)' \/ Carries(poll'[p], i)
    BY <1>1, <1>2, <1>5, SameAccounts DEF Reached, Carries
<1> QED  BY <1>2, <1>6 DEF Followed, Carries, Reached

LEMMA SkipOrWaitFollows ==
    ASSUME Base, NEW p \in Pollers, Followed(poll[p]), Skip(p) \/ Wait(p)
    PROVE  Followed(poll[p])'
<1> DEFINE s == poll[p]
           first == Min(s.queue)
<1>1. /\ \/ poll'[p] = [s EXCEPT !.queue = s.queue \ {first}] /\ Stored(first)
         \/ poll'[p] = [s EXCEPT !.at = "inserting"]
      /\ UNCHANGED <<mailVars, tables>> /\ s.at = "working" /\ s \in Poll
    BY DEF Base, TypeOK, Skip, Wait, Step
<1> HIDE DEF first
<1>2. /\ poll'[p].at \in {"working", "inserting"} /\ poll'[p].next = s.next
      /\ poll'[p].gap = s.gap /\ poll'[p].rows = s.rows
      /\ poll'[p].queue = s.queue \/ (poll'[p].queue = s.queue \ {first} /\ Stored(first))
    BY <1>1 DEF Poll
<1>3. ASSUME NEW i \in Replies, i <= s.next
      PROVE  Accounted(i) \/ Carries(poll'[p], i)
  <2>1. Accounted(i) \/ Carries(s, i)
      BY <1>1, <1>3 DEF Followed, Reached
  <2>2. CASE i = first /\ Stored(first)
      BY <2>2 DEF Accounted
  <2>3. CASE ~(i = first /\ Stored(first))
      BY <2>1, <2>3, <1>2 DEF Carries
  <2> QED  BY <2>2, <2>3
<1> HIDE DEF s
<1>4. \A i \in Replies' : i <= Reached(poll'[p]) => Accounted(i)' \/ Carries(poll'[p], i)
    BY <1>1, <1>2, <1>3, SameAccounts DEF Reached
<1> QED  BY <1>2, <1>4 DEF Followed, Carries, Reached

LEMMA InsertFollows ==
    ASSUME Base, NEW p \in Pollers, Followed(poll[p]), Insert(p)
    PROVE  Followed(poll[p])'
<1>1. PICK i \in poll[p].queue, o \in Nat, intent \in Intents \cup {"none"} :
         Inserts(p, i, o, intent)
    BY InsertStep
<1> DEFINE s == poll[p]
           n == Len(s.rows) + 1
<1>2. /\ poll'[p].at = "working" /\ poll'[p].next = s.next /\ poll'[p].gap = s.gap
      /\ poll'[p].queue = s.queue \ {i}
      /\ DOMAIN s.rows \subseteq DOMAIN poll'[p].rows
      /\ \A k \in DOMAIN s.rows : poll'[p].rows[k] = s.rows[k]
      /\ n \in DOMAIN poll'[p].rows /\ poll'[p].rows[n].pos = i
      /\ UNCHANGED <<mailVars, tables>>
    BY <1>1 DEF Inserts
<1>3. s.at \in {"working", "inserting"}
    BY DEF Insert
<1> HIDE DEF s, n
<1>4. ASSUME NEW j \in Replies, j <= s.next
      PROVE  Accounted(j) \/ Carries(poll'[p], j)
  <2>1. Accounted(j) \/ Carries(s, j)
      BY <1>3, <1>4 DEF Followed, Reached, s
  <2> QED  BY <2>1, <1>2 DEF Carries
<1>5. \A j \in Replies' : j <= Reached(poll'[p]) => Accounted(j)' \/ Carries(poll'[p], j)
    BY <1>2, <1>4, SameAccounts DEF Reached
<1> QED  BY <1>2, <1>5 DEF Followed, Carries, Reached

LEMMA IdleFollows ==
    ASSUME Base, NEW p \in Pollers, Conflict(p) \/ Commit(p) \/ Abort(p)
    PROVE  Followed(poll[p])'
<1>1. poll'[p].at = "idle" /\ poll'[p].upto = 0
    BY IdleIn DEF Idle
<1>2. UNCHANGED history /\ \A i \in Replies : i \in Nat \ {0}
    BY DEF Base, TypeOK, Replies, Conflict, Commit, Abort, Step, mailVars
<1>3. \A i \in Replies' : ~(i <= Reached(poll'[p]))
    BY <1>1, <1>2 DEF Reached, Replies
<1> QED  BY <1>1, <1>3 DEF Followed, Reached

\* The commit moves the cursor to what the poll has read, and with it the
\* poll's rows and gap to the tables.
LEMMA CommitMissesNothing ==
    ASSUME Base, NEW p \in Pollers, Followed(poll[p]), Commit(p)
    PROVE  NothingMissed'
<1> DEFINE s == poll[p]
           n == Len(inbound)
           m == Len(s.rows)
<1>1. /\ s.at = "working" /\ s.queue = {} /\ cursor' = s.next
      /\ skipped' = skipped \cup s.gap /\ UNCHANGED mailVars
    BY DEF Commit, Step
<1>2. /\ n \in Nat /\ m \in Nat /\ DOMAIN inbound = 1..n /\ DOMAIN s.rows = 1..m
      /\ DOMAIN inbound' = 1..(n + m)
      /\ \A k \in 1..n : inbound'[k] = inbound[k]
      /\ \A k \in (n + 1)..(n + m) : inbound'[k] = s.rows[k - n]
    BY CommitRows DEF Base
<1> HIDE DEF n, m
<1>3. ASSUME NEW i \in Replies, i <= s.next
      PROVE  Stored(i)' \/ i \in hidden \cup skipped'
  <2>1. Accounted(i) \/ Carries(s, i)
      BY <1>1, <1>3 DEF Followed, Reached
  <2>2. CASE Stored(i)
      BY <2>2, <1>2 DEF Stored
  <2>3. CASE i \in hidden \cup skipped \cup s.gap
      BY <2>3, <1>1
  <2>4. ASSUME NEW k \in 1..m, s.rows[k].pos = i
        PROVE  Stored(i)'
    <3>1. k + n \in (n + 1)..(n + m) /\ (k + n) - n = k /\ k + n \in 1..(n + m)
        BY <1>2
    <3>2. inbound'[k + n].pos = i
        BY <3>1, <2>4, <1>2
    <3> QED  BY <3>1, <3>2, <1>2 DEF Stored
  <2> QED  BY <2>1, <2>2, <2>3, <2>4, <1>1, <1>2 DEF Accounted, Carries
<1>4. Replies' = Replies
    BY <1>1 DEF Replies, mailVars
<1> HIDE DEF s
<1> QED  BY <1>1, <1>3, <1>4 DEF NothingMissed, mailVars

LEMMA NothingDroppedStep ==
    ASSUME Base, NothingDropped, [Next]_vars
    PROVE  NothingDropped'
<1>1. CASE World \/ UNCHANGED vars
  <2>1. /\ UNCHANGED <<cursor, poll>> /\ Len(history) \in Nat
        /\ \A i \in Replies' : i \in Replies \/ i > Len(history)
    <3>1. CASE World
      <4>1. MailGrows /\ history' \in Seq(Message) /\ UNCHANGED <<tables, poll>>
          BY <3>1, WorldGrows DEF Base
      <4>2. history \in Seq(Message)
          BY DEF Base, TypeOK
      <4>3. ASSUME NEW i \in Replies', ~(i > Len(history))
            PROVE  i \in Replies
        <5>1. i \in DOMAIN history'
            BY <4>3 DEF Replies
        <5>2. i \in DOMAIN history
            BY <4>1, <4>2, <4>3, <5>1
        <5> QED  BY <4>1, <4>3, <5>2 DEF MailGrows, Replies
      <4>4. Len(history) \in Nat
          BY <4>2
      <4> QED  BY <4>1, <4>3, <4>4 DEF tables
    <3>2. CASE UNCHANGED vars
        BY <3>2 DEF vars, mailVars, tables, Replies, Base, TypeOK
    <3> QED  BY <3>1, <3>2, <1>1
  <2>2. \A i \in Replies : Accounted(i) => Accounted(i)'
      BY AccountedStays
  <2>3. ASSUME NEW p \in Pollers
        PROVE  Followed(poll[p])'
    <3>1. Followed(poll[p]) /\ InRange(poll[p]) /\ poll[p] \in Poll
        BY DEF NothingDropped, Base, TypeOK
    <3>2. Reached(poll[p]) \in Nat /\ Reached(poll[p]) <= Len(history)
        BY <3>1 DEF InRange, Reached, Poll
    <3>3. ASSUME NEW i \in Replies', i <= Reached(poll[p])
          PROVE  Accounted(i)' \/ Carries(poll[p], i)
      <4>1. i \in Nat
        <5>1. history' \in Seq(Message)
            BY BaseStep DEF Base, TypeOK
        <5> QED  BY <5>1, <3>3 DEF Replies
      <4>2. i \in Replies
          BY <4>1, <2>1, <3>2, <3>3
      <4> QED  BY <4>2, <2>2, <3>1, <3>3 DEF Followed
    <3> QED  BY <3>1, <3>3, <2>1 DEF Followed, Carries, Reached, After
  <2>4. NothingMissed'
    <3> SUFFICES ASSUME cursor' # NoCursor, NEW i \in Replies', i <= cursor'
                 PROVE  Stored(i)' \/ i \in hidden' \cup skipped'
        BY DEF NothingMissed
    <3>1. i \in Nat
      <4>1. history' \in Seq(Message)
          BY BaseStep DEF Base, TypeOK
      <4> QED  BY <4>1 DEF Replies
    <3>2. cursor \in 0..Len(history)
        BY <2>1 DEF Base, TypeOK
    <3>3. i \in Replies
        BY <3>1, <3>2, <2>1
    <3>4. Accounted(i)
        BY <3>3, <2>1 DEF NothingDropped, NothingMissed, Accounted
    <3> QED  BY <3>3, <3>4, <2>2 DEF Accounted
  <2> QED  BY <2>3, <2>4 DEF NothingDropped
<1>2. ASSUME NEW p \in Pollers, PollStep(p)
      PROVE  NothingDropped'
  <2>1. /\ \A q \in Pollers : q # p => poll'[q] = poll[q]
        /\ UNCHANGED mailVars /\ (Commit(p) \/ UNCHANGED tables)
      BY <1>2, PollStepFrame DEF Base
  <2>2. Replies' = Replies
      BY <2>1 DEF Replies, mailVars
  <2>3. Followed(poll[p])'
      BY <1>2, BeginFollows, BaselineFollows, FetchPageFollows, ReadMessagesFollows,
         SkipOrWaitFollows, InsertFollows, IdleFollows
         DEF NothingDropped, PollStep, Polls
  <2>4. ASSUME NEW q \in Pollers, q # p
        PROVE  Followed(poll[q])'
    <3>1. Followed(poll[q]) /\ poll'[q] = poll[q]
        BY <2>1, <2>4 DEF NothingDropped
    <3>2. \A i \in Replies : Accounted(i) => Accounted(i)'
        BY AccountedStays
    <3> QED  BY <3>1, <3>2, <2>2 DEF Followed, Carries, Reached, After
  <2>5. NothingMissed'
    <3>1. CASE Commit(p)
        BY <3>1, CommitMissesNothing DEF NothingDropped
    <3>2. CASE UNCHANGED tables
        BY <3>2, <2>1, <2>2 DEF NothingDropped, NothingMissed, Stored, tables, mailVars
    <3> QED  BY <3>1, <3>2, <2>1
  <2> QED  BY <2>3, <2>4, <2>5 DEF NothingDropped
<1> QED  BY <1>1, <1>2, NextSteps

\* The cursor never passes a reply that is not stored, however polls overlap,
\* fail and overwrite each other's cursor, and however many pages they read.
THEOREM MissesNothing == Spec => []NothingMissed
<1>1. Init => NothingDropped
  <2> SUFFICES ASSUME Init
               PROVE  NothingDropped
      OBVIOUS
  <2>1. Replies = {} /\ \A p \in Pollers : poll[p].at = "idle"
      BY DEF Init, Replies, Idle
  <2> QED  BY <2>1 DEF NothingDropped, NothingMissed, Followed
<1>2. Base /\ NothingDropped /\ [Next]_vars => NothingDropped'
    BY NothingDroppedStep
<1>3. NothingDropped => NothingMissed
    BY DEF NothingDropped
<1> QED  BY <1>1, <1>2, <1>3, BaseHolds, PTL DEF Spec


-----------------------------------------------------------------------------
(* Without overlapping polls a message has one answer.                     *)

ClassifiedIn(events) == {e \in DOMAIN events : events[e].type = "ReplyClassified"}

OneEach(events) ==
    \A d, e \in ClassifiedIn(events) : events[d].matched = events[e].matched => d = e

MatchedIn(rows, o) == \E k \in DOMAIN rows : rows[k].matched = o

\* Each such event comes with the row of a matched message.
Backed(events, rows) ==
    \A e \in ClassifiedIn(events) :
        /\ events[e].matched # Absent
        /\ MatchedIn(rows, events[e].matched)

\* What a poll has matched is no candidate any more.
Spent(s) == \A k \in DOMAIN s.rows : s.rows[k].matched \notin s.candidates

\* What was matched before a poll, the poll does not match again.
Unspent(s) ==
    \A k \in DOMAIN inbound : inbound[k].matched # Absent =>
        /\ inbound[k].matched \notin s.candidates
        /\ \A j \in DOMAIN s.rows : s.rows[j].matched # inbound[k].matched

AnsweredOnce ==
    /\ Backed(outbox, inbound)
    /\ \A p \in Pollers :
          /\ Backed(poll[p].events, poll[p].rows)
          /\ OneEach(poll[p].events)
          /\ Spent(poll[p])
    /\ ~overlapped =>
          /\ OneEach(outbox)
          /\ \A p, q \in Pollers : poll[p].at # "idle" /\ poll[q].at # "idle" => p = q
          /\ \A p \in Pollers : Unspent(poll[p])

LEMMA NothingClassified ==
    /\ \A rows : Backed(<<>>, rows)
    /\ OneEach(<<>>)
BY DEF Backed, OneEach, ClassifiedIn

\* Where the events of one list come from that is appended to another.
LEMMA EventsAppended ==
    ASSUME NEW A \in Seq(Event), NEW B \in Seq(Event)
    PROVE  /\ Len(A) \in Nat /\ DOMAIN A = 1..Len(A) /\ DOMAIN B = 1..Len(B)
           /\ Len(B) \in Nat /\ DOMAIN (A \o B) = 1..(Len(A) + Len(B))
           /\ \A e \in DOMAIN A : (A \o B)[e] = A[e]
           /\ \A e \in DOMAIN (A \o B) : e \notin DOMAIN A =>
                 e - Len(A) \in DOMAIN B /\ (A \o B)[e] = B[e - Len(A)]
<1>1. /\ Len(A) \in Nat /\ DOMAIN A = 1..Len(A) /\ Len(B) \in Nat /\ DOMAIN B = 1..Len(B)
    OBVIOUS
<1>2. /\ Len(A \o B) = Len(A) + Len(B) /\ DOMAIN (A \o B) = 1..(Len(A) + Len(B))
      /\ \A e \in 1..(Len(A) + Len(B)) :
            (A \o B)[e] = IF e <= Len(A) THEN A[e] ELSE B[e - Len(A)]
    BY ConcatProperties
<1> QED  BY <1>1, <1>2

\* Only a matched message gives an event of that type, and one.
LEMMA EventsOfMessage ==
    ASSUME NEW i \in Nat \ {0}, NEW o \in Nat, NEW intent \in Intents \cup {"none"}
    PROVE  /\ Events(i, o, intent) \in Seq(Event)
           /\ \A e \in ClassifiedIn(Events(i, o, intent)) :
                 e = 3 /\ o # Absent /\ Events(i, o, intent)[e].matched = o
<1> DEFINE received == [type |-> "InboundReceived", pos |-> i, matched |-> Absent,
                        intent |-> "none"]
           matched == [type |-> "ReplyMatched", pos |-> i, matched |-> o, intent |-> "none"]
           classified == [type |-> "ReplyClassified", pos |-> i, matched |-> o,
                          intent |-> intent]
           E == Events(i, o, intent)
<1>1. received \in Event /\ matched \in Event /\ classified \in Event
    BY DEF Event, Absent
<1>2. CASE o = Absent
  <2>1. E = <<received>>
      BY <1>2 DEF Events
  <2>2. E \in Seq(Event) /\ DOMAIN E = {1} /\ E[1].type = "InboundReceived"
      BY <2>1, <1>1
  <2> HIDE DEF E
  <2> QED  BY <2>2 DEF ClassifiedIn, E
<1>3. CASE o # Absent
  <2> DEFINE A == <<received>>
             B == <<matched, classified>>
  <2>1. E = A \o B
      BY <1>3 DEF Events
  <2>2. /\ A \in Seq(Event) /\ B \in Seq(Event) /\ Len(A) = 1 /\ Len(B) = 2
        /\ DOMAIN A = {1} /\ A[1] = received /\ B[1] = matched /\ B[2] = classified
      BY <1>1
  <2>4. E \in Seq(Event)
      BY <2>1, <2>2
  <2> HIDE DEF A, B, E, received, matched, classified
  <2>5. /\ DOMAIN E = 1..3 /\ E[1] = received
        /\ \A e \in DOMAIN E : e # 1 => E[e] = B[e - 1]
    <3>1. /\ DOMAIN E = 1..(Len(A) + Len(B)) /\ \A e \in DOMAIN A : E[e] = A[e]
          /\ \A e \in DOMAIN E : e \notin DOMAIN A => E[e] = B[e - Len(A)]
      <4>1. A \in Seq(Event) /\ B \in Seq(Event) /\ E = A \o B
          BY <2>1, <2>2
      <4>2. /\ DOMAIN (A \o B) = 1..(Len(A) + Len(B)) /\ \A e \in DOMAIN A : (A \o B)[e] = A[e]
            /\ \A e \in DOMAIN (A \o B) : e \notin DOMAIN A => (A \o B)[e] = B[e - Len(A)]
          BY <4>1, EventsAppended
      <4> QED  BY <4>1, <4>2
    <3> QED  BY <2>2, <3>1
  <2>6. E[2] = matched /\ E[3] = classified
    <3>1. 2 \in 1..3 /\ 3 \in 1..3 /\ 2 - 1 = 1 /\ 3 - 1 = 2
        OBVIOUS
    <3> QED  BY <2>2, <2>5, <3>1
  <2>3. \A e \in 1..3 : e = 1 \/ e = 2 \/ e = 3
      OBVIOUS
  <2>7. E[1].type = "InboundReceived" /\ E[2].type = "ReplyMatched" /\ E[3].matched = o
      BY <2>5, <2>6 DEF received, matched, classified
  <2> QED  BY <2>3, <2>4, <2>5, <2>7, <1>3 DEF ClassifiedIn, E
<1> QED  BY <1>2, <1>3

\* Two lists that stand for different messages.
LEMMA OneEachOfBoth ==
    ASSUME NEW A \in Seq(Event), NEW B \in Seq(Event), OneEach(A), OneEach(B),
           \A d \in ClassifiedIn(A), e \in ClassifiedIn(B) : A[d].matched # B[e].matched
    PROVE  OneEach(A \o B)
<1> DEFINE C == A \o B
           n == Len(A)
<1>1. /\ n \in Nat /\ DOMAIN A = 1..n /\ DOMAIN C \subseteq Nat
      /\ \A e \in DOMAIN A : C[e] = A[e]
      /\ \A e \in DOMAIN C : e \notin DOMAIN A => e - n \in DOMAIN B /\ C[e] = B[e - n]
    BY EventsAppended
<1> HIDE DEF C, n
<1>2. \A e \in ClassifiedIn(C) :
         \/ e \in ClassifiedIn(A) /\ C[e] = A[e]
         \/ e \notin DOMAIN A /\ e - n \in ClassifiedIn(B) /\ C[e] = B[e - n]
    BY <1>1 DEF ClassifiedIn
<1>3. ASSUME NEW d \in ClassifiedIn(C), NEW e \in ClassifiedIn(C), C[d].matched = C[e].matched
      PROVE  d = e
  <2>1. d \in Nat /\ e \in Nat
      BY <1>1 DEF ClassifiedIn
  <2>2. CASE d \in ClassifiedIn(A) /\ C[d] = A[d]
      BY <2>2, <1>2, <1>3 DEF OneEach
  <2>3. CASE d \notin DOMAIN A /\ d - n \in ClassifiedIn(B) /\ C[d] = B[d - n]
    <3>1. e \notin DOMAIN A /\ e - n \in ClassifiedIn(B) /\ C[e] = B[e - n]
        BY <2>3, <1>2, <1>3
    <3>2. d - n = e - n
        BY <2>3, <3>1, <1>3 DEF OneEach
    <3> QED  BY <3>2, <2>1, <1>1
  <2> QED  BY <2>2, <2>3, <1>2
<1> QED  BY <1>3 DEF OneEach, C

LEMMA BackedBoth ==
    ASSUME NEW A \in Seq(Event), NEW B \in Seq(Event), NEW R, NEW S, NEW T,
           Backed(A, R), Backed(B, S),
           \A x : MatchedIn(R, x) => MatchedIn(T, x), \A x : MatchedIn(S, x) => MatchedIn(T, x)
    PROVE  Backed(A \o B, T)
<1> DEFINE C == A \o B
           n == Len(A)
<1>1. /\ \A e \in DOMAIN A : C[e] = A[e]
      /\ \A e \in DOMAIN C : e \notin DOMAIN A => e - n \in DOMAIN B /\ C[e] = B[e - n]
    BY EventsAppended
<1> HIDE DEF C, n
<1>2. \A e \in ClassifiedIn(C) :
         \/ e \in ClassifiedIn(A) /\ C[e] = A[e]
         \/ e - n \in ClassifiedIn(B) /\ C[e] = B[e - n]
    BY <1>1 DEF ClassifiedIn
<1>3. ASSUME NEW e \in ClassifiedIn(C)
      PROVE  C[e].matched # Absent /\ MatchedIn(T, C[e].matched)
  <2>1. CASE e \in ClassifiedIn(A) /\ C[e] = A[e]
      BY <2>1 DEF Backed
  <2>2. CASE e - n \in ClassifiedIn(B) /\ C[e] = B[e - n]
      BY <2>2 DEF Backed
  <2> QED  BY <2>1, <2>2, <1>2
<1> QED  BY <1>3 DEF Backed, C

\* How a poll's step changes its candidates, and whether it is open.
LEMMA PollStepCandidates ==
    ASSUME Base, NEW p \in Pollers, PollStep(p)
    PROVE  /\ poll'[p].candidates \subseteq poll[p].candidates \cup Unanswered
           /\ ~Begin(p) => poll[p].at # "idle"
<1>0. poll[p] \in Poll
    BY DEF Base, TypeOK
<1>1. ~Begin(p) => poll[p].at # "idle"
    BY DEF PollStep, Polls, Baseline, FetchPage, ReadMessages, Skip, Wait, Insert,
           Conflict, Commit, Abort
<1>2. CASE Begin(p)
  <2>1. poll'[p] = [Idle EXCEPT !.at = "fetching", !.start = cursor, !.upto = After(cursor)]
      BY <1>2 DEF Base, TypeOK, Begin, Step
  <2>2. poll'[p].candidates = {}
      BY <2>1 DEF Idle
  <2> QED  BY <1>1, <2>2
<1>3. CASE Baseline(p)
  <2>1. poll'[p] = [poll[p] EXCEPT !.at = "working", !.next = Len(history), !.queue = {},
                                 !.gap = (After(poll[p].start) + 1)..Len(history),
                                 !.start = NoCursor, !.upto = 0]
      BY <1>3 DEF Base, TypeOK, Baseline, Step
  <2>2. poll'[p].candidates = poll[p].candidates
      BY <2>1, <1>0 DEF Poll
  <2> QED  BY <1>1, <2>2
<1>4. CASE FetchPage(p)
  <2> DEFINE last == Min({poll[p].upto + PageSize, Len(history)})
  <2>1. poll'[p] = [poll[p] EXCEPT
                 !.queue = @ \cup (poll[p].upto + 1)..last,
                 !.upto = last, !.next = Len(history),
                 !.at = IF last = Len(history) THEN "reading" ELSE "fetching"]
      BY <1>4 DEF Base, TypeOK, FetchPage, Step
  <2> HIDE DEF last
  <2>2. poll'[p].candidates = poll[p].candidates
      BY <2>1, <1>0 DEF Poll
  <2> QED  BY <1>1, <2>2
<1>5. CASE ReadMessages(p)
  <2>1. poll'[p] = [poll[p] EXCEPT !.queue = {i \in @ : Fetchable(i)},
                                 !.candidates = Unanswered,
                                 !.at = "working", !.start = NoCursor, !.upto = 0]
      BY <1>5 DEF Base, TypeOK, ReadMessages, Step
  <2>2. poll'[p].candidates = Unanswered
      BY <2>1, <1>0 DEF Poll
  <2> QED  BY <1>1, <2>2
<1>6. CASE Skip(p)
  <2>1. poll'[p] = [poll[p] EXCEPT !.queue = @ \ {Min(@)}]
      BY <1>6 DEF Base, TypeOK, Skip, Step
  <2>2. poll'[p].candidates = poll[p].candidates
      BY <2>1, <1>0 DEF Poll
  <2> QED  BY <1>1, <2>2
<1>7. CASE Wait(p)
  <2>1. poll'[p] = [poll[p] EXCEPT !.at = "inserting"]
      BY <1>7 DEF Base, TypeOK, Wait, Step
  <2>2. poll'[p].candidates = poll[p].candidates
      BY <2>1, <1>0 DEF Poll
  <2> QED  BY <1>1, <2>2
<1>8. CASE Insert(p)
  <2>1. PICK i \in poll[p].queue, o \in Nat, intent \in Intents \cup {"none"} :
           Inserts(p, i, o, intent)
      BY <1>8, InsertStep
  <2>2. poll'[p].candidates = poll[p].candidates \ {o}
      BY <2>1 DEF Inserts
  <2> QED  BY <1>1, <2>2
<1>9. CASE Conflict(p) \/ Commit(p) \/ Abort(p)
  <2>1. poll'[p].candidates = {}
      BY <1>9, IdleIn DEF Idle
  <2> QED  BY <1>1, <2>1
<1> QED  BY <1>2, <1>3, <1>4, <1>5, <1>6, <1>7, <1>8, <1>9 DEF PollStep, Polls

LEMMA AnsweredOnceInsert ==
    ASSUME Base, AnsweredOnce, NEW p \in Pollers, Insert(p)
    PROVE  AnsweredOnce'
<1> DEFINE s == poll[p]
           new == poll'[p]
<1>1. PICK i \in s.queue, o \in Nat, intent \in Intents \cup {"none"} : Inserts(p, i, o, intent)
    BY InsertStep
<1> DEFINE n == Len(s.rows) + 1
           E == Events(i, o, intent)
<1>2. /\ i \in Replies /\ o = MatchReply(history[i], Candidates(s))
      /\ new.at = "working" /\ new.candidates = s.candidates \ {o}
      /\ new.events = s.events \o E
      /\ DOMAIN new.rows = DOMAIN s.rows \cup {n}
      /\ \A k \in DOMAIN s.rows : new.rows[k] = s.rows[k]
      /\ new.rows[n].matched = o
      /\ UNCHANGED <<inbound, outbox>>
    BY <1>1 DEF Inserts, tables
<1>3. o # Absent => o \in s.candidates
    BY <1>2, MatchIsRight
<1>4. /\ \A q \in Pollers : q # p => poll'[q] = poll[q]
      /\ UNCHANGED overlapped /\ s.at # "idle"
    BY PollStepFrame DEF Base, PollStep, Polls, Insert
<1>5. s \in Poll /\ s.candidates \subseteq Nat \ {0} /\ s.events \in Seq(Event) /\ i \in Nat \ {0}
  <2>1. s \in Poll
      BY DEF Base, TypeOK
  <2> HIDE DEF s
  <2> QED  BY <2>1, <1>1 DEF Poll
<1>6. /\ E \in Seq(Event)
      /\ \A e \in ClassifiedIn(E) : e = 3 /\ o # Absent /\ E[e].matched = o
    BY <1>5, EventsOfMessage
<1> HIDE DEF s, new, n, E
<1>7. /\ Backed(s.events, s.rows) /\ OneEach(s.events) /\ Spent(s)
      /\ Backed(outbox, inbound)
    BY DEF AnsweredOnce, s
<1>8. Backed(new.events, new.rows)
  <2> DEFINE S == <<[matched |-> o]>>
  <2>1. DOMAIN S = {1} /\ S[1].matched = o
      OBVIOUS
  <2> HIDE DEF S
  <2>2. Backed(E, S)
      BY <2>1, <1>6 DEF Backed, MatchedIn
  <2>3. \A x : MatchedIn(s.rows, x) => MatchedIn(new.rows, x)
      BY <1>2 DEF MatchedIn
  <2>4. \A x : MatchedIn(S, x) => MatchedIn(new.rows, x)
      BY <2>1, <1>2 DEF MatchedIn
  <2>5. Backed(s.events \o E, new.rows)
      BY <2>2, <2>3, <2>4, <1>5, <1>6, <1>7, BackedBoth
  <2> QED  BY <2>5, <1>2
<1>9. OneEach(new.events)
  <2>1. OneEach(E)
      BY <1>6 DEF OneEach
  <2>2. ASSUME NEW d \in ClassifiedIn(s.events), NEW e \in ClassifiedIn(E)
        PROVE  s.events[d].matched # E[e].matched
    <3>1. PICK k \in DOMAIN s.rows : s.rows[k].matched = s.events[d].matched
        BY <1>7 DEF Backed, MatchedIn
    <3>2. s.rows[k].matched \notin s.candidates
        BY <1>7 DEF Spent
    <3> QED  BY <3>1, <3>2, <1>3, <1>6
  <2>3. OneEach(s.events \o E)
      BY <2>1, <2>2, <1>5, <1>6, <1>7, OneEachOfBoth
  <2> QED  BY <2>3, <1>2
<1>10. Spent(new)
    BY <1>2, <1>7 DEF Spent
<1>11. ASSUME ~overlapped'
       PROVE  /\ OneEach(outbox)' 
              /\ \A q, r \in Pollers : poll'[q].at # "idle" /\ poll'[r].at # "idle" => q = r
              /\ \A q \in Pollers : Unspent(poll[q])'
  <2>1. /\ OneEach(outbox)
        /\ \A q, r \in Pollers : poll[q].at # "idle" /\ poll[r].at # "idle" => q = r
        /\ \A q \in Pollers : Unspent(poll[q])
      BY <1>4, <1>11 DEF AnsweredOnce
  <2>2. \A q, r \in Pollers : poll'[q].at # "idle" /\ poll'[r].at # "idle" => q = r
      BY <2>1, <1>4 DEF s
  <2>3. Unspent(s) => Unspent(new)
      BY <1>2, <1>3 DEF Unspent
  <2>4. ASSUME NEW q \in Pollers
        PROVE  Unspent(poll'[q])
    <3>1. CASE q = p
        BY <3>1, <2>1, <2>3 DEF s, new
    <3>2. CASE q # p
        BY <3>2, <2>1, <1>4
    <3> QED  BY <3>1, <3>2
  <2>5. \A q \in Pollers : Unspent(poll[q])'
      BY <2>4, <1>2 DEF Unspent
  <2> QED  BY <2>1, <2>2, <2>5, <1>2
<1>12. ASSUME NEW q \in Pollers
       PROVE  /\ Backed(poll'[q].events, poll'[q].rows)
              /\ OneEach(poll'[q].events) /\ Spent(poll'[q])
  <2>1. CASE q = p
      BY <2>1, <1>8, <1>9, <1>10 DEF new
  <2>2. CASE q # p
      BY <2>2, <1>4 DEF AnsweredOnce
  <2> QED  BY <2>1, <2>2
<1> QED  BY <1>2, <1>7, <1>11, <1>12 DEF AnsweredOnce

LEMMA AnsweredOnceCommit ==
    ASSUME Base, AnsweredOnce, NEW p \in Pollers, Commit(p)
    PROVE  AnsweredOnce'
<1> DEFINE s == poll[p]
           n == Len(inbound)
           m == Len(s.rows)
<1>1. /\ n \in Nat /\ m \in Nat /\ DOMAIN inbound = 1..n /\ DOMAIN s.rows = 1..m
      /\ DOMAIN inbound' = 1..(n + m)
      /\ \A k \in 1..n : inbound'[k] = inbound[k]
      /\ \A k \in (n + 1)..(n + m) : inbound'[k] = s.rows[k - n]
    BY CommitRows DEF Base
<1>2. /\ poll'[p] = Idle /\ outbox' = outbox \o s.events
      /\ \A q \in Pollers : q # p => poll'[q] = poll[q]
      /\ UNCHANGED overlapped /\ s.at # "idle"
    BY IdleIn, PollStepFrame DEF Base, PollStep, Polls, Commit
<1>3. outbox \in Seq(Event) /\ s.events \in Seq(Event)
    BY DEF Base, TypeOK, Poll
<1>4. /\ Backed(outbox, inbound) /\ Backed(s.events, s.rows)
      /\ OneEach(s.events)
    BY DEF AnsweredOnce
<1> HIDE DEF s, n, m
<1>5. Backed(outbox', inbound')
  <2>1. ASSUME NEW k \in DOMAIN s.rows
        PROVE  k + n \in DOMAIN inbound' /\ inbound'[k + n] = s.rows[k]
    <3>1. k + n \in (n + 1)..(n + m) /\ (k + n) - n = k
        BY <1>1
    <3> QED  BY <3>1, <1>1
  <2>2. \A x : MatchedIn(s.rows, x) => MatchedIn(inbound', x)
      BY <2>1 DEF MatchedIn
  <2>3. \A x : MatchedIn(inbound, x) => MatchedIn(inbound', x)
    <3>1. \A k \in DOMAIN inbound : k \in DOMAIN inbound' /\ inbound'[k] = inbound[k]
        BY <1>1
    <3> QED  BY <3>1 DEF MatchedIn
  <2>4. Backed(outbox \o s.events, inbound')
      BY <2>2, <2>3, <1>3, <1>4, BackedBoth
  <2> QED  BY <2>4, <1>2
<1>6. /\ Idle.events = <<>> /\ Idle.rows = <<>> /\ Idle.candidates = {} /\ Idle.at = "idle"
    BY DEF Idle
<1>7. ASSUME NEW q \in Pollers
      PROVE  /\ Backed(poll'[q].events, poll'[q].rows)
             /\ OneEach(poll'[q].events) /\ Spent(poll'[q])
  <2>1. CASE q = p
      BY <2>1, <1>2, <1>6, NothingClassified DEF Spent
  <2>2. CASE q # p
      BY <2>2, <1>2 DEF AnsweredOnce
  <2> QED  BY <2>1, <2>2
<1>8. ASSUME ~overlapped'
      PROVE  /\ OneEach(outbox)'
             /\ \A q, r \in Pollers : poll'[q].at # "idle" /\ poll'[r].at # "idle" => q = r
             /\ \A q \in Pollers : Unspent(poll[q])'
  <2>1. /\ OneEach(outbox)
        /\ \A q, r \in Pollers : poll[q].at # "idle" /\ poll[r].at # "idle" => q = r
        /\ Unspent(s)
      BY <1>2, <1>8 DEF AnsweredOnce, s
  <2>2. \A q \in Pollers : poll'[q] = Idle
    <3>1. ASSUME NEW q \in Pollers, q # p
          PROVE  poll'[q] = Idle
      <4>1. poll[q].at = "idle"
          BY <3>1, <2>1, <1>2 DEF s
      <4>2. InRange(poll[q])
          BY DEF Base
      <4> QED  BY <4>1, <4>2, <3>1, <1>2 DEF InRange
    <3> QED  BY <3>1, <1>2
  <2>3. ASSUME NEW d \in ClassifiedIn(outbox), NEW e \in ClassifiedIn(s.events)
        PROVE  outbox[d].matched # s.events[e].matched
    <3>1. outbox[d].matched # Absent
        BY <1>4 DEF Backed, MatchedIn
    <3>2. PICK k \in DOMAIN inbound : inbound[k].matched = outbox[d].matched
        BY <1>4 DEF Backed, MatchedIn
    <3>3. PICK j \in DOMAIN s.rows : s.rows[j].matched = s.events[e].matched
        BY <1>4 DEF Backed, MatchedIn
    <3> QED  BY <3>1, <3>2, <3>3, <2>1 DEF Unspent
  <2>4. OneEach(outbox')
      BY <2>1, <2>3, <1>2, <1>3, <1>4, OneEachOfBoth
  <2>5. ASSUME NEW q \in Pollers
        PROVE  Unspent(poll[q])'
    <3>1. poll'[q].rows = <<>> /\ poll'[q].candidates = {}
        BY <2>2, <1>6
    <3> QED  BY <3>1 DEF Unspent
  <2> QED  BY <2>2, <2>4, <2>5, <1>6
<1> QED  BY <1>5, <1>7, <1>8 DEF AnsweredOnce

LEMMA AnsweredOnceStep ==
    ASSUME Base, AnsweredOnce, [Next]_vars
    PROVE  AnsweredOnce'
<1>1. CASE World \/ UNCHANGED vars
  <2>1. UNCHANGED <<inbound, outbox, poll, overlapped>>
      BY <1>1, WorldGrows DEF Base, tables, vars
  <2> QED  BY <2>1 DEF AnsweredOnce, Unspent
<1>2. ASSUME NEW p \in Pollers, PollStep(p)
      PROVE  AnsweredOnce'
  <2>1. CASE Insert(p)
      BY <2>1, AnsweredOnceInsert
  <2>2. CASE Commit(p)
      BY <2>2, AnsweredOnceCommit
  <2>3. CASE /\ UNCHANGED <<cursor, inbound, suppressed, outbox, skipped>>
             /\ \/ /\ poll'[p].rows = <<>> /\ poll'[p].events = <<>>
                   /\ poll'[p].suppress = {}
                \/ /\ poll'[p].rows = poll[p].rows /\ poll'[p].events = poll[p].events
                   /\ poll'[p].suppress = poll[p].suppress
                   /\ poll'[p].queue \subseteq poll[p].queue
                   /\ poll'[p].candidates = poll[p].candidates
    <3>1. /\ \A q \in Pollers : q # p => poll'[q] = poll[q]
          /\ Begin(p) \/ UNCHANGED overlapped
        BY <1>2, PollStepFrame DEF Base
    <3>2. /\ poll'[p].candidates \subseteq poll[p].candidates \cup Unanswered
          /\ ~Begin(p) => poll[p].at # "idle"
        BY <1>2, PollStepCandidates
    <3>3. ASSUME NEW q \in Pollers
          PROVE  /\ Backed(poll'[q].events, poll'[q].rows)
                 /\ OneEach(poll'[q].events) /\ Spent(poll'[q])
      <4>1. Backed(poll[q].events, poll[q].rows) /\ OneEach(poll[q].events) /\ Spent(poll[q])
          BY DEF AnsweredOnce
      <4>2. CASE poll'[q].rows = <<>> /\ poll'[q].events = <<>>
          BY <4>2, NothingClassified DEF Spent
      <4>3. CASE /\ poll'[q].rows = poll[q].rows /\ poll'[q].events = poll[q].events
                 /\ poll'[q].candidates = poll[q].candidates
          BY <4>1, <4>3 DEF Spent
      <4> QED  BY <4>2, <4>3, <2>3, <3>1
    <3>4. ASSUME ~overlapped'
          PROVE  /\ ~overlapped
                 /\ \A q, r \in Pollers : poll'[q].at # "idle" /\ poll'[r].at # "idle" => q = r
      <4>1. ~overlapped
          BY <3>1, <3>4 DEF Begin
      <4>2. \A q, r \in Pollers : poll[q].at # "idle" /\ poll[r].at # "idle" => q = r
          BY <4>1 DEF AnsweredOnce
      <4>3. CASE Begin(p)
        <5>1. \A q \in Pollers : poll[q].at = "idle"
            BY <4>1, <4>3, <3>4 DEF Begin
        <5> QED  BY <5>1, <4>1, <3>1
      <4>4. CASE ~Begin(p)
          BY <4>1, <4>2, <4>4, <3>1, <3>2
      <4> QED  BY <4>3, <4>4
    <3>5. ASSUME ~overlapped', NEW q \in Pollers
          PROVE  Unspent(poll[q])'
      <4>1. Unspent(poll[q])
          BY <3>4, <3>5 DEF AnsweredOnce
      <4>2. \A o \in Unanswered : \A k \in DOMAIN inbound : inbound[k].matched # o
          BY DEF Unanswered, Newest
      <4>3. poll'[q].candidates \subseteq poll[q].candidates \cup Unanswered
          BY <3>1, <3>2
      <4>4. poll'[q].rows = <<>> \/ poll'[q].rows = poll[q].rows
          BY <2>3, <3>1
      <4> QED  BY <4>1, <4>2, <4>3, <4>4, <2>3 DEF Unspent
    <3>6. (~overlapped => OneEach(outbox)) /\ Backed(outbox, inbound)
        BY DEF AnsweredOnce
    <3> QED  BY <2>3, <3>3, <3>4, <3>5, <3>6 DEF AnsweredOnce
  <2> QED  BY <2>1, <2>2, <2>3, <1>2, OtherSteps
<1> QED  BY <1>1, <1>2, NextSteps

\* A message gets a second answer only from polls that overlap: without them,
\* whatever is answered leaves the candidates of every later match.
THEOREM AnswersOnce == Spec => []SecondAnswerNeedsOverlap
<1>1. Init => AnsweredOnce
  <2> SUFFICES ASSUME Init
               PROVE  AnsweredOnce
      OBVIOUS
  <2>1. /\ inbound = <<>> /\ outbox = <<>>
        /\ \A p \in Pollers : /\ poll[p].events = <<>> /\ poll[p].rows = <<>>
                              /\ poll[p].candidates = {} /\ poll[p].at = "idle"
      BY DEF Init, Idle
  <2> QED  BY <2>1, NothingClassified DEF AnsweredOnce, Spent, Unspent
<1>2. Base /\ AnsweredOnce /\ [Next]_vars => AnsweredOnce'
    BY AnsweredOnceStep
<1>3. AnsweredOnce => SecondAnswerNeedsOverlap
    BY DEF AnsweredOnce, SecondAnswerNeedsOverlap, OneEach, ClassifiedIn, Classified
<1> QED  BY <1>1, <1>2, <1>3, BaseHolds, PTL DEF Spec

-----------------------------------------------------------------------------
(* match_reply is as good as its reference definition.                     *)

RefersTo(m, o) == \E k \in DOMAIN m.references : m.references[k].id = o

\* Evidence for outbound message o.
Rank(m, o) ==
    IF o = m.inReplyTo.id THEN 1
    ELSE IF RefersTo(m, o) THEN 2
    ELSE IF o = m.thread THEN 3
    ELSE IF Similar(m, o) THEN 4
    ELSE 5

LEMMA EvidenceIsRank ==
    ASSUME NEW m, NEW o
    PROVE  Evidence(m, Candidate(o)) = Rank(m, o)
<1> DEFINE c == Candidate(o)
<1>1. /\ c.messageId.id = o /\ c.thread = o /\ c.to = outbound[o].to
      /\ c.subject.base = outbound[o].subject
    BY DEF Candidate
<1> HIDE DEF c
<1> DEFINE named == \E i \in DOMAIN m.references :
                       MessageId(m.references[i]) = MessageId(c.messageId)
           alike == /\ m.subject.base = c.subject.base
                    /\ m.subject.base # Empty
                    /\ m.from = c.to
<1>2. /\ (MessageId(c.messageId) = MessageId(m.inReplyTo)) <=> o = m.inReplyTo.id
      /\ named <=> RefersTo(m, o)
      /\ alike <=> Similar(m, o)
    BY <1>1 DEF MessageId, Similar, RefersTo
<1>3. Evidence(m, c) = IF MessageId(c.messageId) = MessageId(m.inReplyTo) THEN 1
                       ELSE IF named THEN 2
                       ELSE IF c.thread = m.thread THEN 3
                       ELSE IF alike THEN 4
                       ELSE 5
    BY DEF Evidence
<1> HIDE DEF named, alike
<1> QED  BY <1>1, <1>2, <1>3 DEF Rank, c

LEMMA MatchRanksBest ==
    ASSUME NEW m \in Message, NEW ids, ids \subseteq Nat \ {0}, NEW o, Matched(m, ids, o)
    PROVE  /\ o = Absent => \A c \in ids : Rank(m, c) = 5
           /\ o # Absent => /\ o \in ids /\ Rank(m, o) < 5
                            /\ \A c \in ids : Rank(m, o) <= Rank(m, c)
<1>0. Absent \notin ids
    BY DEF Absent
<1>1. CASE m.inReplyTo.id \in ids
  <2>1. o = m.inReplyTo.id /\ o \in ids /\ Rank(m, o) = 1
      BY <1>1 DEF Matched, Rank
  <2>2. \A c \in ids : Rank(m, c) \in 1..5
      BY DEF Rank
  <2> QED  BY <2>1, <2>2, <1>0
<1>2. CASE m.inReplyTo.id \notin ids /\ Referred(m, ids)
  <2>1. o \in ids /\ o # m.inReplyTo.id /\ RefersTo(m, o)
      BY <1>2 DEF Matched, RefersTo
  <2>2. Rank(m, o) = 2
      BY <2>1 DEF Rank
  <2>3. \A c \in ids : Rank(m, c) \in 2..5
      BY <1>2 DEF Rank
  <2> QED  BY <2>1, <2>2, <2>3, <1>0
<1>3. CASE m.inReplyTo.id \notin ids /\ ~Referred(m, ids)
  <2>0. \A c \in ids : c # m.inReplyTo.id
                       /\ ~RefersTo(m, c)
      BY <1>3 DEF Referred, RefersTo
  <2>1. CASE m.thread \in ids
    <3>1. o = m.thread /\ o \in ids
        BY <1>3, <2>1 DEF Matched
    <3>2. Rank(m, o) = 3
        BY <3>1, <2>0 DEF Rank
    <3>3. \A c \in ids : Rank(m, c) \in 3..5
        BY <2>0 DEF Rank
    <3> QED  BY <3>1, <3>2, <3>3, <1>0
  <2>2. CASE m.thread \notin ids /\ \E c \in ids : Similar(m, c)
    <3>1. o \in ids /\ Similar(m, o)
        BY <1>3, <2>2 DEF Matched
    <3>2. Rank(m, o) = 4 /\ \A c \in ids : Rank(m, c) \in 4..5
        BY <3>1, <2>0, <2>2 DEF Rank
    <3> QED  BY <3>1, <3>2, <1>0
  <2>3. CASE m.thread \notin ids /\ ~ \E c \in ids : Similar(m, c)
    <3>1. o = Absent
        BY <1>3, <2>3 DEF Matched
    <3>2. \A c \in ids : Rank(m, c) = 5
        BY <2>0, <2>3 DEF Rank
    <3> QED  BY <3>1, <3>2
  <2> QED  BY <2>1, <2>2, <2>3
<1> QED  BY <1>1, <1>2, <1>3

LEMMA BestEvidenceFound ==
    ASSUME NEW m \in Message, NEW s, s.candidates \subseteq Nat \ {0},
           NEW n \in Nat, \A o \in s.candidates : o <= n
    PROVE  BestEvidence(m, Candidates(s), MatchReply(m, Candidates(s)))
<1> DEFINE ids == s.candidates
           o == MatchReply(m, Candidates(s))
           ranks == {5} \cup {Evidence(m, c) : c \in Candidates(s)}
           best == Min(ranks)
<1>1. Matched(m, ids, o)
    BY MatchFinds
<1>2. /\ o = Absent => \A c \in ids : Rank(m, c) = 5
      /\ o # Absent => /\ o \in ids /\ Rank(m, o) < 5
                       /\ \A c \in ids : Rank(m, o) <= Rank(m, c)
  <2> HIDE DEF ids, o
  <2> QED  BY <1>1, MatchRanksBest DEF ids
<1>3. /\ \A x : x \in ranks <=> x = 5 \/ \E c \in ids : x = Rank(m, c)
      /\ \A c \in ids : Candidate(c) \in Candidates(s) /\ Candidate(c).id = c
    BY EvidenceIsRank DEF Candidates, Candidate
<1>4. \A c : Rank(m, c) \in 1..5
    BY DEF Rank
<1> HIDE DEF ids, o, ranks
<1>5. ranks \in SUBSET Nat /\ ranks # {}
    BY <1>3, <1>4
<1>6. best \in ranks /\ \A x \in ranks : best <= x
    BY <1>5, MinIn
<1> HIDE DEF best
<1>7. CASE o = Absent
  <2>1. best = 5
      BY <1>2, <1>3, <1>6, <1>7
  <2> QED  BY <2>1, <1>7 DEF BestEvidence, best, ranks, o
<1>8. CASE o # Absent
  <2>1. best = Rank(m, o)
    <3>1. Rank(m, o) \in ranks /\ Rank(m, o) < 5 /\ o \in ids
        BY <1>2, <1>3, <1>8
    <3>2. best <= Rank(m, o) /\ best # 5 /\ best \in Nat
        BY <3>1, <1>4, <1>5, <1>6
    <3>3. PICK c \in ids : best = Rank(m, c)
        BY <3>2, <1>3, <1>6
    <3>4. Rank(m, o) <= best
        BY <3>3, <1>2, <1>8
    <3> QED  BY <3>2, <3>4, <1>4
  <2>2. Evidence(m, Candidate(o)) = best /\ best < 5
      BY <2>1, <1>2, <1>8, EvidenceIsRank
  <2>3. Candidate(o) \in Candidates(s) /\ Candidate(o).id = o
      BY <1>2, <1>3, <1>8
  <2>4. \E c \in Candidates(s) : c.id = o /\ Evidence(m, c) = best /\ best < 5
      BY <2>2, <2>3
  <2> QED  BY <2>4, <1>8 DEF BestEvidence, best, ranks, o
<1> QED  BY <1>7, <1>8

\* For every message and all candidates a poll can have, match_reply finds the
\* candidate with the best evidence, and none only when there is none.
THEOREM MatchesBestEvidence == Spec => []MatchIsBestEvidence
<1>1. Base => MatchIsBestEvidence
  <2> SUFFICES ASSUME Base, NEW p \in Pollers, NEW i \in Replies
               PROVE  BestEvidence(history[i], Candidates(poll[p]),
                                   MatchReply(history[i], Candidates(poll[p])))
      BY DEF MatchIsBestEvidence
  <2>1. history[i] \in Message /\ Len(outbound) \in Nat /\ DOMAIN outbound = 1..Len(outbound)
      BY DEF Base, TypeOK, Replies
  <2>2. poll[p].candidates \subseteq DOMAIN outbound
      BY DEF Base, InRange
  <2>3. poll[p].candidates \subseteq Nat \ {0} /\ \A o \in poll[p].candidates : o <= Len(outbound)
      BY <2>1, <2>2
  <2> QED  BY <2>1, <2>3, BestEvidenceFound
<1> QED  BY <1>1, BaseHolds, PTL

-----------------------------------------------------------------------------
(* The first reply of a recipient is matched.                              *)

\* So many messages were sent since that the list of candidates may be full.
Old(o) == Len(outbound) - o >= CandidateLimit

Named == {"direct", "chain", "thread"}

\* A message that is not matched to the one it answers, though it came in time
\* and names it, comes after one that was.
Found(rows, k) ==
    LET m == history[rows[k].pos]
    IN  m.onTime /\ m.form \in Named =>
            \/ rows[k].matched = m.answers
            \/ \E j \in DOMAIN rows : j < k /\ rows[j].matched = m.answers
            \/ Old(m.answers)

\* What an open poll can still match.
Matchable(s, o) ==
    o \in s.candidates \/ MatchedIn(s.rows, o) \/ MatchedIn(inbound, o) \/ Old(o)

InHand(s) ==
    /\ s.at \in {"working", "inserting"} =>
          \A i \in s.queue : history[i].onTime => Matchable(s, history[i].answers)
    /\ \A k \in DOMAIN s.rows :
          Found(s.rows, k) \/ MatchedIn(inbound, history[s.rows[k].pos].answers)

FirstFound ==
    /\ \A k \in DOMAIN inbound : Found(inbound, k)
    /\ \A p \in Pollers : InHand(poll[p])

\* The candidates that are left out are followed by as many that are not.
LEMMA NewestLeavesOld ==
    ASSUME NEW n \in Nat, NEW S, S \subseteq 1..n, NEW limit \in Nat,
           NEW o \in S, o \notin Newest(S, limit)
    PROVE  n - o >= limit
<1> DEFINE B == {b \in S : b > o}
<1>1. ~(Cardinality(B) < limit)
    BY DEF Newest
<1>2. IsFiniteSet((o + 1)..n) /\ Cardinality((o + 1)..n) = IF o + 1 > n THEN 0 ELSE n - (o + 1) + 1
  <2>1. o + 1 \in Int /\ n \in Int
      OBVIOUS
  <2> QED  BY <2>1, FS_Interval
<1>3. B \subseteq (o + 1)..n
  <2>1. \A b \in B : b \in Int /\ b <= n /\ b > o
      OBVIOUS
  <2>2. o \in Int
      OBVIOUS
  <2> HIDE DEF B
  <2> QED  BY <2>1, <2>2
<1> HIDE DEF B
<1>4. IsFiniteSet(B) /\ Cardinality(B) <= Cardinality((o + 1)..n)
    BY <1>2, <1>3, FS_Subset
<1>5. Cardinality(B) \in Nat
    BY <1>4, FS_CardinalityType
<1>6. o \in Nat /\ o <= n
    OBVIOUS
<1> QED  BY <1>1, <1>2, <1>4, <1>5, <1>6

\* A message that names the one it answers is matched to it.
LEMMA NamedIsMatched ==
    ASSUME MailIsFaithful, NEW m \in Message, Faithful(m), m.form \in Named,
           NEW ids, ids \subseteq Nat \ {0}, \A c \in ids : c <= MaxSends,
           m.answers \in ids, NEW x, Matched(m, ids, x)
    PROVE  x = m.answers
<1>0. MaxSends \in Nat /\ Absent \notin ids
    BY InboxAssumption DEF Absent
<1>1. \A id : Names(id, m) /\ id \in ids => id = m.answers
    BY <1>0 DEF Names
<1>2. CASE m.form = "direct"
    BY <1>2 DEF Faithful, Matched
<1>3. CASE m.form = "chain"
  <2>1. m.inReplyTo.id \notin ids
    <3>1. m.inReplyTo.id > MaxSends /\ m.inReplyTo.id \in Nat
        BY <1>3 DEF Faithful, Message, Header
    <3> QED  BY <3>1, <1>0
  <2>2. Referred(m, ids)
      BY <1>3 DEF Faithful, Referred
  <2>3. PICK k \in DOMAIN m.references : m.references[k].id = x /\ x \in ids
      BY <2>1, <2>2 DEF Matched
  <2>4. Names(x, m)
      BY <2>3 DEF Faithful
  <2> QED  BY <2>3, <2>4, <1>1
<1>4. CASE m.form = "thread"
  <2>1. m.inReplyTo.id \notin ids /\ ~Referred(m, ids) /\ m.thread = m.answers
      BY <1>0, <1>4 DEF Faithful, Referred
  <2> QED  BY <2>1 DEF Matched
<1> QED  BY <1>2, <1>3, <1>4 DEF Named

\* A poll that takes no step, while the mailbox and the table grow.
LEMMA OldStays ==
    ASSUME TypeOK, MailGrows, TypeOK', NEW o \in Nat, Old(o)
    PROVE  Old(o)'
<1>1. Len(outbound) \in Nat /\ Len(outbound') \in Nat /\ CandidateLimit \in Nat
    BY InboxAssumption DEF TypeOK
<1> QED  BY <1>1 DEF Old, MailGrows

LEMMA InHandStays ==
    ASSUME Base, MailGrows, TypeOK', NEW p \in Pollers, InHand(poll[p]), poll'[p] = poll[p],
           \A o : MatchedIn(inbound, o) => MatchedIn(inbound', o)
    PROVE  InHand(poll[p])'
<1> DEFINE s == poll[p]
<1>1. s \in Poll /\ InRange(s)
    BY DEF Base, TypeOK
<1>2. ASSUME NEW i \in Replies
      PROVE  /\ history'[i] = history[i] /\ history[i].answers \in Nat
             /\ Old(history[i].answers) => Old(history[i].answers)'
  <2>1. i \in DOMAIN history /\ history[i] \in Message
      BY DEF Base, TypeOK, Replies
  <2>2. history'[i] = history[i] /\ history[i].answers \in Nat
      BY <2>1 DEF MailGrows, Message
  <2> QED  BY <2>2, OldStays DEF Base, Old
<1>3. ASSUME s.at \in {"working", "inserting"}, NEW i \in s.queue, history'[i].onTime
      PROVE  Matchable(s, history[i].answers)'
  <2>1. i \in Replies /\ Matchable(s, history[i].answers)
      BY <1>1, <1>2, <1>3 DEF InRange, InHand
  <2> QED  BY <2>1, <1>2 DEF Matchable
<1>4. ASSUME NEW k \in DOMAIN s.rows
      PROVE  Found(s.rows, k)' \/ MatchedIn(inbound', history'[s.rows[k].pos].answers)
  <2>1. s.rows[k].pos \in Replies
      BY <1>1 DEF InRange, Right
  <2>2. Found(s.rows, k) \/ MatchedIn(inbound, history[s.rows[k].pos].answers)
      BY DEF InHand
  <2> QED  BY <2>1, <2>2, <1>2 DEF Found
<1> QED  BY <1>3, <1>4 DEF InHand

\* The messages that a poll reads are matchable with the candidates it reads.
LEMMA ReadIsMatchable ==
    ASSUME Base, NEW i \in Replies, history[i].onTime, NEW s, s.candidates = Unanswered
    PROVE  Matchable(s, history[i].answers)
<1> DEFINE o == history[i].answers
           S == {c \in DOMAIN outbound :
                    /\ outbound[c].state = "sent"
                    /\ \A k \in DOMAIN inbound : inbound[k].matched # c}
           n == Len(outbound)
<1>1. Faithful(history[i])
    BY DEF Base, MailIsFaithful
<1>2. o \in DOMAIN outbound /\ outbound[o].state = "sent"
    BY <1>1 DEF Faithful
<1>3. n \in Nat /\ DOMAIN outbound = 1..n
    BY DEF Base, TypeOK
<1>4. S \subseteq 1..n /\ CandidateLimit \in Nat
    BY <1>3, InboxAssumption
<1>5. Unanswered = Newest(S, CandidateLimit)
    BY DEF Unanswered
<1>6. o \in S \/ MatchedIn(inbound, o)
    BY <1>2 DEF MatchedIn
<1> HIDE DEF S, o
<1>7. o \in S /\ o \notin Newest(S, CandidateLimit) => Old(o)
  <2> HIDE DEF n
  <2>1. o \in S /\ o \notin Newest(S, CandidateLimit) => n - o >= CandidateLimit
      BY <1>3, <1>4, NewestLeavesOld
  <2> QED  BY <2>1 DEF Old, n
<1> QED  BY <1>5, <1>6, <1>7 DEF Matchable, o

LEMMA FirstFoundInsert ==
    ASSUME Base, FirstFound, NEW p \in Pollers, Insert(p)
    PROVE  InHand(poll[p])'
<1> DEFINE s == poll[p]
           new == poll'[p]
<1>1. PICK i \in s.queue, x \in Nat, intent \in Intents \cup {"none"} : Inserts(p, i, x, intent)
    BY InsertStep
<1> DEFINE n == Len(s.rows) + 1
           m == history[i]
           o == m.answers
<1>2. /\ i \in Replies /\ x = MatchReply(m, Candidates(s)) /\ new.queue \subseteq s.queue
      /\ new.candidates = s.candidates \ {x}
      /\ n \in Nat \ {0} /\ DOMAIN s.rows = 1..(n - 1) /\ DOMAIN new.rows = 1..n
      /\ \A k \in DOMAIN s.rows : new.rows[k] = s.rows[k]
      /\ new.rows[n].matched = x /\ new.rows[n].pos = i
      /\ UNCHANGED <<inbound, outbound, history>>
    BY <1>1 DEF Inserts, tables, mailVars
<1>3. s \in Poll /\ InRange(s) /\ InHand(s) /\ s.at \in {"working", "inserting"}
    BY DEF Base, TypeOK, FirstFound, Insert
<1> HIDE DEF s, new, n
<1>4. /\ m \in Message /\ Faithful(m)
      /\ Len(outbound) \in Nat /\ DOMAIN outbound = 1..Len(outbound)
      /\ Len(outbound) <= MaxSends /\ MaxSends \in Nat
    BY <1>2, MailFacts
<1>5. s.candidates \subseteq DOMAIN outbound
    BY <1>3 DEF InRange
<1>6. /\ s.candidates \subseteq Nat \ {0}
      /\ \A c \in s.candidates : c <= Len(outbound) /\ c <= MaxSends
    BY <1>4, <1>5
<1>7. Matched(m, s.candidates, x)
    BY <1>2, <1>4, <1>6, MatchFinds
<1>8. m.form \in Named /\ o \in s.candidates => x = o
    BY <1>4, <1>6, <1>7, NamedIsMatched DEF Base
<1>9. \A y : MatchedIn(s.rows, y) => MatchedIn(new.rows, y)
    BY <1>2 DEF MatchedIn
<1>10. MatchedIn(new.rows, x)
    BY <1>2 DEF MatchedIn
<1>11. \A y : Matchable(s, y) => Matchable(new, y)
    BY <1>2, <1>9, <1>10 DEF Matchable
<1>12. m.onTime => Matchable(s, o)
    BY <1>1, <1>3 DEF InHand, s
<1>13. \A y : MatchedIn(s.rows, y) => \E j \in DOMAIN new.rows : j < n /\ new.rows[j].matched = y
    BY <1>2 DEF MatchedIn
<1>14. Found(new.rows, n) \/ MatchedIn(inbound, o)
    BY <1>2, <1>8, <1>12, <1>13 DEF Found, Matchable
<1> HIDE DEF m, o
<1>15. ASSUME NEW k \in DOMAIN s.rows
       PROVE  Found(new.rows, k) \/ MatchedIn(inbound, history[new.rows[k].pos].answers)
  <2>1. Found(s.rows, k) \/ MatchedIn(inbound, history[s.rows[k].pos].answers)
      BY <1>3 DEF InHand
  <2>2. new.rows[k] = s.rows[k]
      BY <1>2
  <2>3. ASSUME NEW j \in DOMAIN s.rows, j < k
        PROVE  j \in DOMAIN new.rows /\ new.rows[j] = s.rows[j]
      BY <1>2
  <2> QED  BY <2>1, <2>2, <2>3 DEF Found
<1>16. \A k \in DOMAIN new.rows :
          Found(new.rows, k) \/ MatchedIn(inbound, history[new.rows[k].pos].answers)
  <2>1. \A k \in DOMAIN new.rows : k = n \/ k \in DOMAIN s.rows
      BY <1>2
  <2> QED  BY <2>1, <1>2, <1>14, <1>15 DEF m, o
<1>17. \A j \in new.queue : history[j].onTime => Matchable(new, history[j].answers)
    BY <1>2, <1>3, <1>11 DEF InHand
<1>18. InHand(new)
    BY <1>16, <1>17 DEF InHand
<1> QED  BY <1>2, <1>18 DEF InHand, Found, Matchable, Old, new

\* The other steps of a poll that leave it open.
LEMMA FirstFoundOther ==
    ASSUME Base, FirstFound, NEW p \in Pollers, PollStep(p), ~Insert(p)
    PROVE  InHand(poll[p])'
<1> DEFINE s == poll[p]
           new == poll'[p]
<1>0. s \in Poll /\ InRange(s) /\ InHand(s) /\ new \in Poll
    BY PollStepIn DEF Base, TypeOK, FirstFound
<1>1. CASE new.rows = <<>> /\ new.at \notin {"working", "inserting"}
    BY <1>1 DEF InHand
<1>2. ASSUME Begin(p) \/ FetchPage(p) \/ Conflict(p) \/ Commit(p) \/ Abort(p)
      PROVE  new.rows = <<>> /\ new.at \notin {"working", "inserting"}
  <2>1. CASE Begin(p)
    <3>1. new = [Idle EXCEPT !.at = "fetching", !.start = cursor, !.upto = After(cursor)]
        BY <2>1 DEF Base, TypeOK, Begin, Step
    <3> QED  BY <3>1 DEF Idle
  <2>2. CASE FetchPage(p)
    <3> DEFINE last == Min({s.upto + PageSize, Len(history)})
    <3>1. /\ new = [s EXCEPT
                 !.queue = @ \cup (s.upto + 1)..last,
                 !.upto = last, !.next = Len(history),
                 !.at = IF last = Len(history) THEN "reading" ELSE "fetching"]
          /\ s.at = "fetching"
        BY <2>2 DEF Base, TypeOK, FetchPage, Step
    <3> HIDE DEF last
    <3>2. new.rows = s.rows /\ new.at \in {"reading", "fetching"}
        BY <3>1, <1>0 DEF Poll
    <3> QED  BY <3>1, <3>2, <1>0 DEF InRange
  <2>3. CASE Conflict(p) \/ Commit(p) \/ Abort(p)
      BY <2>3, IdleIn DEF Idle
  <2> QED  BY <1>2, <2>1, <2>2, <2>3
<1>3. CASE Baseline(p)
  <2>1. /\ new = [s EXCEPT !.at = "working", !.next = Len(history), !.queue = {},
                           !.gap = (After(s.start) + 1)..Len(history),
                           !.start = NoCursor, !.upto = 0]
        /\ s.at = "fetching"
      BY <1>3 DEF Base, TypeOK, Baseline, Step
  <2>2. new.rows = <<>> /\ new.queue = {}
      BY <2>1, <1>0 DEF Poll, InRange
  <2> QED  BY <2>2 DEF InHand
<1>4. CASE ReadMessages(p)
  <2>1. /\ new = [s EXCEPT !.queue = {i \in @ : Fetchable(i)}, !.candidates = Unanswered,
                           !.at = "working", !.start = NoCursor, !.upto = 0]
        /\ s.at = "reading" /\ UNCHANGED <<outbound, history, inbound>>
      BY <1>4 DEF Base, TypeOK, ReadMessages, Step, mailVars, tables
  <2>2. new.rows = <<>> /\ new.candidates = Unanswered /\ new.at = "working"
      BY <2>1, <1>0 DEF Poll, InRange
  <2>3. new.queue \subseteq Replies
    <3>1. InRange(poll[p])'
        BY PollStepIn
    <3> QED  BY <3>1, <2>1, <2>2 DEF InRange, Replies
  <2>4. \A i \in new.queue : history[i].onTime => Matchable(new, history[i].answers)
      BY <2>2, <2>3, ReadIsMatchable
  <2> HIDE DEF s, new
  <2>5. InHand(new)
      BY <2>2, <2>4 DEF InHand
  <2> QED  BY <2>1, <2>5 DEF InHand, Found, Matchable, Old, new
<1>5. CASE Skip(p) \/ Wait(p)
  <2>1. UNCHANGED <<outbound, history, inbound>> /\ s.at = "working"
      BY <1>5 DEF Skip, Wait, Step, mailVars, tables
  <2>2. /\ new.rows = s.rows /\ new.candidates = s.candidates /\ new.queue \subseteq s.queue
    <3>1. CASE Skip(p)
      <4>1. new = [s EXCEPT !.queue = @ \ {Min(@)}]
          BY <3>1 DEF Base, TypeOK, Skip, Step
      <4>2. new.rows = s.rows /\ new.candidates = s.candidates /\ new.queue = s.queue \ {Min(s.queue)}
          BY <4>1, <1>0 DEF Poll
      <4> QED  BY <4>2
    <3>2. CASE Wait(p)
      <4>1. new = [s EXCEPT !.at = "inserting"]
          BY <3>2 DEF Base, TypeOK, Wait, Step
      <4> QED  BY <4>1, <1>0 DEF Poll
    <3> QED  BY <1>5, <3>1, <3>2
  <2> HIDE DEF s, new
  <2>3. InHand(new)
      BY <2>1, <2>2, <1>0 DEF InHand, Matchable
  <2> QED  BY <2>1, <2>3 DEF InHand, Found, Matchable, Old, new
<1> QED  BY <1>1, <1>2, <1>3, <1>4, <1>5 DEF PollStep, Polls

LEMMA FirstFoundCommit ==
    ASSUME Base, FirstFound, NEW p \in Pollers, Commit(p)
    PROVE  /\ \A k \in DOMAIN inbound' : Found(inbound, k)'
           /\ \A o : MatchedIn(inbound, o) => MatchedIn(inbound', o)
<1> DEFINE s == poll[p]
           n == Len(inbound)
           m == Len(s.rows)
<1>1. /\ n \in Nat /\ m \in Nat /\ DOMAIN inbound = 1..n /\ DOMAIN s.rows = 1..m
      /\ DOMAIN inbound' = 1..(n + m)
      /\ \A k \in 1..n : inbound'[k] = inbound[k]
      /\ \A k \in (n + 1)..(n + m) : inbound'[k] = s.rows[k - n]
    BY CommitRows DEF Base
<1>2. UNCHANGED <<outbound, history>> /\ InHand(s)
    BY DEF Commit, Step, mailVars, FirstFound
<1> HIDE DEF s, n, m
<1>3. \A j \in 1..n : j \in DOMAIN inbound' /\ inbound'[j] = inbound[j]
    BY <1>1
<1>4. \A o : MatchedIn(inbound, o) => MatchedIn(inbound', o)
    BY <1>1, <1>3 DEF MatchedIn
<1>5. ASSUME NEW k \in 1..n
      PROVE  Found(inbound', k)
  <2>1. Found(inbound, k)
      BY <1>1 DEF FirstFound
  <2> QED  BY <2>1, <1>1, <1>3 DEF Found
<1>6. ASSUME NEW k \in 1..m
      PROVE  Found(inbound', n + k)
  <2>1. \A j \in 1..m : n + j \in DOMAIN inbound' /\ inbound'[n + j] = s.rows[j]
    <3>1. ASSUME NEW j \in 1..m
          PROVE  n + j \in DOMAIN inbound' /\ inbound'[n + j] = s.rows[j]
      <4>1. n + j \in (n + 1)..(n + m) /\ (n + j) - n = j
          BY <1>1
      <4> QED  BY <4>1, <1>1
    <3> QED  BY <3>1
  <2>2. inbound'[n + k] = s.rows[k]
      BY <2>1
  <2> DEFINE o == history[s.rows[k].pos].answers
  <2>3. Found(s.rows, k) \/ MatchedIn(inbound, o)
      BY <1>1, <1>2 DEF InHand
  <2>4. MatchedIn(inbound, o) => \E j \in DOMAIN inbound' : j < n + k /\ inbound'[j].matched = o
    <3>1. \A j \in 1..n : j < n + k
        BY <1>1
    <3> QED  BY <3>1, <1>1, <1>3 DEF MatchedIn
  <2>5. ASSUME NEW j \in DOMAIN s.rows, j < k
        PROVE  n + j \in DOMAIN inbound' /\ n + j < n + k /\ inbound'[n + j] = s.rows[j]
      BY <2>1, <2>5, <1>1
  <2> QED  BY <2>2, <2>3, <2>4, <2>5 DEF Found
<1>7. ASSUME NEW k \in DOMAIN inbound'
      PROVE  Found(inbound', k)
  <2>1. CASE k \in 1..n
      BY <2>1, <1>5
  <2>2. CASE k \notin 1..n
    <3>1. k - n \in 1..m /\ n + (k - n) = k
        BY <2>2, <1>1
    <3>2. Found(inbound', n + (k - n))
        BY <3>1, <1>6
    <3> QED  BY <3>1, <3>2
  <2> QED  BY <2>1, <2>2
<1> QED  BY <1>2, <1>4, <1>7 DEF Found, Old

LEMMA FirstFoundStep ==
    ASSUME Base, FirstFound, [Next]_vars
    PROVE  FirstFound'
<1>0. Base' /\ TypeOK'
    BY BaseStep DEF Base
<1>1. CASE World \/ UNCHANGED vars
  <2>1. UNCHANGED <<inbound, poll>> /\ MailGrows
    <3>1. CASE World
        BY <3>1, WorldGrows DEF Base, tables
    <3>2. CASE UNCHANGED vars
      <4>1. UNCHANGED <<inbound, poll, outbound, history, hidden>>
          BY <3>2 DEF vars, tables, mailVars
      <4>2. Len(outbound) \in Nat /\ Len(history) \in Nat
          BY DEF Base, TypeOK
      <4> QED  BY <4>1, <4>2 DEF MailGrows
    <3> QED  BY <1>1, <3>1, <3>2
  <2>2. \A p \in Pollers : InHand(poll[p])'
      BY <2>1, <1>0, InHandStays DEF FirstFound
  <2>3. ASSUME NEW k \in DOMAIN inbound
        PROVE  Found(inbound, k)'
    <3>1. Found(inbound, k) /\ inbound[k].pos \in Replies
        BY DEF FirstFound, Base, Right
    <3>2. inbound[k].pos \in DOMAIN history /\ history[inbound[k].pos] \in Message
        BY <3>1 DEF Base, TypeOK, Replies
    <3>3. history'[inbound[k].pos] = history[inbound[k].pos]
        BY <3>2, <2>1 DEF MailGrows
    <3>4. history[inbound[k].pos].answers \in Nat
        BY <3>2 DEF Message
    <3>5. Old(history[inbound[k].pos].answers) => Old(history[inbound[k].pos].answers)'
        BY <3>3, <3>4, <2>1, <1>0, OldStays DEF Base, Old
    <3> QED  BY <3>1, <3>3, <3>5, <2>1 DEF Found
  <2> QED  BY <2>1, <2>2, <2>3 DEF FirstFound
<1>2. ASSUME NEW p \in Pollers, PollStep(p)
      PROVE  FirstFound'
  <2>1. /\ \A q \in Pollers : q # p => poll'[q] = poll[q]
        /\ UNCHANGED mailVars /\ (Commit(p) \/ UNCHANGED tables)
      BY <1>2, PollStepFrame DEF Base
  <2>2. MailGrows
    <3>1. Len(outbound) \in Nat /\ Len(history) \in Nat
        BY DEF Base, TypeOK
    <3> QED  BY <2>1, <3>1 DEF MailGrows, mailVars
  <2>3. /\ \A k \in DOMAIN inbound' : Found(inbound, k)'
        /\ \A o : MatchedIn(inbound, o) => MatchedIn(inbound', o)
    <3>1. CASE Commit(p)
        BY <3>1, FirstFoundCommit
    <3>2. CASE UNCHANGED tables
        BY <3>2, <2>1 DEF FirstFound, Found, Old, tables, mailVars
    <3> QED  BY <3>1, <3>2, <2>1
  <2>4. InHand(poll[p])'
      BY <1>2, FirstFoundInsert, FirstFoundOther
  <2>5. ASSUME NEW q \in Pollers, q # p
        PROVE  InHand(poll[q])'
      BY <2>1, <2>2, <2>3, <2>5, <1>0, InHandStays DEF FirstFound
  <2> QED  BY <2>3, <2>4, <2>5 DEF FirstFound
<1> QED  BY <1>1, <1>2, NextSteps

\* The first message that is stored of a recipient is matched to the message
\* that it answers, if it came in time and names it, unless as many messages
\* as the list of candidates holds were sent since.
THEOREM FirstIsMatched == Spec => []FirstReplyIsMatched
<1>1. Init => FirstFound
  <2> SUFFICES ASSUME Init
               PROVE  FirstFound
      OBVIOUS
  <2>1. DOMAIN inbound = {} /\ \A p \in Pollers : poll[p] = Idle
      BY DEF Init
  <2>2. InHand(Idle)
      BY DEF InHand, Idle
  <2> QED  BY <2>1, <2>2 DEF FirstFound
<1>2. Base /\ FirstFound /\ [Next]_vars => FirstFound'
    BY FirstFoundStep
<1>3. Base /\ FirstFound => FirstReplyIsMatched
  <2> SUFFICES ASSUME Base, FirstFound, NEW k \in DOMAIN inbound,
                      history[inbound[k].pos].onTime,
                      history[inbound[k].pos].form \in Named,
                      \A j \in 1..(k - 1) : AnswersTo(j) # AnswersTo(k),
                      Len(outbound) - history[inbound[k].pos].answers < CandidateLimit
               PROVE  inbound[k].matched = history[inbound[k].pos].answers
      BY DEF FirstReplyIsMatched, Named
  <2> DEFINE o == history[inbound[k].pos].answers
  <2>1. inbound[k].pos \in Replies /\ Faithful(history[inbound[k].pos])
      BY DEF Base, Right, MailIsFaithful
  <2>2. o \in DOMAIN outbound /\ o # Absent /\ Len(outbound) \in Nat /\ o \in Nat
    <3>1. DOMAIN outbound = 1..Len(outbound) /\ Len(outbound) \in Nat
        BY MailFacts
    <3>2. o \in DOMAIN outbound
        BY <2>1 DEF Faithful
    <3> HIDE DEF o
    <3> QED  BY <3>1, <3>2 DEF Absent
  <2>3. ~Old(o)
      BY <2>2, InboxAssumption DEF Old
  <2>4. ASSUME NEW j \in DOMAIN inbound, j < k, inbound[j].matched = o
        PROVE  FALSE
    <3>1. Right(inbound[j])
        BY DEF Base
    <3>2. AnswersTo(j) = outbound[o].to
        BY <3>1, <2>2, <2>4 DEF Right, AnswersTo
    <3>3. AnswersTo(k) = outbound[o].to
        BY DEF AnswersTo
    <3>4. j \in 1..(k - 1)
      <4>1. inbound \in Seq(Row)
          BY DEF Base, TypeOK
      <4> QED  BY <4>1, <2>4
    <3> QED  BY <3>2, <3>3, <3>4
  <2> QED  BY <2>3, <2>4 DEF FirstFound, Found
<1> QED  BY <1>1, <1>2, <1>3, BaseHolds, PTL DEF Spec

-----------------------------------------------------------------------------
(* Suppressions are justified.                                             *)

\* The evidence in the mailbox for a suppression.
Justified(x) ==
    /\ x.reason = "hard_bounce" => \E i \in About(x.email) :
          history[i].signals \notin {{}, {"auto-submitted"}}
    /\ x.reason = "unsubscribe" /\ "unsubscribe" \notin LlmAnswers => \E i \in About(x.email) :
          "unsubscribe" \in history[i].cues \/ ~history[i].body

AllJustified ==
    /\ \A x \in suppressed : Justified(x)
    /\ \A p \in Pollers : \A x \in poll[p].suppress : Justified(x)

LEMMA JustifiedStays ==
    ASSUME Base, [Next]_vars, NEW x, Justified(x)
    PROVE  Justified(x)'
<1>1. ASSUME NEW i \in About(x.email)
      PROVE  i \in About(x.email)' /\ history'[i] = history[i]
  <2>1. /\ i \in DOMAIN history /\ i \in Replies /\ ~history[i].sent
        /\ history[i].answers \in DOMAIN outbound
        /\ outbound[history[i].answers].to = x.email
      BY DEF About, Replies, Base, MailIsFaithful, Faithful
  <2>2. CASE World
    <3>1. MailGrows
        BY <2>2, WorldGrows DEF Base
    <3> QED  BY <2>1, <3>1 DEF MailGrows, About, Replies
  <2>3. CASE UNCHANGED vars
      BY <2>1, <2>3 DEF vars, mailVars, About, Replies
  <2>4. ASSUME NEW p \in Pollers, PollStep(p)
        PROVE  UNCHANGED mailVars
      BY <2>4, PollStepFrame DEF Base
  <2>5. CASE UNCHANGED mailVars
      BY <2>1, <2>5 DEF mailVars, About, Replies
  <2> QED  BY <2>2, <2>3, <2>4, <2>5, NextSteps
<1> QED  BY <1>1 DEF Justified

\* What follows from a match and its intent is justified by the message.
LEMMA InsertIsJustified ==
    ASSUME Base, NEW p \in Pollers, Insert(p), NEW x \in poll'[p].suppress,
           x \notin poll[p].suppress
    PROVE  Justified(x)
<1>1. PICK i \in poll[p].queue, o \in Nat, intent \in Intents \cup {"none"} :
         Inserts(p, i, o, intent)
    BY InsertStep
<1>2. /\ i \in Replies /\ o = MatchReply(history[i], Candidates(poll[p]))
      /\ intent \in IF o = Absent THEN {"none"} ELSE IntentsOf(history[i])
      /\ poll'[p].suppress = poll[p].suppress
            \cup (IF o = Absent THEN {} ELSE Suppress(i, o, intent))
    BY <1>1 DEF Inserts
<1>3. o # Absent /\ x \in Suppress(i, o, intent)
    BY <1>2
<1>4. outbound[o].to = outbound[history[i].answers].to /\ history[i] \in Message
  <2>1. history[i] \in Message
      BY <1>2 DEF Base, TypeOK, Replies
  <2>2. outbound[o].to = outbound[history[i].answers].to
      BY <1>2, <1>3, MatchIsRight
  <2> QED  BY <2>1, <2>2
<1>5. PICK r \in SuppressionReason(intent) : x = [email |-> outbound[o].to, reason |-> r]
    BY <1>3 DEF Suppress
<1>6. x.email = outbound[o].to /\ x.reason = r
    BY <1>5
<1>7. i \in About(x.email)
    BY <1>2, <1>4, <1>6 DEF About
<1>8. intent \in IntentsOf(history[i])
    BY <1>2, <1>3
<1>9. /\ intent = "bounce" => history[i].signals \notin {{}, {"auto-submitted"}}
      /\ intent = "unsubscribe" /\ "unsubscribe" \notin LlmAnswers
             => "unsubscribe" \in history[i].cues \/ ~history[i].body
    BY <1>4, <1>8, IntentsFound
<1>10. (r = "hard_bounce" => intent = "bounce") /\ (r = "unsubscribe" => intent = "unsubscribe")
    BY DEF SuppressionReason
<1> QED  BY <1>6, <1>7, <1>9, <1>10 DEF Justified

LEMMA AllJustifiedStep ==
    ASSUME Base, AllJustified, [Next]_vars
    PROVE  AllJustified'
<1>0. \A x : Justified(x) => Justified(x)'
    BY JustifiedStays
<1>1. CASE World \/ UNCHANGED vars
  <2>1. UNCHANGED <<suppressed, poll>>
      BY <1>1, WorldGrows DEF Base, tables, vars
  <2> QED  BY <2>1, <1>0 DEF AllJustified
<1>2. ASSUME NEW p \in Pollers, PollStep(p)
      PROVE  AllJustified'
  <2>1. \A q \in Pollers : q # p => poll'[q] = poll[q]
      BY <1>2, PollStepFrame DEF Base
  <2>2. ASSUME NEW x \in poll'[p].suppress
        PROVE  Justified(x)
    <3>1. CASE x \in poll[p].suppress
        BY <3>1 DEF AllJustified
    <3>2. CASE x \notin poll[p].suppress
      <4>1. ~Commit(p)
        <5>1. Idle.suppress = {}
            BY DEF Idle
        <5> QED  BY <5>1, <2>2, IdleIn
      <4>2. Insert(p)
          BY <4>1, <3>2, <2>2, <1>2, OtherSteps
      <4> QED  BY <4>2, <3>2, <2>2, InsertIsJustified
    <3> QED  BY <3>1, <3>2
  <2>3. \A x \in suppressed' : x \in suppressed \/ x \in poll[p].suppress
    <3>1. CASE Commit(p)
        BY <3>1 DEF Commit
    <3>2. CASE UNCHANGED tables
        BY <3>2 DEF tables
    <3> QED  BY <3>1, <3>2, <1>2, PollStepFrame DEF Base
  <2>4. \A x \in suppressed' : Justified(x)
      BY <2>3 DEF AllJustified
  <2>5. ASSUME NEW q \in Pollers, NEW x \in poll'[q].suppress
        PROVE  Justified(x)
      BY <2>1, <2>2, <2>5 DEF AllJustified
  <2> QED  BY <2>4, <2>5, <1>0 DEF AllJustified
<1> QED  BY <1>1, <1>2, NextSteps

\* An address is suppressed on the strength of a message about mail to it: a
\* delivery report, or its owner's or a model's word.
THEOREM SuppressesWithReason == Spec => []SuppressionsAreJustified
<1>1. Init => AllJustified
    BY DEF Init, AllJustified, Idle
<1>2. Base /\ AllJustified /\ [Next]_vars => AllJustified'
    BY AllJustifiedStep
<1>3. AllJustified => SuppressionsAreJustified
    BY DEF AllJustified, Justified, SuppressionsAreJustified
<1> QED  BY <1>1, <1>2, <1>3, BaseHolds, PTL DEF Spec
=============================================================================
