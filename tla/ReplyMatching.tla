---------------------------- MODULE ReplyMatching ----------------------------
(***************************************************************************)
(* The pure parts of reply handling: what Gmail's message is reduced to,   *)
(* which outbound message it answers, and what it intends.                 *)
(*                                                                         *)
(* A received message is a record with the fields                          *)
(*   from, inReplyTo, references, thread, subject   what match_reply reads *)
(*   signals    the marks of a delivery report found in headers and parts  *)
(*   body       a text/plain part has text above the quoted text           *)
(*   cues       the keywords of the subject and of the answer's own text   *)
(*   quoted     the keywords of the text it quotes                         *)
(* A Message-ID header is [id, brackets]: clients keep or drop the angle   *)
(* brackets.  A subject is [prefixes, base], the number of Re: and Fwd:    *)
(* before it.  Both are compared in normal form only.                      *)
(***************************************************************************)
EXTENDS Integers, Sequences, FiniteSetsExt

Absent == 0     \* no header, no thread, no match; ids and threads are positive
Empty  == ""    \* the base of an empty subject

Intents == {"positive", "negative", "ooo", "unsubscribe", "unclear", "bounce"}
Cues    == {"positive", "negative", "ooo", "unsubscribe"}
Signals == {"failed-recipients", "daemon", "auto-submitted", "delivery-status"}

-----------------------------------------------------------------------------
\* Mutant: the brackets are compared as well.
MessageIdAsIs(header) == IF header.brackets THEN header.id ELSE Absent

\* _normalize_message_id: brackets, blanks and case do not matter.
MessageId(header) == header.id

\* _reference_ids: the normal forms in header order, blank ones dropped.
ReferenceIds(references) ==
    {k \in DOMAIN references : MessageId(references[k]) # Absent}

\* _normalize_subject: all prefixes are taken off.
NormalSubject(subject) == subject.base

\* The candidates with a key, by their ids.
Ids(candidates) == {c.id : c \in candidates}

WithMessageId(id, candidates) ==
    Ids({c \in candidates : id # Absent /\ MessageId(c.messageId) = id})

InThread(thread, candidates) ==
    Ids({c \in candidates : c.thread # Absent /\ c.thread = thread})

SameSubject(m, candidates) ==
    Ids({c \in candidates :
            /\ NormalSubject(m.subject) # Empty
            /\ NormalSubject(c.subject) = NormalSubject(m.subject)
            /\ c.to = m.from})

\* Mutant: the thread counts for more than the headers.
ThreadFirst(m, candidates) ==
    LET direct  == WithMessageId(MessageId(m.inReplyTo), candidates)
        thread  == InThread(m.thread, candidates)
        subject == SameSubject(m, candidates)
    IN  IF thread # {} THEN Min(thread)
        ELSE IF direct # {} THEN Min(direct)
        ELSE IF subject # {} THEN Max(subject)
        ELSE Absent

\* match_reply.  The candidates are gone through newest first: a dictionary
\* keeps the oldest of several with one key, the scan for the subject stops at
\* the newest.  An id is a candidate's age as well.
MatchReply(m, candidates) ==
    LET direct   == WithMessageId(MessageId(m.inReplyTo), candidates)
        named(k) == WithMessageId(MessageId(m.references[k]), candidates)
        referred == {k \in ReferenceIds(m.references) : named(k) # {}}
        thread   == InThread(m.thread, candidates)
        subject  == SameSubject(m, candidates)
    IN  IF direct # {} THEN Min(direct)
        ELSE IF referred # {} THEN Min(named(Min(referred)))
        ELSE IF thread # {} THEN Min(thread)
        ELSE IF subject # {} THEN Max(subject)
        ELSE Absent

-----------------------------------------------------------------------------
\* What a match rests on, best first; 5 is nothing.
Evidence(m, c) ==
    IF MessageId(c.messageId) = MessageId(m.inReplyTo) THEN 1
    ELSE IF \E i \in DOMAIN m.references :
               MessageId(m.references[i]) = MessageId(c.messageId) THEN 2
    ELSE IF c.thread = m.thread THEN 3
    ELSE IF /\ m.subject.base = c.subject.base
            /\ m.subject.base # Empty
            /\ m.from = c.to THEN 4
    ELSE 5

\* The reference definition of MatchReply: it answers Absent exactly when no
\* candidate has evidence, and otherwise one with the best evidence.
BestEvidence(m, candidates, matched) ==
    LET best == Min({5} \cup {Evidence(m, c) : c \in candidates})
    IN  IF matched = Absent THEN best = 5
        ELSE \E c \in candidates : c.id = matched /\ Evidence(m, c) = best /\ best < 5

-----------------------------------------------------------------------------
\* Mutant: an automatic answer is taken for a delivery report.
AnyAutomaticAnswer(m) ==
    m.signals \cap {"failed-recipients", "daemon", "auto-submitted"} # {}

\* _is_bounce and _has_delivery_status.
IsBounce(m) ==
    \/ m.signals \cap {"failed-recipients", "daemon"} # {}
    \/ {"auto-submitted", "delivery-status"} \subseteq m.signals

\* _extract_body strips the quotes of the first plain part; when nothing is
\* left the poller classifies the snippet, which shows what is quoted as well.
CuesRead(m) == IF m.body THEN m.cues ELSE m.cues \cup m.quoted

RuleOrder == <<"unsubscribe", "ooo", "negative", "positive">>

\* DeterministicIntentClassifier.classify: the first rule with a keyword.
Deterministic(cues) ==
    LET hit == {i \in DOMAIN RuleOrder : RuleOrder[i] \in cues}
    IN  IF hit = {} THEN "unclear" ELSE RuleOrder[Min(hit)]

\* _parse_label: one of the words the prompt offers.
ParseLabel(answer) == answer \in Intents \ {"bounce"}

\* The intents classify can return: the rules', or with an LLM its label,
\* which can be any; an answer that is no label falls back to the rules.
\* answers is what the model can answer, {} when no model is configured.
Classifications(cues, answers) ==
    IF answers = {} THEN {Deterministic(cues)}
    ELSE {IF ParseLabel(a) THEN a ELSE Deterministic(cues) : a \in answers}

\* _SUPPRESSION_REASONS: the intents that suppress the recipient.
SuppressionReason(intent) ==
    CASE intent = "unsubscribe" -> {"unsubscribe"}
      [] intent = "bounce"      -> {"hard_bounce"}
      [] OTHER                  -> {}
=============================================================================
