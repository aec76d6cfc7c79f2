--------------------------- MODULE CampaignDomain ---------------------------
(***************************************************************************)
(* The pure rules of the campaign context: the Campaign aggregate          *)
(* (campaign/domain/campaign.py), the lead (lead.py), the retry rule of    *)
(* the send job (send_job.py), and how a lead is written back to its row   *)
(* (persistence/lead_repo.py).                                             *)
(*                                                                         *)
(* A lead is the record of the four columns that the application changes.  *)
(* Its address is its identity (campaign_id, email is unique), so it is    *)
(* not a column here.  Timestamps and ids are left out.                    *)
(***************************************************************************)
EXTENDS Integers

CONSTANTS
    Steps,            \* number of steps of the campaign
    MaxSendAttempts   \* MAX_SEND_ATTEMPTS, 3 in the code

ASSUME DomainAssumption ==
    /\ Steps \in Nat \ {0}             \* Campaign.new refuses a campaign without steps
    /\ MaxSendAttempts \in Nat \ {0}

Null == "null"   \* an empty column

CampaignStatuses == {"draft", "active"}

LeadStates == {"pending", "scheduled", "sent", "paused", "done", "failed"}

StopReasons == {"replied", "unsubscribed", "bounced", "suppressed", "send_failed"}

Intents == {"positive", "negative", "ooo", "unsubscribe", "unclear", "bounce"}

JobStatuses == {"pending", "running", "done", "failed", "cancelled"}

LeadRows == [state        : LeadStates,
             steps_sent   : 0..Steps,
             stop_reason  : StopReasons \cup {Null},
             reply_intent : Intents \cup {Null}]

-----------------------------------------------------------------------------
(* The state machine of a lead.                                            *)

NewLead == [state |-> "pending", steps_sent |-> 0,
            stop_reason |-> Null, reply_intent |-> Null]

IsStopped(row) == row.state \in {"paused", "failed"}

Sendable  == {"scheduled", "sent"}

\* Mutant: a lead that has got its last step is past replies.
StillToSend == {"sent"}

Replyable == {"sent", "done"}

Scheduled(row) == [row EXCEPT !.state = "scheduled"]

\* Mutant: the state of the lead is not looked at.
AcceptsSendAnyState(status, row, position) ==
    status = "active" /\ row.steps_sent = position - 1

AcceptsSend(status, row, position) ==
    /\ status = "active"
    /\ row.state \in Sendable
    /\ row.steps_sent = position - 1

IsLastStep(position) == position = Steps

RecordSent(row, position) ==
    [row EXCEPT !.state = IF IsLastStep(position) THEN "done" ELSE "sent",
                !.steps_sent = position]

\* Mutant: a reply to a stopped lead is recorded as well.
StopsOnEveryReply(row) == IsStopped(row) \/ row.state \in Replyable

\* The LeadTransitionError branch of stop_on_reply and its "already stopped"
\* branch both leave the lead as it is.
StopsOnReply(row) == ~IsStopped(row) /\ row.state \in Replyable

ReplyReason(intent) ==
    CASE intent = "bounce"      -> "bounced"
      [] intent = "unsubscribe" -> "unsubscribed"
      [] OTHER                  -> "replied"

StopOnReply(row, intent) ==
    [row EXCEPT !.state = IF intent = "bounce" THEN "failed" ELSE "paused",
                !.stop_reason = ReplyReason(intent),
                !.reply_intent = intent]

FailLead(row, reason) ==
    [row EXCEPT !.state = "failed", !.stop_reason = reason]

-----------------------------------------------------------------------------
(* Send jobs.                                                              *)

NewJob(l, position) ==
    [lead |-> l, position |-> position, status |-> "pending",
     attempts |-> 0, outbound |-> 0]

\* next_retry_at returns a time, and None after the last attempt.
Retries(attempts) == attempts < MaxSendAttempts

-----------------------------------------------------------------------------
(* LeadRepository.update_many.  The row is read again, its columns are     *)
(* assigned, and the flush writes those that differ from what was read:    *)
(* a column that another transaction changed in between keeps that change  *)
(* unless this transaction changed it too.                                 *)

Written(current, seen, new) ==
    [state        |-> IF new.state # seen.state
                      THEN new.state ELSE current.state,
     steps_sent   |-> IF new.steps_sent # seen.steps_sent
                      THEN new.steps_sent ELSE current.steps_sent,
     stop_reason  |-> IF new.stop_reason # seen.stop_reason
                      THEN new.stop_reason ELSE current.stop_reason,
     reply_intent |-> IF new.reply_intent # seen.reply_intent
                      THEN new.reply_intent ELSE current.reply_intent]

=============================================================================
