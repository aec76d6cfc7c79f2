--------------------------- MODULE CampaignQueries ---------------------------
(***************************************************************************)
(* What the campaign's GET routes tell: one campaign with its leads, and   *)
(* its metrics.  A report is read by several statements of a READ          *)
(* COMMITTED transaction, each of which sees the tables as they are when   *)
(* it runs.  Here nothing happens between them.                            *)
(***************************************************************************)
EXTENDS CampaignSending, FiniteSetsExt

Known == {l \in Leads : Added(l)}

\* How many leads have a property.
Count(Has(_)) == Cardinality({l \in Known : Has(lead[l])})

-----------------------------------------------------------------------------
\* next_send_at_by_lead: the leads with a job that is pending or running.
HasNextSend ==
    {jobs[j].lead : j \in {k \in DOMAIN jobs : jobs[k].status \in {"pending", "running"}}}

\* How a lead is shown: its row, and whether it has a next_send_at.
LeadResponse(l) == [row |-> lead[l], next |-> l \in HasNextSend]

\* GET /campaigns/{id}
GetCampaign == [status |-> status, leads |-> [l \in Known |-> LeadResponse(l)]]

\* count_by_state: a state that no lead is in is not there.
CountByState ==
    [s \in {lead[l].state : l \in Known} |-> Count(LAMBDA row : row.state = s)]

\* GET /campaigns, of the campaign
ListCampaigns == [status |-> status, lead_counts |-> CountByState]

InProgress == {"pending", "scheduled", "sent"}

\* The leads the list shows as done with, by whatever end.
OutOf(list) ==
    MapThenSumSet(LAMBDA s : list.lead_counts[s], DOMAIN list.lead_counts \ InProgress)

\* The first statement of LeadRepository.stats ...
Totals ==
    [leads       |-> Cardinality(Known),
     contacted   |-> Count(LAMBDA row : row.steps_sent > 0),
     emails_sent |-> Cardinality({p \in Known \X (1..Steps) : p[2] <= lead[p[1]].steps_sent}),
     bounced     |-> Count(LAMBDA row : row.stop_reason = "bounced"),
     in_progress |-> Count(LAMBDA row : row.state \in InProgress),
     completed   |-> Count(LAMBDA row : row.state = "done")]

\* ... and the second.
ReplyCounts == [i \in Intents |-> Count(LAMBDA row : row.reply_intent = i)]

\* Mutant: a delivery report counts as a reply.
AllReplies(counts) == MapThenSumSet(LAMBDA i : counts[i], Intents)

\* What GetCampaignMetricsHandler makes of the second: a bounce is no reply.
Replied(counts) == MapThenSumSet(LAMBDA i : counts[i], Intents \ {"bounce"})

\* GET /campaigns/{id}/metrics
Metrics == [totals |-> Totals, replied |-> Replied(ReplyCounts)]

-----------------------------------------------------------------------------
\* reply_rate and bounce_rate are shares of the leads that were contacted, and
\* no lead counts for both: the columns behind them are written by different
\* transactions, from copies that may be old.  (When two starts overlap, a
\* lead that has replied can count as not contacted.)
RatesAreShares ==
    LET m == Metrics
    IN  m.replied + m.totals.bounced <= m.totals.contacted

\* A reply cancels the follow-up (README, demo path): a stopped lead shows no
\* next send, with one worker that does one thing at a time.  Only a job that
\* a crash left running is shown until its lease has run out.
StoppedShowsNoSend ==
    LET c == GetCampaign
    IN  \A l \in DOMAIN c.leads :
            IsStopped(c.leads[l].row) /\ c.leads[l].next => faults > 0

\* Progress that was reported is not taken back: with one worker that does
\* one thing at a time no count of contacted leads, messages sent, bounces or
\* replies of an intent ever drops, and the list of campaigns never shows fewer
\* leads at their end.  (Only what writes leads can do that.)
CountsNeverDrop ==
    [][lead' # lead =>
         LET before == Totals
             after  == Totals'
         IN  /\ \A f \in {"leads", "contacted", "emails_sent", "bounced"} : after[f] >= before[f]
             /\ \A i \in Intents : ReplyCounts'[i] >= ReplyCounts[i]
             /\ OutOf(ListCampaigns)' >= OutOf(ListCampaigns)]_vars
=============================================================================
