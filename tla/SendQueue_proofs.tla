-------------------------- MODULE SendQueue_proofs --------------------------
(***************************************************************************)
(* Safety of SendQueue, for every value of its constants.  The invariant   *)
(* is built around the row lock: while a request holds a job's row the job *)
(* is running and due, nobody else holds it, and a message the provider    *)
(* has accepted is accounted for by that request until it commits.         *)
(***************************************************************************)
EXTENDS SendQueue, TLAPS

\* A request that is about a job has one.
JobGiven ==
    \A r \in Slots : request[r].phase \in {"received", "holding", "accepted"}
        => request[r].job \in Jobs

\* FOR UPDATE: one transaction per row, and only while the job is running.
OneHolder ==
    \A r, q \in Slots : InTransaction(r) /\ InTransaction(q)
                            /\ request[r].job = request[q].job => r = q

HeldRuns == \A r \in Slots : InTransaction(r) => status[request[r].job] = "running"

\* Only a job that is due gets to run.
RunsWhenDue == \A j \in Jobs : status[j] = "running" => due[j] <= 0

\* An attempt is counted when a job is claimed, so before it can fail, and a
\* deferral takes back no more than that.
Accounted(j) ==
    /\ failures[j] <= MaxSendAttempts
    /\ status[j] = "pending" =>
          failures[j] < MaxSendAttempts /\ failures[j] <= attempts[j]
    /\ status[j] = "running" =>
          failures[j] < MaxSendAttempts /\ failures[j] < attempts[j]

FailuresAccounted == \A j \in Jobs : Accounted(j)

Accepted(j) == \E r \in Slots : request[r].phase = "accepted" /\ request[r].job = j

\* Beyond the one that is, or will be, recorded as sent, every message the
\* provider accepted has cost a fault.
Charged(j) ==
    /\ delivered[j] <= 1 + faults
    /\ status[j] # "done" /\ ~Accepted(j) => delivered[j] <= faults

DeliveriesCharged == \A j \in Jobs : Charged(j)

IInv ==
    /\ TypeOK /\ JobGiven /\ OneHolder /\ HeldRuns
    /\ RunsWhenDue /\ FailuresAccounted /\ DeliveriesCharged

-----------------------------------------------------------------------------
(* The operators the actions are built from.                               *)

LEMMA MinOfTwo == ASSUME NEW a \in Int, NEW b \in Int
                  PROVE  Min({a, b}) = IF a <= b THEN a ELSE b
BY DEF Min

LEMMA MaxOfTwo == ASSUME NEW a \in Int, NEW b \in Int
                  PROVE  Max({a, b}) = IF a >= b THEN a ELSE b
BY DEF Max

\* A request that is let in has a workspace.
LEMMA LetInHasWorkspace ==
    /\ \A s \in Senders : InternalAnswer(Keys, SenderRequest(s)).code = 200
          => InternalAnswer(Keys, SenderRequest(s)).workspace \in Workspaces
    /\ \A u \in Users : UserAnswer(Keys, u).code = 200
          => UserAnswer(Keys, u).workspace \in Workspaces
<1>1. \A bearer : Resolve(Keys, bearer) \subseteq Workspaces
    BY QueueAssumption DEF Resolve, ApiKey
<1>2. ASSUME NEW q, q.header \in Workspaces \cup {None, Malformed}
      PROVE  UserAnswer(Keys, q).code = 200 => UserAnswer(Keys, q).workspace \in Workspaces
    <2> DEFINE ws == CHOOSE w \in Resolve(Keys, q.bearer) : TRUE
    <2>1. Resolve(Keys, q.bearer) # {} => ws \in Workspaces
        BY <1>1
    <2> HIDE DEF ws
    <2>2. WorkspaceOf(Keys, q) \in
              {Reject(401), Reject(400), Pass(None)} \cup {Pass(w) : w \in Workspaces}
        <3>1. CASE q.bearer # None
            <4>1. WorkspaceOf(Keys, q) =
                      IF Resolve(Keys, q.bearer) = {} THEN Reject(401) ELSE Pass(ws)
                BY <3>1 DEF WorkspaceOf, ws
            <4>2. QED
                BY <2>1, <4>1
        <3>2. CASE q.bearer = None /\ q.header = None
            BY <3>2 DEF WorkspaceOf
        <3>3. CASE q.bearer = None /\ q.header # None
            <4>1. WorkspaceOf(Keys, q) =
                      IF Production THEN Reject(401)
                      ELSE IF q.header = Malformed THEN Reject(400) ELSE Pass(q.header)
                BY <3>3, ScopeAssumption DEF WorkspaceOf
            <4>2. q.header \in Workspaces \/ q.header = Malformed
                BY <1>2, <3>3
            <4>3. QED
                BY <4>1, <4>2
        <3>4. QED
            BY <3>1, <3>2, <3>3
    <2>3. QED
        BY <2>2 DEF UserAnswer, Reject, Pass
<1>3. ASSUME NEW u \in Users
      PROVE  UserAnswer(Keys, u).code = 200 => UserAnswer(Keys, u).workspace \in Workspaces
    <2>1. u.header \in Workspaces \cup {None, Malformed}
        BY QueueAssumption
    <2>2. QED
        BY <1>2, <2>1
<1>4. ASSUME NEW s \in Senders, InternalAnswer(Keys, SenderRequest(s)).code = 200
      PROVE  InternalAnswer(Keys, SenderRequest(s)).workspace \in Workspaces
    <2> DEFINE q == SenderRequest(s)
    <2>1. q.header \in Workspaces \cup {None, Malformed}
        BY QueueAssumption DEF SenderRequest
    <2>2. UserAnswer(Keys, q).code = 200 => UserAnswer(Keys, q).workspace \in Workspaces
        BY <1>2, <2>1
    <2> HIDE DEF q
    <2>3. InternalAnswer(Keys, q).code = 200
        BY <1>4 DEF q
    <2>4. InternalAnswer(Keys, q) = UserAnswer(Keys, q)
        BY <2>3 DEF InternalAnswer, Reject
    <2>5. QED
        BY <2>2, <2>3, <2>4 DEF q
<1>5. QED
    BY <1>3, <1>4

LEMMA Records ==
    /\ Resting \in Sender /\ Free \in Request
    /\ \A s \in Senders : sender \in [Senders -> Sender] => NextJob(s) \in Sender
<1>1. HttpTimeout \in Nat
    BY QueueAssumption
<1>2. Resting \in Sender
    BY <1>1 DEF Resting, Sender
<1>3. Free \in Request
    BY DEF Free, Request
<1>4. ASSUME NEW s \in Senders, sender \in [Senders -> Sender]
      PROVE  NextJob(s) \in Sender
    <2>1. 0 \in 0..HttpTimeout
        BY <1>1
    <2>2. \A x \in Sender : [x EXCEPT !.call = None, !.waited = 0] \in Sender
        BY <2>1 DEF Sender
    <2>3. QED
        BY <1>4, <2>2 DEF NextJob
<1>5. QED
    BY <1>2, <1>3, <1>4

-----------------------------------------------------------------------------
(* The type invariant.                                                     *)

LEMMA TypeInit == Init => TypeOK
<1>1. /\ MaxLate \in Nat /\ MaxDelay \in Nat /\ MaxCount \in Nat /\ Lease \in Nat
      /\ MaxDeferrals \in Nat /\ MaxFaults \in Nat
    BY QueueAssumption DEF MaxDelay, MaxCount
<1>2. /\ 0 \in -MaxLate..MaxDelay /\ 0 \in 0..MaxCount /\ 0 \in 0..(Lease + 1)
      /\ 0 \in 0..MaxDeferrals /\ 0 \in 0..MaxFaults
    BY <1>1
<1>3. ASSUME Init
      PROVE  /\ status \in [Jobs -> {"pending", "running", "done", "failed", "cancelled"}]
             /\ attempts \in [Jobs -> 0..MaxCount]
             /\ due \in [Jobs -> -MaxLate..MaxDelay]
             /\ age \in [Jobs -> 0..(Lease + 1)]
    BY <1>2, <1>3 DEF Init
<1>4. ASSUME Init
      PROVE  sender \in [Senders -> Sender] /\ request \in [Slots -> Request]
    BY <1>4, Records DEF Init
<1>5. ASSUME Init
      PROVE  setting \in [Slots -> Settings]
    BY <1>5 DEF Init, Settings
<1>6. ASSUME Init
      PROVE  /\ delivered \in [Jobs -> Nat] /\ failures \in [Jobs -> Nat]
             /\ deferrals \in 0..MaxDeferrals /\ faults \in 0..MaxFaults
    BY <1>2, <1>6 DEF Init
<1>7. QED
    BY <1>3, <1>4, <1>5, <1>6 DEF TypeOK

\* A slot's transaction ends and its caller goes on.
LEMMA AnsweredTyped ==
    ASSUME TypeOK, NEW r \in Slots
    PROVE  /\ Answered(r) \in [Senders -> Sender]
           /\ Release(r) => request' \in [Slots -> Request] /\ setting' \in [Slots -> Settings]
BY Records DEF TypeOK, Answered, Release, SettingAfter, Settings

LEMMA OrphanedTyped ==
    ASSUME TypeOK, NEW s \in Senders
    PROVE  Orphaned(s) \in [Slots -> Request]
BY DEF TypeOK, Orphaned, Request

LEMMA TypeClaim ==
    ASSUME TypeOK, NEW s \in Senders, Claim(s)
    PROVE  TypeOK'
<1>1. PICK B \in Batches({j \in Jobs : Claimable(s, j)}) :
          /\ status' = [j \in Jobs |-> IF j \in B THEN "running" ELSE status[j]]
          /\ attempts' = [j \in Jobs |->
                IF j \in B THEN Min({attempts[j] + 1, MaxCount}) ELSE attempts[j]]
          /\ age' = [j \in Jobs |-> IF j \in B THEN 0 ELSE age[j]]
          /\ sender' = [sender EXCEPT ![s].batch = B \ Unreadable]
    BY DEF Claim
<1>2. B \subseteq Jobs
    BY DEF Batches
<1>3. MaxCount \in Nat
    BY QueueAssumption DEF MaxCount
<1>4. attempts' \in [Jobs -> 0..MaxCount]
    <2>1. \A j \in Jobs : Min({attempts[j] + 1, MaxCount}) \in 0..MaxCount
        <3> SUFFICES ASSUME NEW j \in Jobs
                     PROVE  Min({attempts[j] + 1, MaxCount}) \in 0..MaxCount
            OBVIOUS
        <3>1. attempts[j] \in 0..MaxCount
            BY DEF TypeOK
        <3>2. Min({attempts[j] + 1, MaxCount}) =
                  IF attempts[j] + 1 <= MaxCount THEN attempts[j] + 1 ELSE MaxCount
            BY <1>3, <3>1, MinOfTwo
        <3>3. QED
            BY <1>3, <3>1, <3>2
    <2>2. QED
        BY <1>1, <2>1 DEF TypeOK
<1>5. sender' \in [Senders -> Sender]
    BY <1>1, <1>2 DEF TypeOK, Sender
<1>6. status' \in [Jobs -> {"pending", "running", "done", "failed", "cancelled"}]
    BY <1>1 DEF TypeOK
<1>7. age' \in [Jobs -> 0..(Lease + 1)]
    BY <1>1, QueueAssumption DEF TypeOK
<1>8. UNCHANGED <<due, request, setting, delivered, failures, deferrals, faults>>
    BY DEF Claim, api, past
<1>9. QED
    BY <1>4, <1>5, <1>6, <1>7, <1>8 DEF TypeOK

LEMMA TypeDrains ==
    ASSUME TypeOK, NEW s \in Senders, Drains(s)
    PROVE  TypeOK'
<1>1. CASE Claim(s)
    BY <1>1, TypeClaim
<1>2. ASSUME NEW j \in Jobs, Call(s, j)
      PROVE  TypeOK'
    <2>1. PICK r \in Slots :
              request' = [request EXCEPT ![r] = [Free EXCEPT
                  !.phase = "received", !.job = j, !.caller = s,
                  !.workspace = InternalAnswer(Keys, SenderRequest(s)).workspace]]
        BY <1>2 DEF Call
    <2>2. request' \in [Slots -> Request]
        BY <1>2, <2>1, LetInHasWorkspace DEF Call, TypeOK, Request, Free
    <2>3. sender' \in [Senders -> Sender]
        <3> DEFINE new == [sender[s] EXCEPT !.batch = @ \ {j}, !.call = j]
        <3>1. sender[s] \in Sender
            BY DEF TypeOK
        <3>2. new \in Sender
            BY <3>1 DEF Sender
        <3>3. sender' = [sender EXCEPT ![s] = new]
            BY <1>2 DEF Call, SenderOnly
        <3> HIDE DEF new
        <3>4. QED
            BY <3>2, <3>3 DEF TypeOK
    <2>4. UNCHANGED <<row, setting, past, deferrals, faults>>
        BY <1>2 DEF Call, SenderOnly
    <2>5. QED
        BY <2>2, <2>3, <2>4 DEF TypeOK, row, past
<1>3. ASSUME NEW j \in Jobs, CallRefused(s, j)
      PROVE  TypeOK'
    BY <1>3 DEF CallRefused, SenderOnly, TypeOK, Sender, row, past
<1>4. CASE GiveUp(s)
    BY <1>4, OrphanedTyped, Records DEF GiveUp, SenderOnly, TypeOK, row, past
<1>5. CASE Restart(s)
    BY <1>5, OrphanedTyped, Records, QueueAssumption
       DEF Restart, Fault, SenderOnly, TypeOK, row, past
<1>6. QED
    BY <1>1, <1>2, <1>3, <1>4, <1>5 DEF Drains

\* What the outcomes of a send have in common.
LEMMA TypeSettle ==
    ASSUME TypeOK, NEW r \in Slots, request[r].job \in Jobs,
           NEW new \in {"pending", "done", "failed", "cancelled"}, Settle(r, new)
    PROVE  /\ status' \in [Jobs -> {"pending", "running", "done", "failed", "cancelled"}]
           /\ age' \in [Jobs -> 0..(Lease + 1)]
           /\ sender' \in [Senders -> Sender]
           /\ request' \in [Slots -> Request] /\ setting' \in [Slots -> Settings]
BY AnsweredTyped DEF Settle, TypeOK

LEMMA TypeFail ==
    ASSUME TypeOK, NEW r \in Slots, request[r].job \in Jobs, Fail(r)
    PROVE  /\ status' \in [Jobs -> {"pending", "running", "done", "failed", "cancelled"}]
           /\ attempts' \in [Jobs -> 0..MaxCount] /\ due' \in [Jobs -> -MaxLate..MaxDelay]
           /\ age' \in [Jobs -> 0..(Lease + 1)]
           /\ sender' \in [Senders -> Sender]
           /\ request' \in [Slots -> Request] /\ setting' \in [Slots -> Settings]
           /\ failures' \in [Jobs -> Nat] /\ deferrals' \in 0..MaxDeferrals
<1> DEFINE j == request[r].job
           new == IF Retries(j) THEN "pending" ELSE "failed"
<1>1. Settle(r, new)
    BY DEF Fail
<1>2. new \in {"pending", "done", "failed", "cancelled"}
    OBVIOUS
<1>3. PICK delay \in 0..attempts[j] :
          due' = IF Retries(j) THEN [due EXCEPT ![j] = delay] ELSE due
    BY DEF Fail
<1>4. Retries(j) => delay \in -MaxLate..MaxDelay
    <2>1. attempts[j] \in Nat /\ MaxLate \in Nat /\ MaxSendAttempts \in Nat
        BY QueueAssumption DEF TypeOK
    <2>2. QED
        BY <2>1 DEF Retries, MaxDelay
<1>5. due' \in [Jobs -> -MaxLate..MaxDelay]
    BY <1>3, <1>4 DEF TypeOK
<1>6. /\ attempts' = attempts /\ deferrals' = deferrals
      /\ failures' = [failures EXCEPT ![j] = @ + 1]
    BY DEF Fail
<1>7. failures' \in [Jobs -> Nat]
    BY <1>6 DEF TypeOK
<1> HIDE DEF new
<1>8. QED
    BY <1>1, <1>2, <1>5, <1>6, <1>7, TypeSettle DEF TypeOK

LEMMA TypeServes ==
    ASSUME TypeOK, JobGiven, HeldRuns, FailuresAccounted, NEW r \in Slots, Serves(r)
    PROVE  TypeOK'
<1>1. CASE Lock(r)
    <2>1. request[r] \in Request /\ request[r].workspace \in Settings
        BY <1>1 DEF Lock, Finds, Visible, ScopeOf, TypeOK, Settings
    <2>2. request' \in [Slots -> Request]
        BY <1>1, <2>1 DEF Lock, TypeOK, Request
    <2>3. QED
        BY <1>1, <2>1, <2>2 DEF Lock, TypeOK, row, past
<1>2. CASE NotClaimed(r)
    BY <1>2, AnsweredTyped DEF NotClaimed, TypeOK, row, past
<1>3. CASE ProviderAccepts(r)
    <2>1. request[r] \in Request /\ request[r].job \in Jobs
        BY <1>3 DEF ProviderAccepts, TypeOK, JobGiven
    <2>2. request' \in [Slots -> Request]
        BY <1>3, <2>1 DEF ProviderAccepts, TypeOK, Request
    <2>3. delivered' \in [Jobs -> Nat]
        BY <1>3, <2>1 DEF ProviderAccepts, TypeOK
    <2>4. QED
        BY <1>3, <2>2, <2>3, AnsweredTyped DEF ProviderAccepts, TypeOK, row, past
<1>4. CASE CommitSent(r)
    BY <1>4, AnsweredTyped DEF CommitSent, TypeOK, JobGiven, row, past
<1>5. ASSUME request[r].phase = "holding"
      PROVE  request[r].job \in Jobs /\ status[request[r].job] = "running"
    BY <1>5 DEF JobGiven, HeldRuns, InTransaction
<1>6. CASE Cancel(r)
    <2>1. Settle(r, "cancelled") /\ UNCHANGED <<attempts, due, past, deferrals, faults>>
        BY <1>6 DEF Cancel
    <2>2. request[r].job \in Jobs
        BY <1>5, <2>1 DEF Settle
    <2>3. QED
        BY <2>1, <2>2, TypeSettle DEF TypeOK, past
<1>7. CASE Defer(r)
    <2>1. Settle(r, "pending")
        BY <1>7 DEF Defer
    <2>2. request[r].job \in Jobs /\ status[request[r].job] = "running"
        BY <1>5, <2>1 DEF Settle
    <2>3. attempts' \in [Jobs -> 0..MaxCount]
        <3>1. /\ attempts[request[r].job] \in 0..MaxCount
              /\ failures[request[r].job] \in Nat
              /\ failures[request[r].job] < attempts[request[r].job]
            BY <2>2 DEF TypeOK, FailuresAccounted, Accounted
        <3>2. MaxCount \in Nat
            BY QueueAssumption DEF MaxCount
        <3>3. attempts[request[r].job] - 1 \in 0..MaxCount
            BY <3>1, <3>2
        <3>4. QED
            BY <1>7, <2>2, <3>3 DEF Defer, TypeOK
    <2>4. due' \in [Jobs -> -MaxLate..MaxDelay]
        <3>1. 0 \in -MaxLate..MaxDelay /\ MaxDelay \in -MaxLate..MaxDelay
            BY QueueAssumption DEF MaxDelay
        <3>2. QED
            BY <1>7, <2>2, <3>1 DEF Defer, TypeOK
    <2>5. deferrals' \in 0..MaxDeferrals /\ UNCHANGED <<past, faults>>
        BY <1>7, QueueAssumption DEF Defer, TypeOK
    <2>6. QED
        BY <2>1, <2>2, <2>3, <2>4, <2>5, TypeSettle DEF TypeOK, past
<1>8. CASE DispatchFails(r)
    <2>1. Fail(r) /\ UNCHANGED <<delivered, faults>>
        BY <1>8 DEF DispatchFails
    <2>2. request[r].job \in Jobs
        BY <1>5, <2>1 DEF Fail, Settle
    <2>3. QED
        BY <2>1, <2>2, TypeFail DEF TypeOK
<1>9. CASE AnswerLost(r)
    <2>1. Fail(r) /\ faults' \in 0..MaxFaults
        BY <1>9, QueueAssumption DEF AnswerLost, Fault, TypeOK
    <2>2. request[r].job \in Jobs
        BY <1>5, <2>1 DEF Fail, Settle
    <2>3. delivered' \in [Jobs -> Nat]
        BY <1>9, <2>2 DEF AnswerLost, TypeOK
    <2>4. QED
        BY <2>1, <2>2, <2>3, TypeFail DEF TypeOK
<1>10. CASE EndRead(r)
    BY <1>10, AnsweredTyped DEF EndRead, TypeOK, row, past
<1>11. QED
    BY <1>1, <1>2, <1>3, <1>4, <1>6, <1>7, <1>8, <1>9, <1>10 DEF Serves

LEMMA TypeRollBack ==
    ASSUME TypeOK, NEW R \in SUBSET Slots, RollBack(R)
    PROVE  TypeOK'
<1>1. request' \in [Slots -> Request] /\ sender' \in [Senders -> Sender]
    BY Records DEF RollBack, TypeOK
<1>2. setting' \in [Slots -> Settings]
    BY DEF RollBack, TypeOK, SettingAfter, Settings
<1>3. faults' \in 0..MaxFaults
    BY QueueAssumption DEF RollBack, Fault, TypeOK
<1>4. QED
    BY <1>1, <1>2, <1>3 DEF RollBack, TypeOK, row, past

LEMMA TypeBeginRead ==
    ASSUME TypeOK, NEW r \in Slots, NEW user \in Users, BeginRead(r, user)
    PROVE  TypeOK'
<1>1. UserAnswer(Keys, user).workspace \in Workspaces
    BY LetInHasWorkspace DEF BeginRead
<1>2. request' \in [Slots -> Request]
    BY <1>1 DEF BeginRead, TypeOK, Request, Free
<1>3. setting' \in [Slots -> Settings]
    BY <1>1 DEF BeginRead, TypeOK, Settings
<1>4. QED
    BY <1>2, <1>3 DEF BeginRead, TypeOK, row, past

LEMMA TypeTick ==
    ASSUME TypeOK, Tick
    PROVE  TypeOK'
<1>1. /\ MaxLate \in Nat /\ MaxDelay \in Nat /\ Lease \in Nat /\ HttpTimeout \in Nat
    BY QueueAssumption DEF MaxDelay
<1>2. due' \in [Jobs -> -MaxLate..MaxDelay]
    <2>1. ASSUME NEW j \in Jobs
          PROVE  Max({due[j] - 1, -MaxLate}) \in -MaxLate..MaxDelay
        <3>1. due[j] \in -MaxLate..MaxDelay
            BY DEF TypeOK
        <3>2. Max({due[j] - 1, -MaxLate}) =
                  IF due[j] - 1 >= -MaxLate THEN due[j] - 1 ELSE -MaxLate
            BY <1>1, <3>1, MaxOfTwo
        <3>3. QED
            BY <1>1, <3>1, <3>2
    <2>2. QED
        BY <2>1 DEF Tick
<1>3. age' \in [Jobs -> 0..(Lease + 1)]
    <2>1. ASSUME NEW j \in Jobs
          PROVE  Min({age[j] + 1, Lease + 1}) \in 0..(Lease + 1)
        <3>1. age[j] \in 0..(Lease + 1)
            BY DEF TypeOK
        <3>2. Min({age[j] + 1, Lease + 1}) =
                  IF age[j] + 1 <= Lease + 1 THEN age[j] + 1 ELSE Lease + 1
            BY <1>1, <3>1, MinOfTwo
        <3>3. QED
            BY <1>1, <3>1, <3>2
    <2>2. 0 \in 0..(Lease + 1)
        BY <1>1
    <2>3. QED
        BY <2>1, <2>2 DEF Tick
<1>4. sender' \in [Senders -> Sender]
    <2>1. ASSUME NEW s \in Senders, sender[s].call # None
          PROVE  [sender[s] EXCEPT !.waited = @ + 1] \in Sender
        <3>1. sender[s] \in Sender /\ sender[s].waited < HttpTimeout
            BY <2>1 DEF TypeOK, Tick
        <3>2. \A x \in Sender : x.waited < HttpTimeout => [x EXCEPT !.waited = @ + 1] \in Sender
            <4>1. \A n \in 0..HttpTimeout : n < HttpTimeout => n + 1 \in 0..HttpTimeout
                BY <1>1
            <4>2. QED
                BY <4>1 DEF Sender
        <3>3. QED
            BY <3>1, <3>2
    <2>2. QED
        BY <2>1 DEF Tick, TypeOK
<1>5. UNCHANGED <<status, attempts, request, setting, delivered, failures, deferrals, faults>>
    BY DEF Tick, api, past
<1>6. QED
    BY <1>2, <1>3, <1>4, <1>5 DEF TypeOK

LEMMA TypeStep == IInv /\ [Next]_vars => TypeOK'
<1> SUFFICES ASSUME IInv, [Next]_vars
             PROVE  TypeOK'
    OBVIOUS
<1> USE DEF IInv
<1>1. ASSUME NEW s \in Senders, Drains(s)
      PROVE  TypeOK'
    BY <1>1, TypeDrains
<1>2. ASSUME NEW r \in Slots, Serves(r)
      PROVE  TypeOK'
    BY <1>2, TypeServes
<1>3. ASSUME NEW R \in SUBSET Slots, RollBack(R)
      PROVE  TypeOK'
    BY <1>3, TypeRollBack
<1>4. ASSUME NEW r \in Slots, NEW user \in Users, BeginRead(r, user)
      PROVE  TypeOK'
    BY <1>4, TypeBeginRead
<1>5. CASE Tick
    BY <1>5, TypeTick
<1>6. CASE UNCHANGED vars
    BY <1>6 DEF vars, row, api, past, TypeOK
<1>7. QED
    BY <1>1, <1>2, <1>3, <1>4, <1>5, <1>6 DEF Next

-----------------------------------------------------------------------------
(* The rest of the invariant.                                              *)

\* A slot keeps its phase and its job, or comes to hold no row.
Kept(r) == request'[r].phase = request[r].phase /\ request'[r].job = request[r].job

Idle(r) ==
    /\ request'[r].phase \in {"free", "received", "reading"}
    /\ request'[r].phase = "received" => request'[r].job \in Jobs

\* Steps that change no job: rows may be let go, but never one whose message
\* has been accepted, unless that is charged as a fault.
LEMMA JobsUnchanged ==
    ASSUME IInv, TypeOK', UNCHANGED <<row, past>>,
           \A r \in Slots : Kept(r) \/ Idle(r),
           \/ faults' = faults /\ \A r \in Slots : request[r].phase = "accepted" => Kept(r)
           \/ faults' = faults + 1
    PROVE  IInv'
<1> USE DEF IInv
<1>1. JobGiven'
    BY DEF JobGiven, Kept, Idle
<1>2. OneHolder'
    BY DEF OneHolder, InTransaction, Kept, Idle
<1>3. HeldRuns'
    BY DEF HeldRuns, InTransaction, Kept, Idle, row
<1>4. RunsWhenDue' /\ FailuresAccounted'
    BY DEF RunsWhenDue, FailuresAccounted, Accounted, row, past
<1>5. DeliveriesCharged'
    <2> SUFFICES ASSUME NEW j \in Jobs
                 PROVE  Charged(j)'
        BY DEF DeliveriesCharged
    <2>1. /\ Charged(j) /\ status'[j] = status[j] /\ delivered'[j] = delivered[j]
          /\ delivered[j] \in Nat /\ faults \in Nat
        BY QueueAssumption DEF DeliveriesCharged, row, past, TypeOK
    <2>2. CASE faults' = faults /\ \A r \in Slots : request[r].phase = "accepted" => Kept(r)
        <3>1. Accepted(j) => Accepted(j)'
            BY <2>2 DEF Accepted, Kept
        <3>2. QED
            BY <2>1, <2>2, <3>1 DEF Charged
    <2>3. CASE faults' = faults + 1
        BY <2>1, <2>3 DEF Charged
    <2>4. QED
        BY <2>2, <2>3
<1>6. QED
    BY <1>1, <1>2, <1>3, <1>4, <1>5

\* A claim passes over the rows that are held.
LEMMA ClaimStep ==
    ASSUME IInv, TypeOK', NEW s \in Senders, Claim(s)
    PROVE  IInv'
<1> USE DEF IInv
<1>1. PICK B \in Batches({j \in Jobs : Claimable(s, j)}) :
          /\ status' = [j \in Jobs |-> IF j \in B THEN "running" ELSE status[j]]
          /\ attempts' = [j \in Jobs |->
                IF j \in B THEN Min({attempts[j] + 1, MaxCount}) ELSE attempts[j]]
    BY DEF Claim
<1>2. UNCHANGED <<due, request, delivered, failures, faults>>
    BY DEF Claim, api, past
<1>3. ASSUME NEW j \in B
      PROVE  /\ j \in Jobs /\ ~RowLocked(j)
             /\ (status[j] = "pending" /\ due[j] <= 0) \/ status[j] = "running"
    BY DEF Batches, Claimable
<1>4. JobGiven' /\ OneHolder'
    BY <1>2 DEF JobGiven, OneHolder, InTransaction
<1>5. HeldRuns'
    BY <1>1, <1>2 DEF HeldRuns, InTransaction, JobGiven
<1>6. RunsWhenDue'
    BY <1>1, <1>2, <1>3 DEF RunsWhenDue
<1>7. FailuresAccounted'
    <2> SUFFICES ASSUME NEW j \in Jobs
                 PROVE  Accounted(j)'
        BY DEF FailuresAccounted
    <2>1. Accounted(j) /\ failures'[j] = failures[j]
        BY <1>2 DEF FailuresAccounted
    <2>2. CASE j \notin B
        BY <1>1, <2>1, <2>2 DEF Accounted
    <2>3. CASE j \in B
        <3>1. /\ attempts[j] \in Nat /\ failures[j] \in Nat
              /\ MaxCount \in Nat /\ MaxSendAttempts \in Nat /\ MaxSendAttempts <= MaxCount
            BY QueueAssumption DEF TypeOK, MaxCount
        <3>2. attempts'[j] = IF attempts[j] + 1 <= MaxCount THEN attempts[j] + 1 ELSE MaxCount
            <4>1. attempts[j] + 1 \in Int /\ MaxCount \in Int
                BY <3>1
            <4>2. attempts'[j] = Min({attempts[j] + 1, MaxCount})
                BY <1>1, <2>3
            <4>3. QED
                BY <4>1, <4>2, MinOfTwo
        <3>3. status'[j] = "running"
            BY <1>1, <2>3
        <3>4. failures[j] < MaxSendAttempts /\ failures[j] <= attempts[j]
            BY <1>3, <2>1, <2>3, <3>1 DEF Accounted
        <3>5. QED
            BY <2>1, <3>1, <3>2, <3>3, <3>4 DEF Accounted
    <2>4. QED
        BY <2>2, <2>3
<1>8. DeliveriesCharged'
    <2> SUFFICES ASSUME NEW j \in Jobs
                 PROVE  Charged(j)'
        BY DEF DeliveriesCharged
    <2>1. Charged(j) /\ delivered'[j] = delivered[j] /\ faults' = faults
        BY <1>2 DEF DeliveriesCharged
    <2>2. status'[j] # "done" => status[j] # "done"
        BY <1>1, <1>3
    <2>3. Accepted(j)' = Accepted(j)
        BY <1>2 DEF Accepted
    <2>4. QED
        BY <2>1, <2>2, <2>3 DEF Charged
<1>9. QED
    BY <1>4, <1>5, <1>6, <1>7, <1>8

LEMMA TickStep ==
    ASSUME IInv, TypeOK', Tick
    PROVE  IInv'
<1> USE DEF IInv
<1>1. UNCHANGED <<status, attempts, request, delivered, failures, faults>>
    BY DEF Tick, api, past
<1>2. JobGiven' /\ OneHolder' /\ HeldRuns'
    BY <1>1 DEF JobGiven, OneHolder, HeldRuns, InTransaction
<1>3. RunsWhenDue'
    <2> SUFFICES ASSUME NEW j \in Jobs, status[j] = "running"
                 PROVE  due'[j] <= 0
        BY <1>1 DEF RunsWhenDue
    <2>1. due[j] \in Int /\ due[j] <= 0 /\ MaxLate \in Nat
        BY QueueAssumption DEF TypeOK, RunsWhenDue
    <2>2. due'[j] = IF due[j] - 1 >= -MaxLate THEN due[j] - 1 ELSE -MaxLate
        <3>1. due[j] - 1 \in Int /\ -MaxLate \in Int
            BY <2>1
        <3>2. due'[j] = Max({due[j] - 1, -MaxLate})
            BY DEF Tick
        <3>3. QED
            BY <3>1, <3>2, MaxOfTwo
    <2>3. QED
        BY <2>1, <2>2
<1>4. FailuresAccounted' /\ DeliveriesCharged'
    BY <1>1 DEF FailuresAccounted, Accounted, DeliveriesCharged, Charged, Accepted
<1>5. QED
    BY <1>2, <1>3, <1>4

\* The lock is granted: the row is running, and free.
LEMMA LockStep ==
    ASSUME IInv, TypeOK', NEW r \in Slots, Lock(r)
    PROVE  IInv'
<1> USE DEF IInv
<1>1. /\ request[r].phase = "received" /\ request[r].job \in Jobs
      /\ request' = [request EXCEPT ![r].phase = "holding"]
      /\ ~RowLocked(request[r].job) /\ status[request[r].job] = "running"
      /\ UNCHANGED <<status, attempts, due, delivered, failures, faults>>
    BY DEF Lock, Finds, JobGiven, row, past
<1>2. /\ request'[r].phase = "holding" /\ request'[r].job = request[r].job
      /\ \A q \in Slots : q # r => request'[q] = request[q]
    BY <1>1 DEF TypeOK, Request
<1>3. JobGiven'
    BY <1>1, <1>2 DEF JobGiven
<1>4. OneHolder'
    BY <1>1, <1>2 DEF OneHolder, InTransaction, RowLocked
<1>5. HeldRuns'
    BY <1>1, <1>2 DEF HeldRuns, InTransaction
<1>6. RunsWhenDue' /\ FailuresAccounted'
    BY <1>1 DEF RunsWhenDue, FailuresAccounted, Accounted
<1>7. DeliveriesCharged'
    <2>1. \A j \in Jobs : Accepted(j)' = Accepted(j)
        BY <1>1, <1>2 DEF Accepted
    <2>2. QED
        BY <1>1, <2>1 DEF DeliveriesCharged, Charged
<1>8. QED
    BY <1>3, <1>4, <1>5, <1>6, <1>7

\* The provider accepts: nothing had been delivered that is not charged.
LEMMA ProviderAcceptsStep ==
    ASSUME IInv, TypeOK', NEW r \in Slots, ProviderAccepts(r)
    PROVE  IInv'
<1> USE DEF IInv
<1>0. PICK j \in Jobs : j = request[r].job
    BY DEF ProviderAccepts, JobGiven
<1>1. /\ request[r].phase = "holding" /\ request[r].job = j /\ status[j] = "running"
      /\ request' = [request EXCEPT ![r].phase = "accepted", ![r].caller = None]
      /\ delivered' = [delivered EXCEPT ![j] = @ + 1]
      /\ UNCHANGED <<status, attempts, due, failures, faults>>
    BY <1>0 DEF ProviderAccepts, HeldRuns, InTransaction, row
<1>2. /\ request'[r].phase = "accepted" /\ request'[r].job = j
      /\ \A q \in Slots : q # r => request'[q] = request[q]
    BY <1>1 DEF TypeOK, Request
<1>3. JobGiven' /\ HeldRuns'
    BY <1>1, <1>2 DEF JobGiven, HeldRuns, InTransaction
<1>4. OneHolder'
    <2>1. \A q \in Slots : /\ request'[q].phase \in {"holding", "accepted"} <=> InTransaction(q)
                           /\ request'[q].job = request[q].job
        BY <1>1, <1>2 DEF InTransaction
    <2>2. QED
        BY <2>1 DEF OneHolder, InTransaction
<1>5. RunsWhenDue' /\ FailuresAccounted'
    BY <1>1 DEF RunsWhenDue, FailuresAccounted, Accounted
<1>6. DeliveriesCharged'
    <2> SUFFICES ASSUME NEW k \in Jobs
                 PROVE  Charged(k)'
        BY DEF DeliveriesCharged
    <2>1. Charged(k) /\ delivered[k] \in Nat /\ faults \in Nat
        BY QueueAssumption DEF DeliveriesCharged, TypeOK
    <2>2. CASE k # j
        <3>1. request[r].job # k /\ request'[r].job # k
            BY <1>1, <1>2, <2>2
        <3>2. Accepted(k)' = Accepted(k)
            BY <1>2, <3>1 DEF Accepted
        <3>3. QED
            BY <1>1, <2>1, <2>2, <3>2 DEF Charged, TypeOK
    <2>3. CASE k = j
        <3>1. ~Accepted(j)
            BY <1>1 DEF Accepted, OneHolder, InTransaction
        <3>2. delivered[j] <= faults
            BY <1>1, <2>1, <2>3, <3>1 DEF Charged
        <3>3. Accepted(j)'
            BY <1>2 DEF Accepted
        <3>4. delivered'[j] = delivered[j] + 1
            BY <1>1 DEF TypeOK
        <3>5. QED
            BY <1>1, <2>1, <2>3, <3>2, <3>3, <3>4 DEF Charged
    <2>4. QED
        BY <2>2, <2>3
<1>7. QED
    BY <1>3, <1>4, <1>5, <1>6

\* A transaction ends with a new status for its job.  No other held that row.
LetGo(j, new) ==
    /\ status[j] = "running" /\ status'[j] = new
    /\ JobGiven' /\ OneHolder' /\ HeldRuns'
    /\ \A k \in Jobs : k # j => status'[k] = status[k] /\ Accepted(k)' = Accepted(k)

LEMMA RowsReleased ==
    ASSUME IInv, NEW r \in Slots, InTransaction(r), NEW new,
           NEW j \in Jobs, request[r].job = j, status' = [status EXCEPT ![j] = new],
           request' = [request EXCEPT ![r] = Free]
    PROVE  LetGo(j, new)
<1>0. /\ status \in [Jobs -> {"pending", "running", "done", "failed", "cancelled"}]
      /\ request \in [Slots -> Request]
    BY DEF IInv, TypeOK
<1>1. status[j] = "running"
    BY DEF IInv, HeldRuns
<1>2. /\ request'[r] = Free
      /\ \A q \in Slots : q # r => request'[q] = request[q]
    BY <1>0
<1>3. JobGiven'
    BY <1>2 DEF IInv, JobGiven, Free
<1>4. OneHolder'
    BY <1>2 DEF IInv, OneHolder, InTransaction, Free
<1>5. \A q \in Slots : q # r /\ InTransaction(q) => request[q].job # j
    BY DEF IInv, OneHolder
<1>6. status'[j] = new
    BY <1>0
<1>7. \A k \in Jobs : k # j => status'[k] = status[k]
    BY <1>0
<1>8. HeldRuns'
    <2> SUFFICES ASSUME NEW q \in Slots, InTransaction(q)'
                 PROVE  status'[request'[q].job] = "running"
        BY DEF HeldRuns
    <2>1. q # r /\ InTransaction(q) /\ request'[q] = request[q]
        BY <1>2 DEF InTransaction, Free
    <2>2. request[q].job \in Jobs /\ status[request[q].job] = "running"
        BY <2>1 DEF IInv, JobGiven, HeldRuns, InTransaction
    <2>3. QED
        BY <1>5, <1>7, <2>1, <2>2
<1>9. \A k \in Jobs : k # j => Accepted(k)' = Accepted(k)
    BY <1>2 DEF Accepted, Free
<1>10. QED
    BY <1>1, <1>3, <1>4, <1>6, <1>7, <1>8, <1>9 DEF LetGo

\* A message that is recorded as sent needs no charge any more.
LEMMA CommitSentStep ==
    ASSUME IInv, TypeOK', NEW r \in Slots, CommitSent(r)
    PROVE  IInv'
<1>1. InTransaction(r) /\ request[r].phase = "accepted" /\ request[r].job \in Jobs
    BY DEF CommitSent, InTransaction, IInv, JobGiven
<1>2. PICK j \in Jobs : request[r].job = j
    BY <1>1
<1>3. /\ status' = [status EXCEPT ![j] = "done"] /\ request' = [request EXCEPT ![r] = Free]
      /\ UNCHANGED <<attempts, due, delivered, failures, faults>>
    BY <1>2 DEF CommitSent, Release, past
<1>4. LetGo(j, "done")
    BY <1>1, <1>2, <1>3, RowsReleased
<1> USE DEF IInv, LetGo
<1>5. RunsWhenDue'
    BY <1>3, <1>4 DEF RunsWhenDue
<1>6. FailuresAccounted'
    <2>1. \A k \in Jobs : k # j => Accounted(k)'
        BY <1>3, <1>4 DEF FailuresAccounted, Accounted
    <2>2. Accounted(j)'
        BY <1>3, <1>4 DEF FailuresAccounted, Accounted
    <2>3. QED
        BY <2>1, <2>2 DEF FailuresAccounted
<1>7. DeliveriesCharged'
    <2>1. \A k \in Jobs : k # j => Charged(k)'
        BY <1>3, <1>4 DEF DeliveriesCharged, Charged
    <2>2. Charged(j)'
        BY <1>3, <1>4 DEF DeliveriesCharged, Charged
    <2>3. QED
        BY <2>1, <2>2 DEF DeliveriesCharged
<1>8. QED
    BY <1>4, <1>5, <1>6, <1>7

\* Of every other outcome: nothing had been accepted before it, so a message
\* that the provider accepted all the same is charged.
LEMMA SettledCharged ==
    ASSUME IInv, TypeOK', NEW r \in Slots, NEW j \in Jobs, request[r].job = j,
           NEW new \in {"pending", "failed", "cancelled"}, Settle(r, new),
           \/ UNCHANGED <<delivered, faults>>
           \/ faults' = faults + 1 /\ delivered' = [delivered EXCEPT ![j] = @ + 1]
    PROVE  LetGo(j, new) /\ DeliveriesCharged'
<1>1. /\ InTransaction(r) /\ request[r].phase = "holding"
      /\ status' = [status EXCEPT ![j] = new] /\ request' = [request EXCEPT ![r] = Free]
    BY DEF Settle, Release, InTransaction
<1>2. LetGo(j, new)
    BY <1>1, RowsReleased
<1>3. ~Accepted(j)
    BY <1>1 DEF IInv, Accepted, OneHolder, InTransaction
<1>4. \A k \in Jobs : Charged(k) /\ delivered[k] \in Nat /\ faults \in Nat
    BY QueueAssumption DEF IInv, DeliveriesCharged, TypeOK
<1>5. delivered[j] <= faults
    BY <1>2, <1>3, <1>4 DEF Charged, LetGo
<1>6. ASSUME NEW k \in Jobs
      PROVE  Charged(k)'
    <2>1. CASE UNCHANGED <<delivered, faults>>
        <3>1. CASE k = j
            BY <1>4, <1>5, <2>1, <3>1 DEF Charged
        <3>2. CASE k # j
            BY <1>2, <1>4, <2>1, <3>2 DEF Charged, LetGo
        <3>3. QED
            BY <3>1, <3>2
    <2>2. CASE faults' = faults + 1 /\ delivered' = [delivered EXCEPT ![j] = @ + 1]
        <3>1. CASE k = j
            <4>1. delivered'[j] = delivered[j] + 1
                BY <2>2 DEF IInv, TypeOK
            <4>2. QED
                BY <1>4, <1>5, <2>2, <3>1, <4>1 DEF Charged
        <3>2. CASE k # j
            <4>1. delivered'[k] = delivered[k]
                BY <2>2, <3>2 DEF IInv, TypeOK
            <4>2. QED
                BY <1>2, <1>4, <2>2, <3>2, <4>1 DEF Charged, LetGo
        <3>3. QED
            BY <3>1, <3>2
    <2>3. QED
        BY <2>1, <2>2
<1>7. QED
    BY <1>2, <1>6 DEF DeliveriesCharged

\* What is left to show of an outcome: the accounts of the job itself.
LEMMA OutcomeStep ==
    ASSUME IInv, TypeOK', NEW r \in Slots, NEW j \in Jobs, request[r].job = j,
           NEW new \in {"pending", "failed", "cancelled"}, Settle(r, new),
           \/ UNCHANGED <<delivered, faults>>
           \/ faults' = faults + 1 /\ delivered' = [delivered EXCEPT ![j] = @ + 1],
           \A k \in Jobs : k # j =>
               /\ attempts'[k] = attempts[k] /\ due'[k] = due[k] /\ failures'[k] = failures[k],
           Accounted(j)'
    PROVE  IInv'
<1>1. LetGo(j, new) /\ DeliveriesCharged'
    BY SettledCharged
<1> USE DEF IInv, LetGo
<1>2. RunsWhenDue'
    BY <1>1 DEF RunsWhenDue
<1>3. FailuresAccounted'
    <2>1. \A k \in Jobs : k # j => Accounted(k)'
        BY <1>1 DEF FailuresAccounted, Accounted
    <2>2. QED
        BY <2>1 DEF FailuresAccounted
<1>4. QED
    BY <1>1, <1>2, <1>3

LEMMA CancelStep ==
    ASSUME IInv, TypeOK', NEW r \in Slots, Cancel(r)
    PROVE  IInv'
<1>1. PICK j \in Jobs : request[r].job = j
    BY DEF Cancel, Settle, IInv, JobGiven
<1>2. /\ Settle(r, "cancelled") /\ UNCHANGED <<delivered, faults>>
      /\ UNCHANGED <<attempts, due, failures>>
    BY DEF Cancel, past
<1>3. status'[j] = "cancelled"
    BY <1>1, <1>2 DEF Settle, IInv, TypeOK
<1>4. Accounted(j)'
    BY <1>2, <1>3 DEF IInv, FailuresAccounted, Accounted
<1>5. QED
    BY <1>1, <1>2, <1>4, OutcomeStep

\* A deferral takes back the attempt that its claim has counted.
LEMMA DeferStep ==
    ASSUME IInv, TypeOK', NEW r \in Slots, Defer(r)
    PROVE  IInv'
<1>1. PICK j \in Jobs : request[r].job = j
    BY DEF Defer, Settle, IInv, JobGiven
<1>2. /\ Settle(r, "pending") /\ UNCHANGED <<delivered, faults>> /\ failures' = failures
      /\ attempts' = [attempts EXCEPT ![j] = @ - 1]
    BY <1>1 DEF Defer, past
<1>3. PICK delay \in {0, MaxDelay} : due' = [due EXCEPT ![j] = delay]
    BY <1>1 DEF Defer
<1>4. /\ status[j] = "running" /\ status'[j] = "pending"
      /\ attempts'[j] = attempts[j] - 1 /\ attempts[j] \in Nat /\ failures[j] \in Nat
    BY <1>1, <1>2 DEF Settle, InTransaction, IInv, HeldRuns, TypeOK
<1>5. Accounted(j)'
    BY <1>2, <1>4 DEF IInv, FailuresAccounted, Accounted
<1>6. \A k \in Jobs : k # j =>
         /\ attempts'[k] = attempts[k] /\ due'[k] = due[k] /\ failures'[k] = failures[k]
    BY <1>2, <1>3 DEF IInv, TypeOK
<1>7. QED
    BY <1>1, <1>2, <1>5, <1>6, OutcomeStep

\* A failure is one of the attempts, and the last one ends the job.
LEMMA FailStep ==
    ASSUME IInv, TypeOK', NEW r \in Slots, Fail(r),
           \/ UNCHANGED <<delivered, faults>>
           \/ faults' = faults + 1
              /\ delivered' = [delivered EXCEPT ![request[r].job] = @ + 1]
    PROVE  IInv'
<1>1. PICK j \in Jobs : request[r].job = j
    BY DEF Fail, Settle, IInv, JobGiven
<1>2. /\ attempts' = attempts /\ failures' = [failures EXCEPT ![j] = @ + 1]
      /\ \E delay \in 0..attempts[j] :
            due' = IF Retries(j) THEN [due EXCEPT ![j] = delay] ELSE due
    BY <1>1 DEF Fail
<1>3. PICK new \in {"pending", "failed", "cancelled"} :
          /\ Settle(r, new)
          /\ new = IF Retries(j) THEN "pending" ELSE "failed"
    BY <1>1 DEF Fail
<1>4. /\ status[j] = "running" /\ status'[j] = new
      /\ failures'[j] = failures[j] + 1 /\ attempts[j] \in Nat /\ failures[j] \in Nat
    BY <1>1, <1>2, <1>3 DEF Settle, InTransaction, IInv, HeldRuns, TypeOK
<1>5. Accounted(j)'
    <2>1. MaxSendAttempts \in Nat
        BY QueueAssumption
    <2>2. failures[j] < MaxSendAttempts /\ failures[j] < attempts[j]
        BY <1>4 DEF IInv, FailuresAccounted, Accounted
    <2>3. QED
        BY <1>2, <1>3, <1>4, <2>1, <2>2 DEF Accounted, Retries
<1>6. \A k \in Jobs : k # j =>
         /\ attempts'[k] = attempts[k] /\ due'[k] = due[k] /\ failures'[k] = failures[k]
    BY <1>2 DEF IInv, TypeOK
<1>7. QED
    BY <1>1, <1>3, <1>5, <1>6, OutcomeStep

-----------------------------------------------------------------------------
(* Every step.                                                             *)

LEMMA InvInit == Init => IInv
<1> SUFFICES ASSUME Init
             PROVE  IInv
    OBVIOUS
<1>1. TypeOK
    BY TypeInit
<1>2. JobGiven /\ OneHolder /\ HeldRuns
    BY DEF Init, JobGiven, OneHolder, HeldRuns, InTransaction, Free
<1>3. RunsWhenDue /\ FailuresAccounted /\ DeliveriesCharged
    <2>1. MaxSendAttempts \in Nat \ {0}
        BY QueueAssumption
    <2>2. \A j \in Jobs : /\ status[j] = "pending" /\ attempts[j] = 0 /\ failures[j] = 0
                          /\ delivered[j] = 0 /\ faults = 0
        BY DEF Init
    <2>3. RunsWhenDue
        BY <2>2 DEF RunsWhenDue
    <2>4. FailuresAccounted
        BY <2>1, <2>2 DEF FailuresAccounted, Accounted
    <2>5. DeliveriesCharged
        BY <2>2 DEF DeliveriesCharged, Charged
    <2>6. QED
        BY <2>3, <2>4, <2>5
<1>4. QED
    BY <1>1, <1>2, <1>3 DEF IInv

\* Steps of a sender, but for its claims, and the requests they begin or leave.
LEMMA DrainsStep ==
    ASSUME IInv, TypeOK', NEW s \in Senders, Drains(s)
    PROVE  IInv'
<1>1. CASE Claim(s)
    BY <1>1, ClaimStep
<1>2. ASSUME NEW j \in Jobs, Call(s, j)
      PROVE  IInv'
    <2>1. PICK r \in Slots :
              /\ request[r] = Free
              /\ request' = [request EXCEPT ![r] = [Free EXCEPT
                     !.phase = "received", !.job = j, !.caller = s,
                     !.workspace = InternalAnswer(Keys, SenderRequest(s)).workspace]]
        BY <1>2 DEF Call
    <2>2. Idle(r) /\ \A q \in Slots : q # r => Kept(q)
        BY <2>1 DEF Idle, Kept, Free, IInv, TypeOK
    <2>3. request[r].phase # "accepted"
        BY <2>1 DEF Free
    <2>4. UNCHANGED <<row, past>> /\ faults' = faults
        BY <1>2 DEF Call, SenderOnly
    <2>5. QED
        BY <2>2, <2>3, <2>4, JobsUnchanged
<1>3. ASSUME NEW j \in Jobs, CallRefused(s, j)
      PROVE  IInv'
    <2>1. UNCHANGED <<row, past>> /\ faults' = faults /\ request' = request
        BY <1>3 DEF CallRefused, SenderOnly
    <2>2. \A r \in Slots : Kept(r)
        BY <2>1 DEF Kept
    <2>3. QED
        BY <2>1, <2>2, JobsUnchanged
<1>4. ASSUME request' = Orphaned(s)
      PROVE  \A r \in Slots : Kept(r)
    <2>1. \A r \in Slots : request[r] \in Request
        BY DEF IInv, TypeOK
    <2>2. QED
        BY <1>4, <2>1 DEF Orphaned, Kept, Request
<1>5. CASE GiveUp(s)
    <2>1. request' = Orphaned(s) /\ UNCHANGED <<row, past>> /\ faults' = faults
        BY <1>5 DEF GiveUp, SenderOnly
    <2>2. QED
        BY <1>4, <2>1, JobsUnchanged
<1>6. CASE Restart(s)
    <2>1. request' = Orphaned(s) /\ UNCHANGED <<row, past>> /\ faults' = faults + 1
        BY <1>6 DEF Restart, Fault, SenderOnly
    <2>2. QED
        BY <1>4, <2>1, JobsUnchanged
<1>7. QED
    BY <1>1, <1>2, <1>3, <1>5, <1>6 DEF Drains

LEMMA ServesStep ==
    ASSUME IInv, TypeOK', NEW r \in Slots, Serves(r)
    PROVE  IInv'
<1>1. CASE Lock(r)
    BY <1>1, LockStep
<1>2. ASSUME Release(r)
      PROVE  Idle(r) /\ \A q \in Slots : q # r => Kept(q)
    BY <1>2 DEF Release, Idle, Kept, Free, IInv, TypeOK
<1>3. CASE NotClaimed(r)
    <2>1. /\ Release(r) /\ UNCHANGED <<row, past>> /\ faults' = faults
          /\ request[r].phase # "accepted"
        BY <1>3 DEF NotClaimed
    <2>2. QED
        BY <1>2, <2>1, JobsUnchanged
<1>4. CASE EndRead(r)
    <2>1. /\ Release(r) /\ UNCHANGED <<row, past>> /\ faults' = faults
          /\ request[r].phase # "accepted"
        BY <1>4 DEF EndRead
    <2>2. QED
        BY <1>2, <2>1, JobsUnchanged
<1>5. CASE ProviderAccepts(r)
    BY <1>5, ProviderAcceptsStep
<1>6. CASE CommitSent(r)
    BY <1>6, CommitSentStep
<1>7. CASE Cancel(r)
    BY <1>7, CancelStep
<1>8. CASE Defer(r)
    BY <1>8, DeferStep
<1>9. CASE DispatchFails(r)
    BY <1>9, FailStep DEF DispatchFails
<1>10. CASE AnswerLost(r)
    BY <1>10, FailStep DEF AnswerLost, Fault
<1>11. QED
    BY <1>1, <1>3, <1>4, <1>5, <1>6, <1>7, <1>8, <1>9, <1>10 DEF Serves

LEMMA InvStep == IInv /\ [Next]_vars => IInv'
<1> SUFFICES ASSUME IInv, [Next]_vars
             PROVE  IInv'
    OBVIOUS
<1>1. TypeOK'
    BY TypeStep
<1>2. ASSUME NEW s \in Senders, Drains(s)
      PROVE  IInv'
    BY <1>1, <1>2, DrainsStep
<1>3. ASSUME NEW r \in Slots, Serves(r)
      PROVE  IInv'
    BY <1>1, <1>3, ServesStep
<1>4. ASSUME NEW R \in SUBSET Slots, RollBack(R)
      PROVE  IInv'
    <2>1. \A r \in Slots : Kept(r) \/ Idle(r)
        BY <1>4 DEF RollBack, Kept, Idle, Free
    <2>2. UNCHANGED <<row, past>> /\ faults' = faults + 1
        BY <1>4 DEF RollBack, Fault
    <2>3. QED
        BY <1>1, <2>1, <2>2, JobsUnchanged
<1>5. ASSUME NEW r \in Slots, NEW user \in Users, BeginRead(r, user)
      PROVE  IInv'
    <2>1. Idle(r) /\ \A q \in Slots : q # r => Kept(q)
        BY <1>5 DEF BeginRead, Idle, Kept, Free, IInv, TypeOK
    <2>2. UNCHANGED <<row, past>> /\ faults' = faults /\ request[r].phase # "accepted"
        BY <1>5 DEF BeginRead, Free
    <2>3. QED
        BY <1>1, <2>1, <2>2, JobsUnchanged
<1>6. CASE Tick
    BY <1>1, <1>6, TickStep
<1>7. CASE UNCHANGED vars
    <2>1. UNCHANGED <<row, past>> /\ faults' = faults /\ request' = request
        BY <1>7 DEF vars, api
    <2>2. \A r \in Slots : Kept(r)
        BY <2>1 DEF Kept
    <2>3. QED
        BY <1>1, <2>1, <2>2, JobsUnchanged
<1>8. QED
    BY <1>2, <1>3, <1>4, <1>5, <1>6, <1>7 DEF Next

LEMMA Invariance == Spec => []IInv
BY InvInit, InvStep, PTL DEF Spec

-----------------------------------------------------------------------------
\* Every variable keeps its type: of all bounds, that a call is waited for no
\* longer than HttpTimeout and that the count of attempts never goes below 0
\* are the ones the actions have to work for.
THEOREM TypeCorrect == Spec => []TypeOK
<1>1. IInv => TypeOK
    BY DEF IInv
<1>2. QED
    BY <1>1, Invariance, PTL

\* However often a job is claimed and handed over, process_send_job sends it
\* once; only a lost answer or a lost commit repeats the message.
THEOREM SendsOnce == Spec => []SentOnce
<1>1. IInv => SentOnce
    BY DEF IInv, DeliveriesCharged, Charged, SentOnce
<1>2. QED
    BY <1>1, Invariance, PTL

\* A job never fails more often than MAX_SEND_ATTEMPTS, whatever claims without
\* an outcome and deferrals do to its count of attempts.
THEOREM GivesUp == Spec => []GivesUpInTime
<1>1. IInv => GivesUpInTime
    BY DEF IInv, FailuresAccounted, Accounted, GivesUpInTime
<1>2. QED
    BY <1>1, Invariance, PTL

\* No transaction takes up a job before its scheduled_at.
THEOREM BackoffIsKept == Spec => BackoffHolds
<1>1. ASSUME IInv, [Next]_vars
      PROVE  [\A r \in Slots : ~InTransaction(r) /\ InTransaction(r)'
                 => due[request'[r].job] <= 0]_vars
    <2> SUFFICES ASSUME Next, NEW r \in Slots, ~InTransaction(r), InTransaction(r)'
                 PROVE  due[request'[r].job] <= 0
        BY <1>1
    <2>1. CASE Lock(r)
        <3>1. /\ request'[r].job = request[r].job
              /\ request[r].job \in Jobs /\ status[request[r].job] = "running"
            BY <1>1, <2>1 DEF Lock, Finds, IInv, TypeOK, JobGiven, Request
        <3>2. QED
            BY <1>1, <3>1 DEF IInv, RunsWhenDue
    <2>2. ASSUME ~Lock(r)
          PROVE  FALSE
        <3>1. \A q \in Slots : request[q] \in Request
            BY <1>1 DEF IInv, TypeOK
        <3>2. request'[r].phase \in {"holding", "accepted"}
              /\ request[r].phase \notin {"holding", "accepted"}
            BY DEF InTransaction
        <3>3. ASSUME NEW s \in Senders, Drains(s)
              PROVE  FALSE
            <4>1. ASSUME request' = Orphaned(s)
                  PROVE  request'[r].phase = request[r].phase
                BY <3>1, <4>1 DEF Orphaned, Request
            <4>2. CASE Claim(s)
                BY <3>2, <4>2 DEF Claim, api
            <4>3. ASSUME NEW j \in Jobs, Call(s, j)
                  PROVE  FALSE
                BY <1>1, <3>2, <4>3 DEF Call, Free, IInv, TypeOK
            <4>4. ASSUME NEW j \in Jobs, CallRefused(s, j)
                  PROVE  FALSE
                BY <3>2, <4>4 DEF CallRefused
            <4>5. CASE GiveUp(s) \/ Restart(s)
                BY <3>2, <4>1, <4>5 DEF GiveUp, Restart
            <4>6. QED
                BY <3>3, <4>2, <4>3, <4>4, <4>5 DEF Drains
        <3>4. ASSUME NEW q \in Slots, Serves(q)
              PROVE  FALSE
            <4>1. Release(q) => request'[r].phase \in {"free", request[r].phase}
                BY <1>1 DEF Release, Free, IInv, TypeOK
            <4>2. Lock(q) \/ ProviderAccepts(q) => q # r
                BY <2>2, <3>2 DEF ProviderAccepts
            <4>3. Lock(q) \/ ProviderAccepts(q) => request'[r] = request[r]
                BY <1>1, <4>2 DEF Lock, ProviderAccepts, IInv, TypeOK
            <4>4. QED
                BY <3>2, <3>4, <4>1, <4>3
                   DEF Serves, NotClaimed, CommitSent, Cancel, Defer, DispatchFails, AnswerLost,
                       Fail, Settle, EndRead
        <3>5. ASSUME NEW R \in SUBSET Slots, RollBack(R)
              PROVE  FALSE
            BY <3>2, <3>5 DEF RollBack, Free
        <3>6. ASSUME NEW q \in Slots, NEW user \in Users, BeginRead(q, user)
              PROVE  FALSE
            BY <1>1, <3>2, <3>6 DEF BeginRead, Free, IInv, TypeOK
        <3>7. CASE Tick
            BY <3>2, <3>7 DEF Tick, api
        <3>8. QED
            BY <3>3, <3>4, <3>5, <3>6, <3>7 DEF Next
    <2>3. QED
        BY <2>1, <2>2
<1>2. QED
    BY <1>1, Invariance, PTL DEF Spec, BackoffHolds
-----------------------------------------------------------------------------
(* Whose rows a slot sees.                                                 *)

\* The setting is that of the slot's own transaction, or empty.
Scoped(r) ==
    /\ InTransaction(r) => /\ setting[r] = request[r].workspace
                           /\ request[r].workspace = JobWorkspace[request[r].job]
    /\ request[r].phase = "reading" =>
           /\ request[r].caller \in Users
           /\ UserAnswer(Keys, request[r].caller).code = 200
           /\ setting[r] = UserAnswer(Keys, request[r].caller).workspace
    /\ request[r].phase \in {"free", "received"} => setting[r] = Unset

ScopesInv == \A r \in Slots : Scoped(r)

\* A slot that goes on with what it does keeps its scope ...
LEMMA ScopeKept ==
    ASSUME NEW r \in Slots, Scoped(r), setting'[r] = setting[r],
           \/ request'[r].phase = request[r].phase
           \/ InTransaction(r) /\ InTransaction(r)'
           \/ request[r].phase = "free" /\ request'[r].phase = "received",
           InTransaction(r) => /\ request'[r].job = request[r].job
                               /\ request'[r].workspace = request[r].workspace,
           request[r].phase = "reading" => request'[r].caller = request[r].caller
    PROVE  Scoped(r)'
BY DEF Scoped, InTransaction

LEMMA ScopeSame ==
    ASSUME NEW r \in Slots, Scoped(r), setting'[r] = setting[r], request'[r] = request[r]
    PROVE  Scoped(r)'
BY DEF Scoped, InTransaction

\* ... and one that is done has none.
LEMMA ScopeReleased ==
    ASSUME NEW r \in Slots, request'[r] = Free, setting'[r] = Unset
    PROVE  Scoped(r)'
BY DEF Scoped, InTransaction, Free

LEMMA ScopesReleased ==
    ASSUME TypeOK, ScopesInv, NEW r \in Slots, Release(r)
    PROVE  ScopesInv'
<1> SUFFICES ASSUME NEW q \in Slots
             PROVE  Scoped(q)'
    BY DEF ScopesInv
<1>1. CASE q = r
    <2>1. request'[q] = Free /\ setting'[q] = Unset
        BY <1>1 DEF Release, SettingAfter, TypeOK
    <2>2. QED
        BY <2>1, ScopeReleased
<1>2. CASE q # r
    <2>1. request'[q] = request[q] /\ setting'[q] = setting[q]
        BY <1>2 DEF Release, TypeOK
    <2>2. QED
        BY <2>1, ScopeSame DEF ScopesInv
<1>3. QED
    BY <1>1, <1>2

LEMMA ScopesUnchanged ==
    ASSUME ScopesInv, UNCHANGED api
    PROVE  ScopesInv'
<1> SUFFICES ASSUME NEW q \in Slots
             PROVE  Scoped(q)'
    BY DEF ScopesInv
<1>1. request'[q] = request[q] /\ setting'[q] = setting[q]
    BY DEF api
<1>2. QED
    BY <1>1, ScopeSame DEF ScopesInv

\* Giving up on a request that serves a job leaves its scope alone: those of
\* users are not a sender's to give up.
LEMMA ScopesOrphaned ==
    ASSUME TypeOK, ScopesInv, NEW s \in Senders, request' = Orphaned(s), setting' = setting
    PROVE  ScopesInv'
<1> SUFFICES ASSUME NEW q \in Slots
             PROVE  Scoped(q)'
    BY DEF ScopesInv
<1>1. Scoped(q) /\ request[q] \in Request
    BY DEF ScopesInv, TypeOK
<1>2. CASE request[q].caller # s
    <2>1. request'[q] = request[q]
        BY <1>2 DEF Orphaned
    <2>2. QED
        BY <1>1, <2>1, ScopeSame
<1>3. CASE request[q].caller = s
    <2>1. request'[q] = [request[q] EXCEPT !.caller = None]
        BY <1>3 DEF Orphaned
    <2>2. /\ request'[q].phase = request[q].phase /\ request'[q].job = request[q].job
          /\ request'[q].workspace = request[q].workspace
        BY <1>1, <2>1 DEF Request
    <2>3. s \notin Users
        BY QueueAssumption
    <2>4. request[q].phase # "reading"
        BY <1>1, <1>3, <2>3 DEF Scoped
    <2>5. QED
        BY <1>1, <2>2, <2>4, ScopeKept
<1>4. QED
    BY <1>2, <1>3

LEMMA ScopesDrains ==
    ASSUME TypeOK, ScopesInv, NEW s \in Senders, Drains(s)
    PROVE  ScopesInv'
<1>1. CASE Claim(s)
    BY <1>1, ScopesUnchanged DEF Claim
<1>2. ASSUME NEW j \in Jobs, Call(s, j)
      PROVE  ScopesInv'
    <2>1. PICK r \in Slots :
              /\ request[r] = Free
              /\ request' = [request EXCEPT ![r] = [Free EXCEPT
                     !.phase = "received", !.job = j, !.caller = s,
                     !.workspace = InternalAnswer(Keys, SenderRequest(s)).workspace]]
        BY <1>2 DEF Call
    <2>2. setting' = setting
        BY <1>2 DEF Call, SenderOnly
    <2> SUFFICES ASSUME NEW q \in Slots
                 PROVE  Scoped(q)'
        BY DEF ScopesInv
    <2>3. Scoped(q)
        BY DEF ScopesInv
    <2>4. CASE q = r
        <3>1. request[q].phase = "free" /\ request'[q].phase = "received"
            BY <2>1, <2>4 DEF Free, TypeOK
        <3>2. QED
            BY <2>2, <2>3, <3>1, ScopeKept DEF InTransaction
    <2>5. CASE q # r
        <3>1. request'[q] = request[q]
            BY <2>1, <2>5 DEF TypeOK
        <3>2. QED
            BY <2>2, <2>3, <3>1, ScopeSame
    <2>6. QED
        BY <2>4, <2>5
<1>3. ASSUME NEW j \in Jobs, CallRefused(s, j)
      PROVE  ScopesInv'
    BY <1>3, ScopesUnchanged DEF CallRefused, SenderOnly, api
<1>4. CASE GiveUp(s)
    BY <1>4, ScopesOrphaned DEF GiveUp, SenderOnly
<1>5. CASE Restart(s)
    BY <1>5, ScopesOrphaned DEF Restart, SenderOnly
<1>6. QED
    BY <1>1, <1>2, <1>3, <1>4, <1>5 DEF Drains

LEMMA ScopesServes ==
    ASSUME TypeOK, ScopesInv, NEW r \in Slots, Serves(r)
    PROVE  ScopesInv'
<1>1. CASE Lock(r)
    <2>1. /\ request[r] \in Request /\ JobWorkspace[request[r].job] = request[r].workspace
          /\ request' = [request EXCEPT ![r].phase = "holding"]
          /\ setting' = [setting EXCEPT ![r] = request[r].workspace]
        BY <1>1 DEF Lock, Finds, TypeOK
    <2> SUFFICES ASSUME NEW q \in Slots
                 PROVE  Scoped(q)'
        BY DEF ScopesInv
    <2>2. CASE q = r
        <3>1. /\ request'[q].phase = "holding" /\ request'[q].job = request[r].job
              /\ request'[q].workspace = request[r].workspace
              /\ setting'[q] = request[r].workspace
            BY <2>1, <2>2 DEF TypeOK, Request
        <3>2. QED
            BY <2>1, <3>1 DEF Scoped, InTransaction
    <2>3. CASE q # r
        <3>1. request'[q] = request[q] /\ setting'[q] = setting[q]
            BY <2>1, <2>3 DEF TypeOK
        <3>2. QED
            BY <3>1, ScopeSame DEF ScopesInv
    <2>4. QED
        BY <2>2, <2>3
<1>2. CASE ProviderAccepts(r)
    <2>1. /\ request[r] \in Request /\ request[r].phase = "holding"
          /\ request' = [request EXCEPT ![r].phase = "accepted", ![r].caller = None]
          /\ setting' = setting
        BY <1>2 DEF ProviderAccepts, TypeOK
    <2> SUFFICES ASSUME NEW q \in Slots
                 PROVE  Scoped(q)'
        BY DEF ScopesInv
    <2>2. Scoped(q)
        BY DEF ScopesInv
    <2>3. CASE q = r
        <3>1. /\ request'[q].phase = "accepted" /\ request'[q].job = request[q].job
              /\ request'[q].workspace = request[q].workspace
            BY <2>1, <2>3 DEF TypeOK, Request
        <3>2. QED
            BY <2>1, <2>2, <2>3, <3>1, ScopeKept DEF InTransaction
    <2>4. CASE q # r
        <3>1. request'[q] = request[q]
            BY <2>1, <2>4 DEF TypeOK
        <3>2. QED
            BY <2>1, <2>2, <3>1, ScopeSame
    <2>5. QED
        BY <2>3, <2>4
<1>3. CASE NotClaimed(r) \/ CommitSent(r) \/ EndRead(r)
    BY <1>3, ScopesReleased DEF NotClaimed, CommitSent, EndRead
<1>4. CASE Cancel(r) \/ Defer(r) \/ DispatchFails(r) \/ AnswerLost(r)
    BY <1>4, ScopesReleased DEF Cancel, Defer, DispatchFails, AnswerLost, Fail, Settle
<1>5. QED
    BY <1>1, <1>2, <1>3, <1>4 DEF Serves

LEMMA ScopesRead ==
    ASSUME TypeOK, ScopesInv, NEW r \in Slots, NEW user \in Users, BeginRead(r, user)
    PROVE  ScopesInv'
<1> DEFINE new == [Free EXCEPT !.phase = "reading", !.caller = user,
                               !.workspace = UserAnswer(Keys, user).workspace]
<1>1. /\ UserAnswer(Keys, user).code = 200
      /\ request' = [request EXCEPT ![r] = new]
      /\ setting' = [setting EXCEPT ![r] = UserAnswer(Keys, user).workspace]
    BY DEF BeginRead
<1>2. new.phase = "reading" /\ new.caller = user
    BY DEF Free
<1> HIDE DEF new
<1> SUFFICES ASSUME NEW q \in Slots
             PROVE  Scoped(q)'
    BY DEF ScopesInv
<1>3. CASE q = r
    <2>1. request'[q] = new /\ setting'[q] = UserAnswer(Keys, user).workspace
        BY <1>1, <1>3 DEF TypeOK
    <2>2. QED
        BY <1>1, <1>2, <2>1 DEF Scoped, InTransaction
<1>4. CASE q # r
    <2>1. request'[q] = request[q] /\ setting'[q] = setting[q]
        BY <1>1, <1>4 DEF TypeOK
    <2>2. QED
        BY <2>1, ScopeSame DEF ScopesInv
<1>5. QED
    BY <1>3, <1>4

LEMMA ScopesRollBack ==
    ASSUME ScopesInv, NEW R \in SUBSET Slots, RollBack(R)
    PROVE  ScopesInv'
<1> SUFFICES ASSUME NEW q \in Slots
             PROVE  Scoped(q)'
    BY DEF ScopesInv
<1>1. CASE q \in R
    <2>1. request'[q] = Free /\ setting'[q] = Unset
        BY <1>1 DEF RollBack, SettingAfter
    <2>2. QED
        BY <2>1, ScopeReleased
<1>2. CASE q \notin R
    <2>1. request'[q] = request[q] /\ setting'[q] = setting[q]
        BY <1>2 DEF RollBack
    <2>2. QED
        BY <2>1, ScopeSame DEF ScopesInv
<1>3. QED
    BY <1>1, <1>2

LEMMA ScopesStep == TypeOK /\ ScopesInv /\ [Next]_vars => ScopesInv'
<1> SUFFICES ASSUME TypeOK, ScopesInv, [Next]_vars
             PROVE  ScopesInv'
    OBVIOUS
<1>1. CASE Tick \/ UNCHANGED vars
    BY <1>1, ScopesUnchanged DEF Tick, vars, api
<1>2. QED
    BY <1>1, ScopesDrains, ScopesServes, ScopesRead, ScopesRollBack DEF Next

LEMMA ScopesHold == Spec => [](IInv /\ ScopesInv)
<1>1. Init => ScopesInv
    <2> SUFFICES ASSUME Init, NEW r \in Slots
                 PROVE  Scoped(r)
        BY DEF ScopesInv
    <2>1. request[r] = Free /\ setting[r] = Unset
        BY DEF Init
    <2>2. QED
        BY <2>1 DEF Scoped, InTransaction, Free
<1>2. IInv => TypeOK
    BY DEF IInv
<1>3. QED
    BY <1>1, <1>2, ScopesStep, Invariance, PTL DEF Spec

\* What a user is let in with: the one workspace of the key, or the header.
UserScope(user) ==
    IF user.bearer = None THEN {user.header} ELSE Resolve(Keys, user.bearer)

LEMMA AnswerIsScope ==
    ASSUME NEW user \in Users, UserAnswer(Keys, user).code = 200
    PROVE  UserScope(user) = {UserAnswer(Keys, user).workspace}
<1> DEFINE ws == CHOOSE w \in Resolve(Keys, user.bearer) : TRUE
<1>1. UserAnswer(Keys, user) = WorkspaceOf(Keys, user) /\ WorkspaceOf(Keys, user) # Pass(None)
    BY DEF UserAnswer, Reject
<1>2. WorkspaceOf(Keys, user).code = 200
    BY <1>1
<1>3. CASE user.bearer # None
    <2>1. WorkspaceOf(Keys, user) =
              IF Resolve(Keys, user.bearer) = {} THEN Reject(401) ELSE Pass(ws)
        BY <1>3 DEF WorkspaceOf
    <2>2. Resolve(Keys, user.bearer) # {} /\ WorkspaceOf(Keys, user).workspace = ws
        BY <1>2, <2>1 DEF Reject, Pass
    <2>3. ws \in Resolve(Keys, user.bearer)
        BY <2>2
    <2>4. \A k, l \in Keys : Accepts(k, user.bearer) /\ Accepts(l, user.bearer) => k = l
        BY QueueAssumption DEF Accepts
    <2>5. \A v, w \in Resolve(Keys, user.bearer) : v = w
        BY <2>4 DEF Resolve
    <2> HIDE DEF ws
    <2>6. Resolve(Keys, user.bearer) = {ws}
        BY <2>3, <2>5
    <2>7. QED
        BY <1>1, <1>3, <2>2, <2>6 DEF UserScope
<1>4. CASE user.bearer = None
    <2>1. user.header # None
        BY <1>1, <1>4 DEF WorkspaceOf
    <2>2. WorkspaceOf(Keys, user) \in {Reject(401), Reject(400), Pass(user.header)}
        BY <1>4, <2>1 DEF WorkspaceOf
    <2>3. WorkspaceOf(Keys, user) = Pass(user.header)
        BY <1>2, <2>2 DEF Reject
    <2>4. QED
        BY <1>1, <1>4, <2>3 DEF UserScope, Pass
<1>5. QED
    BY <1>3, <1>4

\* No transaction sees a row of another workspace, and an idle connection none:
\* the Go sender's claim, the internal route and the users' routes alike.
THEOREM ScopesAreOwn == Spec => []ScopeIsOwn
<1>1. ASSUME IInv, ScopesInv, NEW r \in Slots
      PROVE  /\ InTransaction(r) => ScopeOf(setting[r]) = {JobWorkspace[request[r].job]}
             /\ request[r].phase = "reading" =>
                    ScopeOf(setting[r]) = UserScope(request[r].caller)
             /\ request[r].phase \in {"free", "received"} => ScopeOf(setting[r]) = {}
    <2>1. Scoped(r)
        BY <1>1 DEF ScopesInv
    <2>2. ASSUME InTransaction(r)
          PROVE  ScopeOf(setting[r]) = {JobWorkspace[request[r].job]}
        <3>1. request[r].job \in Jobs
            BY <1>1, <2>2 DEF IInv, JobGiven, InTransaction
        <3>2. setting[r] = JobWorkspace[request[r].job]
            BY <2>1, <2>2 DEF Scoped
        <3>3. setting[r] \in Workspaces
            BY <3>1, <3>2, QueueAssumption
        <3>4. QED
            BY <3>2, <3>3 DEF ScopeOf
    <2>3. ASSUME request[r].phase = "reading"
          PROVE  ScopeOf(setting[r]) = UserScope(request[r].caller)
        <3> DEFINE user == request[r].caller
        <3>1. /\ user \in Users /\ UserAnswer(Keys, user).code = 200
              /\ setting[r] = UserAnswer(Keys, user).workspace
            BY <2>1, <2>3 DEF Scoped
        <3> HIDE DEF user
        <3>2. setting[r] \in Workspaces /\ UserScope(user) = {setting[r]}
            BY <3>1, AnswerIsScope, LetInHasWorkspace
        <3>3. QED
            BY <3>2 DEF ScopeOf, user
    <2>4. ASSUME request[r].phase \in {"free", "received"}
          PROVE  ScopeOf(setting[r]) = {}
        BY <2>1, <2>4, ScopeAssumption DEF Scoped, ScopeOf
    <2>5. QED
        BY <2>2, <2>3, <2>4
<1>2. IInv /\ ScopesInv => ScopeIsOwn
    BY <1>1 DEF ScopeIsOwn, UserScope
<1>3. QED
    BY <1>2, ScopesHold, PTL
=============================================================================
