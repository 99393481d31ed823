----------------------------- MODULE Submission -----------------------------
(***************************************************************************)
(* Creating Jira issues from drafts (services/submission_service.py) over  *)
(* the durable rows of WorkflowStore, with the edits and cancellations     *)
(* (services/workflow_service.py) that compete for the same row.           *)
(*                                                                         *)
(* A worker is one asyncio task running one service call; each action is   *)
(* the code between two awaits, so at most one transaction or one exchange *)
(* with Jira.  A task may end at any await (Abort): the process dies, the  *)
(* task is cancelled, or a repository call raises.  Nothing assumes that   *)
(* two calls on the same draft are serialised by their callers.            *)
(*                                                                         *)
(* Jira is external: a create request that was sent is applied, refused or *)
(* lost at any later time, whether or not the sender is still waiting.     *)
(***************************************************************************)
EXTENDS WorkflowStore, FiniteSets

CONSTANTS Workers,
          Operations,        \* the service calls the deployment makes
          MalformedReplies,  \* Jira may answer a create it applied with a
                             \* 2xx whose body is not the expected object
          TrustworthyReview, \* a human says "not created" only when Jira
                             \* has not created and will not create the issue
          NoIssue, NoDraft,
          MaxAborts,         \* bound on tasks that end early
          MaxRevision        \* bound on edits, as the revision they start from

AllOperations == {"submit", "recover", "reconcile", "allow_retry",
                  "edit", "cancel"}

ASSUME SubmissionAssumption ==
  /\ Operations \subseteq AllOperations
  /\ MalformedReplies \in BOOLEAN
  /\ TrustworthyReview \in BOOLEAN
  /\ MaxAborts \in Nat
  /\ MaxRevision \in Nat
  /\ NoDraft \notin Drafts
  /\ NoIssue \notin [draft : Drafts, number : AttemptNumbers, hash : Templates]

VARIABLES worker,  \* the task each worker runs
          wire,    \* what became of the create request of each attempt
          jira,    \* the issues at Jira, with the attempt each came from
          aborts

vars == <<storeVars, worker, wire, jira, aborts>>

Issue == [draft : Drafts, number : AttemptNumbers, hash : Templates]
WireStatus == {"unsent", "inflight", "applied", "rejected", "lost"}
Steps == {"idle", "cas", "latest", "claim", "dispatch", "await", "query",
          "settle", "publish", "finish", "save", "cancel"}
Results == {"none", "success", "failed", "unknown"}

\* A task: the call, its next step, and its local variables: the draft as it
\* was read (revision, template), the attempt it holds, what it learnt.
Task == [op : AllOperations \cup {"none"}, pc : Steps,
         d : Drafts \cup {NoDraft}, rev : Nat,
         tpl : Templates \cup {NoTemplate}, num : 0 .. MaxAttempts + 1,
         res : Results, key : IssueKeys \cup {NoKey}]

Idle == [op |-> "none", pc |-> "idle", d |-> NoDraft, rev |-> 0,
         tpl |-> NoTemplate, num |-> 0, res |-> "none", key |-> NoKey]

TypeOK ==
  /\ StoreTypeOK
  /\ worker \in [Workers -> Task]
  /\ wire \in [Drafts -> [AttemptNumbers -> WireStatus]]
  /\ jira \in [IssueKeys -> Issue \cup {NoIssue}]
  /\ aborts \in 0 .. MaxAborts

Init ==
  /\ EmptyStore
  /\ worker = [w \in Workers |-> Idle]
  /\ wire = [d \in Drafts |-> [n \in AttemptNumbers |-> "unsent"]]
  /\ jira = [k \in IssueKeys |-> NoIssue]
  /\ aborts = 0

-----------------------------------------------------------------------------

At(w, op, pc) == worker[w].op = op /\ worker[w].pc = pc

End(w) == worker' = [worker EXCEPT ![w] = Idle]

\* A call begins by reading the row of d; recovery also reads the issue.
Start(w, op, pc, d) ==
  /\ worker[w].pc = "idle"
  /\ op \in Operations
  /\ worker' = [worker EXCEPT ![w] =
                  [op |-> op, pc |-> pc, d |-> d,
                   rev |-> draft[d].revision, tpl |-> draft[d].template,
                   num |-> 0, res |-> "none",
                   key |-> IF op = "recover" THEN published[d] ELSE NoKey]]

Step(w, pc) == worker' = [worker EXCEPT ![w].pc = pc]

\* The task knows the outcome of its attempt and will now write it down.
Outcome(w, res, key) ==
  worker' = [worker EXCEPT ![w].pc = "settle", ![w].res = res, ![w].key = key]

external == <<wire, jira>>

-----------------------------------------------------------------------------
(* Drafts are made, edited and cancelled.                                  *)

CreateManualDraft(d) ==
  /\ \E t \in Templates : InsertRow(d, "REVIEW", t)
  /\ UNCHANGED <<attempts, latest, published, worker, external, aborts>>

\* update_template reads the draft, then saves the edited one in REVIEW.  The
\* first conjunct bounds the edits.
EditRead(w, d) ==
  /\ draft[d].revision < MaxRevision
  /\ \/ draft[d].state \in {"REVIEW", "EDITING", "SUBMISSION_RETRYABLE"}
     \/ draft[d].state # Absent /\ IsTransitionAllowed(draft[d].state, "REVIEW")
  /\ Start(w, "edit", "save", d)
  /\ UNCHANGED <<storeVars, external, aborts>>

EditSave(w) ==
  LET t == worker[w]
  IN  /\ At(w, "edit", "save")
      /\ \/ /\ SaveAccepted(t.d, t.rev, "REVIEW")
            /\ \E new \in Templates : SaveRow(t.d, "REVIEW", new)
         \/ ~SaveAccepted(t.d, t.rev, "REVIEW") /\ UNCHANGED draft
      /\ End(w)
      /\ UNCHANGED <<attempts, latest, published, external, aborts>>

CancelRead(w, d) ==
  /\ IsTransitionAllowed(draft[d].state, "CANCELLED")
  /\ Start(w, "cancel", "cancel", d)
  /\ UNCHANGED <<storeVars, external, aborts>>

CancelDraft(w) ==
  LET t == worker[w]
  IN  /\ At(w, "cancel", "cancel")
      /\ \/ CasAccepted(t.d, t.rev, "CANCELLED") /\ CompareAndSwap(t.d, "CANCELLED")
         \/ ~CasAccepted(t.d, t.rev, "CANCELLED") /\ UNCHANGED draft
      /\ End(w)
      /\ UNCHANGED <<attempts, latest, published, external, aborts>>

-----------------------------------------------------------------------------
(* submit: move the row to SUBMITTING, claim an attempt, send, record.     *)

\* The bound on attempts is on the calls that start.
SubmitRead(w, d) ==
  /\ draft[d].state \in {"REVIEW", "SUBMISSION_RETRYABLE"}
  /\ latest[d] < MaxAttempts
  /\ Start(w, "submit", "cas", d)
  /\ UNCHANGED <<storeVars, external, aborts>>

SubmitCas(w) ==
  LET t == worker[w]
  IN  /\ At(w, "submit", "cas")
      /\ \/ /\ CasAccepted(t.d, t.rev, "SUBMITTING")
            /\ CompareAndSwap(t.d, "SUBMITTING")
            /\ worker' = [worker EXCEPT ![w].pc = "latest", ![w].rev = @ + 1]
         \/ /\ ~CasAccepted(t.d, t.rev, "SUBMITTING")
            /\ End(w)
            /\ UNCHANGED draft
      /\ UNCHANGED <<attempts, latest, published, external, aborts>>

NewAttempt(w) ==
  /\ At(w, "submit", "latest")
  /\ worker' = [worker EXCEPT ![w].pc = "claim",
                              ![w].num = latest[worker[w].d] + 1]
  /\ UNCHANGED <<storeVars, external, aborts>>

\* A refused claim raises: the task ends, which is Abort.
SubmitClaim(w) ==
  LET t == worker[w]
  IN  /\ At(w, "submit", "claim")
      /\ ClaimAccepted(t.d, t.num)
      /\ ClaimAttempt(t.d, t.num, t.tpl)
      /\ Step(w, "dispatch")
      /\ UNCHANGED <<draft, published, external, aborts>>

Dispatch(w) ==
  LET t == worker[w]
  IN  /\ At(w, "submit", "dispatch")
      /\ wire' = [wire EXCEPT ![t.d][t.num] = "inflight"]
      /\ Step(w, "await")
      /\ UNCHANGED <<storeVars, jira, aborts>>

-----------------------------------------------------------------------------
(* Jira, and what the gateway makes of its answer.                         *)

JiraCreates(d, n, k) ==
  /\ wire[d][n] = "inflight"
  /\ jira[k] = NoIssue
  /\ wire' = [wire EXCEPT ![d][n] = "applied"]
  /\ jira' = [jira EXCEPT ![k] =
                [draft |-> d, number |-> n, hash |-> attempts[d][n].hash]]
  /\ UNCHANGED <<storeVars, worker, aborts>>

JiraRefuses(d, n) ==
  /\ wire[d][n] = "inflight"
  /\ \E s \in {"rejected", "lost"} : wire' = [wire EXCEPT ![d][n] = s]
  /\ UNCHANGED <<storeVars, worker, jira, aborts>>

Reply(w) == wire[worker[w].d][worker[w].num]

ReceiveCreated(w) ==
  /\ At(w, "submit", "await")
  /\ Reply(w) = "applied"
  /\ \E k \in IssueKeys :
       /\ jira[k] # NoIssue
       /\ jira[k].draft = worker[w].d
       /\ jira[k].number = worker[w].num
       /\ Outcome(w, "success", k)
  /\ UNCHANGED <<storeVars, external, aborts>>

\* A 4xx: the gateway classifies the mutation as definitely not applied.
ReceiveRejection(w) ==
  /\ At(w, "submit", "await")
  /\ Reply(w) = "rejected"
  /\ Outcome(w, "failed", NoKey)
  /\ UNCHANGED <<storeVars, external, aborts>>

\* A 2xx without the expected body: a contract error, whose certainty is
\* "not applicable" and which _finish_failure treats as a definite failure.
ReceiveContractError(w) ==
  /\ MalformedReplies
  /\ At(w, "submit", "await")
  /\ Reply(w) = "applied"
  /\ Outcome(w, "failed", NoKey)
  /\ UNCHANGED <<storeVars, external, aborts>>

\* Mutants of ReceiveNothing: a timeout taken for a refusal, and a client
\* without a timeout.
TimeoutIsFailure(w) ==
  /\ At(w, "submit", "await")
  /\ Outcome(w, "failed", NoKey)
  /\ UNCHANGED <<storeVars, external, aborts>>
NoTimeout(w) == At(w, "submit", "await") /\ Reply(w) = "lost"
                  /\ Outcome(w, "unknown", NoKey)
                  /\ UNCHANGED <<storeVars, external, aborts>>

\* A timeout, a transport error or a 5xx, at any moment.
ReceiveNothing(w) ==
  /\ At(w, "submit", "await")
  /\ Outcome(w, "unknown", NoKey)
  /\ UNCHANGED <<storeVars, external, aborts>>

-----------------------------------------------------------------------------
(* The shared tail: write the attempt's outcome, store the issue, move the *)
(* row.  Each write may find that another task was there before it.        *)

\* Mutant of Target: an unknown outcome may be retried.
UnknownIsRetryable(res) == IF res = "success" THEN "CREATED"
                             ELSE "SUBMISSION_RETRYABLE"

Target(res) == CASE res = "success" -> "CREATED"
                 [] res = "failed" -> "SUBMISSION_RETRYABLE"
                 [] OTHER -> "SUBMISSION_UNKNOWN"

\* Mutants of Settle: the attempt's outcome is not recorded; the issue of a
\* success is not stored.
SettleForgetsAttempt(w) ==
  /\ worker[w].pc = "settle"
  /\ Step(w, IF worker[w].res = "success" THEN "publish" ELSE "finish")
  /\ UNCHANGED <<storeVars, external, aborts>>
SettleForgetsIssue(w) ==
  /\ worker[w].pc = "settle"
  /\ UpdateAccepted(worker[w].d, worker[w].num, worker[w].res)
  /\ UpdateAttempt(worker[w].d, worker[w].num, worker[w].res)
  /\ Step(w, "finish")
  /\ UNCHANGED <<draft, latest, published, external, aborts>>

Settle(w) ==
  LET t == worker[w]
  IN  /\ t.pc = "settle"
      /\ \/ /\ UpdateAccepted(t.d, t.num, t.res)
            /\ UpdateAttempt(t.d, t.num, t.res)
            /\ Step(w, IF t.res = "success" /\ t.op # "recover"
                         THEN "publish" ELSE "finish")
         \/ /\ ~UpdateAccepted(t.d, t.num, t.res)
            /\ End(w)
            /\ UNCHANGED attempts
      /\ UNCHANGED <<draft, latest, published, external, aborts>>

Publish(w) ==
  LET t == worker[w]
  IN  /\ t.pc = "publish"
      /\ \/ /\ PublishAccepted(t.d, t.key)
            /\ StorePublishedIssue(t.d, t.key)
            /\ Step(w, "finish")
         \/ /\ ~PublishAccepted(t.d, t.key)
            /\ End(w)
            /\ UNCHANGED published
      /\ UNCHANGED <<draft, attempts, latest, external, aborts>>

Finish(w) ==
  LET t == worker[w]
  IN  /\ t.pc = "finish"
      /\ \/ CasAccepted(t.d, t.rev, Target(t.res)) /\ CompareAndSwap(t.d, Target(t.res))
         \/ ~CasAccepted(t.d, t.rev, Target(t.res)) /\ UNCHANGED draft
      /\ End(w)
      /\ UNCHANGED <<attempts, latest, published, external, aborts>>

-----------------------------------------------------------------------------
(* recover_stalled: what a restart makes of a row left in SUBMITTING.      *)

RecoverRead(w, d) ==
  /\ draft[d].state = "SUBMITTING"
  /\ Start(w, "recover", "latest", d)
  /\ UNCHANGED <<storeVars, external, aborts>>

LatestStatus(d) ==
  IF latest[d] = 0 THEN "none" ELSE attempts[d][latest[d]].status

RecoverLatest(w) ==
  LET t == worker[w]
      hold(pc, res) == worker' = [worker EXCEPT ![w].pc = pc, ![w].res = res,
                                                ![w].num = latest[t.d]]
  IN  /\ At(w, "recover", "latest")
      /\ \/ /\ t.key # NoKey
            /\ LatestStatus(t.d) # "none"
            /\ hold(IF LatestStatus(t.d) = "success" THEN "finish" ELSE "settle",
                    "success")
         \/ /\ t.key = NoKey
            /\ LatestStatus(t.d) = "pending"
            /\ hold("settle", "unknown")
         \/ /\ t.key = NoKey
            /\ LatestStatus(t.d) # "pending"
            /\ End(w)
      /\ UNCHANGED <<storeVars, external, aborts>>

-----------------------------------------------------------------------------
(* reconcile_create: ask Jira for issues that carry the attempt's hash.    *)

ReconcileRead(w, d) ==
  /\ draft[d].state = "SUBMISSION_UNKNOWN"
  /\ Start(w, "reconcile", "latest", d)
  /\ UNCHANGED <<storeVars, external, aborts>>

\* reconcile_create and allow_retry_after_negative_reconciliation check the
\* attempt they read, in a second transaction, against the draft of the first.
HoldUnknown(w, pc, res) ==
  LET t == worker[w]
  IN  \/ /\ LatestStatus(t.d) = "unknown"
         /\ worker' = [worker EXCEPT ![w].pc = pc, ![w].res = res,
                                     ![w].num = latest[t.d]]
      \/ LatestStatus(t.d) # "unknown" /\ End(w)

ReconcileLatest(w) ==
  /\ At(w, "reconcile", "latest")
  /\ HoldUnknown(w, "query", "none")
  /\ UNCHANGED <<storeVars, external, aborts>>

\* The search index lags, so a search sees any subset of the matches.  One
\* result settles the attempt; none or several are inconclusive.
ReconcileQuery(w) ==
  LET t == worker[w]
      matches == {k \in IssueKeys :
                    jira[k] # NoIssue /\ jira[k].hash = attempts[t.d][t.num].hash}
  IN  /\ At(w, "reconcile", "query")
      /\ \/ \E k \in matches : Outcome(w, "success", k)
         \/ End(w)
      /\ UNCHANGED <<storeVars, external, aborts>>

\* A human has established that Jira did not create the issue.
CannotBeCreated(d, n) ==
  \/ wire[d][n] \in {"rejected", "lost"}
  \/ /\ wire[d][n] = "unsent"
     /\ ~ \E w \in Workers : /\ At(w, "submit", "dispatch")
                             /\ worker[w].d = d
                             /\ worker[w].num = n

AllowRetryRead(w, d) ==
  /\ draft[d].state = "SUBMISSION_UNKNOWN"
  /\ TrustworthyReview => latest[d] > 0 /\ CannotBeCreated(d, latest[d])
  /\ Start(w, "allow_retry", "latest", d)
  /\ UNCHANGED <<storeVars, external, aborts>>

AllowRetryLatest(w) ==
  /\ At(w, "allow_retry", "latest")
  /\ HoldUnknown(w, "settle", "failed")
  /\ UNCHANGED <<storeVars, external, aborts>>

Abort(w) ==
  /\ worker[w].pc # "idle"
  /\ aborts < MaxAborts
  /\ aborts' = aborts + 1
  /\ End(w)
  /\ UNCHANGED <<storeVars, external>>

-----------------------------------------------------------------------------

\* A task that has begun goes on; Jira answers; nothing new is asked.
Proceed(w) ==
  \/ EditSave(w) \/ CancelDraft(w)
  \/ SubmitCas(w) \/ NewAttempt(w) \/ SubmitClaim(w) \/ Dispatch(w)
  \/ ReceiveCreated(w) \/ ReceiveRejection(w) \/ ReceiveContractError(w)
  \/ ReceiveNothing(w)
  \/ RecoverLatest(w) \/ ReconcileLatest(w) \/ ReconcileQuery(w)
  \/ AllowRetryLatest(w)
  \/ Settle(w) \/ Publish(w) \/ Finish(w)

Begin(w, d) ==
  \/ EditRead(w, d) \/ CancelRead(w, d) \/ SubmitRead(w, d)
  \/ RecoverRead(w, d) \/ ReconcileRead(w, d) \/ AllowRetryRead(w, d)

JiraStep(d, n) == JiraRefuses(d, n) \/ \E k \in IssueKeys : JiraCreates(d, n, k)

Next ==
  \/ \E d \in Drafts : CreateManualDraft(d)
  \/ \E w \in Workers, d \in Drafts : Begin(w, d)
  \/ \E w \in Workers : Proceed(w) \/ Abort(w)
  \/ \E d \in Drafts, n \in AttemptNumbers : JiraStep(d, n)

Spec == Init /\ [][Next]_vars

\* The event loop runs every ready task, and every exchange ends: the client
\* has a timeout.
FairSpec == Spec /\ \A w \in Workers : WF_vars(Proceed(w))

-----------------------------------------------------------------------------
(* Properties.                                                             *)

\* States from which a draft may be submitted, edited or thrown away: nobody
\* who sees it there expects an issue at Jira.
OpenStates == {Absent, "REVIEW", "EDITING", "SUBMISSION_RETRYABLE",
               "CANCELLED", "EXPIRED"}

\* A draft is submitted to Jira at most once successfully: whatever tasks
\* crash, race or time out, no two issues come from one draft.
AtMostOneIssue ==
  \A j, k \in IssueKeys :
    jira[j] # NoIssue /\ jira[k] # NoIssue /\ jira[j].draft = jira[k].draft
      => j = k

\* A draft offered for another submission, for editing or cancelled has no
\* issue at Jira, and no request that could still make one: the retry buttons
\* and the cancellation tell the truth.
OpenMeansNotCreated ==
  \A d \in Drafts : draft[d].state \in OpenStates =>
    \A n \in 1 .. latest[d] : wire[d][n] \notin {"inflight", "applied"}

\* A new attempt is claimed only when every earlier one is known to have
\* failed: an attempt pending or of unknown outcome is never followed by
\* another dispatch.
NoDispatchWhileUnresolved ==
  \A d \in Drafts : \A n \in 1 .. latest[d] :
    n < latest[d] => attempts[d][n].status = "failed"

\* The move to SUBMITTING is the lock: the task that won it never finds its
\* claim refused, so the row is not stranded by the claim.
ClaimNeverRefused ==
  \A w \in Workers :
    At(w, "submit", "claim") => ClaimAccepted(worker[w].d, worker[w].num)

\* The issue made from a draft has the content the draft has: what the user
\* confirmed, not what an edit racing the submission left.
IssueIsWhatWasConfirmed ==
  \A k \in IssueKeys :
    jira[k] # NoIssue => jira[k].hash = draft[jira[k].draft].template

\* A created draft names an issue that exists, with the draft's content, and
\* its last attempt is recorded as a success.
CreatedIsBacked ==
  \A d \in Drafts : draft[d].state \in PublishedStates =>
    /\ published[d] # NoKey
    /\ jira[published[d]] # NoIssue
    /\ jira[published[d]].hash = draft[d].template
    /\ LatestStatus(d) = "success"

\* An issue once stored for a draft is never replaced by another, unless one
\* of the two was made from another draft: a search by content cannot tell two
\* drafts with the same content apart.
PublishedIsStable ==
  [][\A d \in Drafts :
       published[d] # NoKey /\ published'[d] # published[d] =>
         /\ published'[d] # NoKey
         /\ \E k \in {published[d], published'[d]} : jira'[k].draft # d]_vars

\* A submission that began comes to a state that says how it ended.
SubmissionSettles ==
  \A d \in Drafts :
    draft[d].state = "SUBMITTING" ~> draft[d].state # "SUBMITTING"

\* No task works on the draft.
Quiet(d) == \A w \in Workers : worker[w].d # d

\* "Recover local crash windows" (recover_stalled): a row left in SUBMITTING
\* by tasks that are gone is one recover_stalled accepts.
CrashWindowsRecoverable ==
  \A d \in Drafts : draft[d].state = "SUBMITTING" /\ Quiet(d) =>
    \/ published[d] # NoKey
    \/ LatestStatus(d) = "pending"

\* "Unknown outcomes are reconciled": a row in SUBMISSION_UNKNOWN on which no
\* task works is one reconcile_create accepts.
UnknownIsReconcilable ==
  \A d \in Drafts : draft[d].state = "SUBMISSION_UNKNOWN" /\ Quiet(d) =>
    LatestStatus(d) = "unknown"

-----------------------------------------------------------------------------
(* The abstract view: the state column read as a phase, and whether Jira   *)
(* has an issue made from the draft.                                       *)

PhaseOf(s) == CASE s \in {"SUBMITTING"} -> "asking"
                [] s \in {"SUBMISSION_UNKNOWN"} -> "unsure"
                [] s \in PublishedStates -> "published"
                [] s \in {"CANCELLED", "EXPIRED"} -> "closed"
                [] OTHER -> "open"

IssueExists(d) == \E k \in IssueKeys : jira[k] # NoIssue /\ jira[k].draft = d

Publication == INSTANCE IssuePublication WITH
                 phase <- [d \in Drafts |-> PhaseOf(draft[d].state)],
                 exists <- [d \in Drafts |-> IssueExists(d)]

\* No draft has the content of an issue that was made from another.
DistinctContent ==
  \A k \in IssueKeys, d \in Drafts, n \in AttemptNumbers :
    jira[k] # NoIssue /\ attempts[d][n].status # "none"
      /\ jira[k].hash = attempts[d][n].hash
      => jira[k].draft = d

\* Submission, with its crashes, races and lost answers, implements
\* IssuePublication as long as contents are distinct.
ImplementsPublication == Publication!Spec

=============================================================================
