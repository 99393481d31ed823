-------------------------- MODULE SubmissionProofs --------------------------
(***************************************************************************)
(* Invariance proofs for Submission, and the refinement of                 *)
(* IssuePublication: for any number of workers, drafts, templates, issue   *)
(* keys, attempts and aborts.                                              *)
(*                                                                         *)
(* The argument.  The move to SUBMITTING is a lock taken by comparing      *)
(* revisions: its winner is the only submit task whose revision is the     *)
(* row's (Exclusive), and as long as it has claimed nothing, every attempt *)
(* of the draft is closed (HoldsLock).  A closed attempt is recorded as    *)
(* failed and, if answers and reviews can be trusted, can no longer make   *)
(* an issue.  So an attempt is claimed only after closed ones, at most the *)
(* latest attempt can ever have an issue, and a row is given back to the   *)
(* user only by a task that still holds the row's revision and knows the   *)
(* latest attempt closed (SubmitTask, RetryTask).                          *)
(***************************************************************************)
EXTENDS Submission, TLAPS

-----------------------------------------------------------------------------
(* The inductive invariant.                                                *)

Trusted == ~MalformedReplies /\ TrustworthyReview

Closed(d, n) == /\ attempts[d][n].status = "failed"
                /\ Trusted => CannotBeCreated(d, n)

AllClosed(d) == \A n \in AttemptNumbers : n <= latest[d] => Closed(d, n)

Succeeded(d) == \E n \in AttemptNumbers : attempts[d][n].status = "success"

\* The states this module's calls take a draft to.
Reached == {Absent, "REVIEW", "SUBMITTING", "SUBMISSION_RETRYABLE",
            "SUBMISSION_UNKNOWN", "CREATED", "CANCELLED"}

RowOK(d) ==
  /\ draft[d].state \in Reached
  /\ draft[d].state = Absent <=> draft[d].revision = 0
  /\ draft[d].state # Absent => draft[d].template \in Templates
  /\ draft[d].state \in OpenStates => AllClosed(d)
  /\ published[d] # NoKey => Succeeded(d)

AttemptOK(d, n) ==
  /\ n <= latest[d] <=> attempts[d][n].status # "none"
  /\ n > latest[d] => wire[d][n] = "unsent"
  /\ n < latest[d] => Closed(d, n)
  /\ n <= latest[d] => attempts[d][n].hash \in Templates
  /\ n <= latest[d] /\ Trusted =>
       CannotBeCreated(d, n) \/ attempts[d][n].hash = draft[d].template

IssueOK(k) ==
  jira[k] # NoIssue =>
    /\ jira[k].number <= latest[jira[k].draft]
    /\ wire[jira[k].draft][jira[k].number] = "applied"
    /\ jira[k].hash = attempts[jira[k].draft][jira[k].number].hash

OneIssuePerAttempt ==
  \A j, k \in IssueKeys :
    /\ jira[j] # NoIssue /\ jira[k] # NoIssue
    /\ jira[j].draft = jira[k].draft /\ jira[j].number = jira[k].number
    => j = k

-----------------------------------------------------------------------------
(* What a task knows at each of its steps.  Its knowledge of the row holds *)
(* as long as the row's revision is the one it has.                        *)

RunsStep(op, pc) ==
  \/ op = "submit" /\ pc \in {"cas", "latest", "claim", "dispatch", "await",
                              "settle", "publish", "finish"}
  \/ op = "recover" /\ pc \in {"latest", "settle", "finish"}
  \/ op = "reconcile" /\ pc \in {"latest", "query", "settle", "publish", "finish"}
  \/ op = "allow_retry" /\ pc \in {"latest", "settle", "finish"}
  \/ op = "edit" /\ pc = "save"
  \/ op = "cancel" /\ pc = "cancel"
  \/ op = "none" /\ pc = "idle"

Sending == {"dispatch", "await", "settle", "publish", "finish"}
Settling == {"settle", "publish", "finish"}

Current(w) == worker[w].rev = draft[worker[w].d].revision

TaskShape(w) ==
  LET t == worker[w]
  IN  /\ RunsStep(t.op, t.pc)
      /\ t.pc # "idle" =>
           /\ t.d \in Drafts
           /\ t.rev \in 1 .. draft[t.d].revision
      /\ t.op # "submit" /\ t.pc \in Settling \cup {"query"} =>
           t.num \in AttemptNumbers /\ t.num <= latest[t.d]
      /\ t.pc = "publish" => /\ t.res = "success"
                             /\ Succeeded(t.d)
      /\ t.res = "failed" => t.op \in {"submit", "allow_retry"}
      /\ t.op = "allow_retry" /\ t.pc \in Settling => t.res = "failed"
      /\ t.op = "recover" /\ t.key # NoKey => Succeeded(t.d)

HoldsLock(w) ==
  LET t == worker[w]
  IN  t.op = "submit" /\ t.pc \in {"latest", "claim"} =>
        /\ Current(w)
        /\ draft[t.d].state = "SUBMITTING"
        /\ latest[t.d] < MaxAttempts
        /\ AllClosed(t.d)
        /\ t.tpl = draft[t.d].template
        /\ t.pc = "claim" => t.num = latest[t.d] + 1

SubmitTask(w) ==
  LET t == worker[w]
  IN  /\ t.op = "submit" /\ t.pc = "cas" /\ Current(w) =>
           /\ draft[t.d].state \in {"REVIEW", "SUBMISSION_RETRYABLE"}
           /\ latest[t.d] < MaxAttempts
           /\ t.tpl = draft[t.d].template
      /\ t.op = "submit" /\ t.pc \in Sending =>
           /\ t.num \in AttemptNumbers
           /\ t.num <= latest[t.d]
           /\ Current(w) => t.num = latest[t.d] /\ draft[t.d].state = "SUBMITTING"
           /\ t.pc = "dispatch" => wire[t.d][t.num] = "unsent"
           /\ t.pc \in Settling /\ t.res = "failed" /\ Trusted =>
                wire[t.d][t.num] = "rejected"
           /\ t.pc = "finish" /\ t.res = "failed" =>
                attempts[t.d][t.num].status = "failed"

RecoverTask(w) ==
  worker[w].op = "recover" /\ Current(w) =>
    draft[worker[w].d].state = "SUBMITTING"

ReconcileTask(w) ==
  worker[w].op = "reconcile" /\ Current(w) =>
    draft[worker[w].d].state = "SUBMISSION_UNKNOWN"

RetryTask(w) ==
  LET t == worker[w]
  IN  t.op = "allow_retry" /\ Current(w) =>
        /\ draft[t.d].state = "SUBMISSION_UNKNOWN"
        /\ Trusted => latest[t.d] > 0 /\ CannotBeCreated(t.d, latest[t.d])
        /\ t.pc \in Settling => t.num = latest[t.d]
        /\ t.pc = "finish" => attempts[t.d][t.num].status = "failed"

TaskOK(w) == /\ TaskShape(w) /\ HoldsLock(w) /\ SubmitTask(w)
             /\ RecoverTask(w) /\ ReconcileTask(w) /\ RetryTask(w)

\* Of two tasks on one draft: two submissions never took the lock with the
\* same revision nor hold the same attempt, and recover_stalled never settles
\* under a submission that has yet to claim.
Exclusive(v, w) ==
  LET s == worker[v]
      t == worker[w]
  IN  s.d = t.d /\ s.op = "submit" /\ s.pc # "cas" =>
        /\ t.op = "submit" /\ t.pc # "cas" => s.rev # t.rev
        /\ /\ t.op = "submit" /\ t.pc \in Sending
           /\ s.pc \in Sending
           => s.num # t.num
        /\ /\ t.op = "recover" /\ t.pc \in Settling
           /\ s.pc \in {"latest", "claim"}
           => s.rev # t.rev

Inv ==
  /\ TypeOK
  /\ \A d \in Drafts : RowOK(d)
  /\ \A d \in Drafts, n \in AttemptNumbers : AttemptOK(d, n)
  /\ \A k \in IssueKeys : IssueOK(k)
  /\ OneIssuePerAttempt
  /\ \A w \in Workers : TaskOK(w)
  /\ \A v, w \in Workers : v # w => Exclusive(v, w)

-----------------------------------------------------------------------------
(* Lemmas about the state machine of drafts and the helper operators.      *)

\* Who may be moved where, among the states reached.
LEMMA FsmFacts ==
  ASSUME NEW s
  PROVE /\ IsTransitionAllowed(s, "SUBMITTING") =>
             s \in {"REVIEW", "SUBMISSION_RETRYABLE"}
        /\ IsTransitionAllowed(s, "CANCELLED") /\ s \in Reached =>
             s \in {"REVIEW", "SUBMISSION_RETRYABLE"}
        /\ IsTransitionAllowed(s, "REVIEW") => s \notin Reached
        /\ IsTransitionAllowed(s, "CREATED") =>
             s \in {"SUBMITTING", "SUBMISSION_UNKNOWN"}
        /\ IsTransitionAllowed(s, "SUBMISSION_RETRYABLE") =>
             s \in {"SUBMITTING", "SUBMISSION_UNKNOWN"}
        /\ IsTransitionAllowed(s, "SUBMISSION_UNKNOWN") => s = "SUBMITTING"
        /\ ~IsTransitionAllowed(Absent, s)
  BY DEF IsTransitionAllowed, LegalTransitions, Reached, Absent

LEMMA TargetFacts ==
  /\ Target("success") = "CREATED"
  /\ Target("failed") = "SUBMISSION_RETRYABLE"
  /\ Target("unknown") = "SUBMISSION_UNKNOWN"
  /\ Target("none") = "SUBMISSION_UNKNOWN"
  BY Zenon DEF Target

-----------------------------------------------------------------------------
(* The initial states.                                                     *)

LEMMA InitInv == Init => Inv
<1> SUFFICES ASSUME Init PROVE Inv
  OBVIOUS
<1> USE StoreAssumption, SubmissionAssumption DEF Init, EmptyStore
<1>1. TypeOK
  BY DEF TypeOK, StoreTypeOK, Row, Attempt, NoAttempt, Task, Idle, Absent,
         AttemptNumbers, AllOperations, Steps, Results, WireStatus
<1>2. \A d \in Drafts : RowOK(d)
  BY DEF RowOK, Reached, AllClosed, Absent, AttemptNumbers
<1>3. \A d \in Drafts, n \in AttemptNumbers : AttemptOK(d, n)
  BY DEF AttemptOK, AttemptNumbers, NoAttempt
<1>4. (\A k \in IssueKeys : IssueOK(k)) /\ OneIssuePerAttempt
  BY DEF IssueOK, OneIssuePerAttempt
<1>5. \A w \in Workers : TaskOK(w)
  BY DEF TaskOK, TaskShape, HoldsLock, SubmitTask, RecoverTask, ReconcileTask,
         RetryTask, RunsStep, Sending, Settling, Idle
<1>6. \A v, w \in Workers : v # w => Exclusive(v, w)
  BY DEF Exclusive, Idle
<1> QED
  BY <1>1, <1>2, <1>3, <1>4, <1>5, <1>6 DEF Inv

-----------------------------------------------------------------------------
(* Type correctness.                                                       *)

LEMMA IdleType == Idle \in Task
  BY StoreAssumption DEF Idle, Task, Steps, Results

LEMMA EndType ==
  ASSUME worker \in [Workers -> Task], NEW w \in Workers, End(w)
  PROVE worker' \in [Workers -> Task]
  BY IdleType DEF End

LEMMA StepType ==
  ASSUME worker \in [Workers -> Task], NEW w \in Workers, NEW pc \in Steps,
         Step(w, pc)
  PROVE worker' \in [Workers -> Task]
  BY DEF Step, Task

LEMMA OutcomeType ==
  ASSUME worker \in [Workers -> Task], NEW w \in Workers,
         NEW r \in Results, NEW k \in IssueKeys \cup {NoKey}, Outcome(w, r, k)
  PROVE worker' \in [Workers -> Task]
<1>1. [worker[w] EXCEPT !.pc = "settle", !.res = r, !.key = k] \in Task
  <2>1. worker[w] \in Task /\ "settle" \in Steps
    BY DEF Steps
  <2> QED
    BY <2>1 DEF Task
<1>2. worker' = [worker EXCEPT ![w] = [worker[w] EXCEPT
                   !.pc = "settle", !.res = r, !.key = k]]
  BY DEF Outcome
<1> QED
  BY <1>1, <1>2

\* The tasks that learn an outcome from the latest attempt.
LEMMA HoldType ==
  ASSUME worker \in [Workers -> Task], NEW w \in Workers,
         NEW pc \in Steps, NEW r \in Results, NEW n \in 0 .. MaxAttempts + 1,
         worker' = [worker EXCEPT ![w].pc = pc, ![w].res = r, ![w].num = n]
  PROVE worker' \in [Workers -> Task]
<1>1. [worker[w] EXCEPT !.pc = pc, !.res = r, !.num = n] \in Task
  BY DEF Task
<1>2. worker' = [worker EXCEPT ![w] =
                   [worker[w] EXCEPT !.pc = pc, !.res = r, !.num = n]]
  OBVIOUS
<1> QED
  BY <1>1, <1>2

LEMMA CasType ==
  ASSUME draft \in [Drafts -> Row], NEW d \in Drafts, NEW s \in DraftState,
         CompareAndSwap(d, s)
  PROVE draft' \in [Drafts -> Row]
<1>1. draft[d].revision + 1 \in Nat
  BY DEF Row
<1>2. [draft[d] EXCEPT !.state = s, !.revision = draft[d].revision + 1] \in Row
  BY <1>1 DEF Row
<1>3. draft' = [draft EXCEPT ![d] =
        [draft[d] EXCEPT !.state = s, !.revision = draft[d].revision + 1]]
  BY DEF CompareAndSwap
<1> QED
  BY <1>2, <1>3

LEMMA UpdateType ==
  ASSUME attempts \in [Drafts -> [AttemptNumbers -> Attempt]],
         NEW d \in Drafts, NEW n \in AttemptNumbers, NEW s \in Results,
         UpdateAttempt(d, n, s)
  PROVE attempts' \in [Drafts -> [AttemptNumbers -> Attempt]]
<1>1. [status |-> s, hash |-> attempts[d][n].hash] \in Attempt
  BY DEF Attempt, AttemptStatus, Results
<1>2. [attempts[d] EXCEPT ![n] = [status |-> s, hash |-> attempts[d][n].hash]]
        \in [AttemptNumbers -> Attempt]
  BY <1>1
<1>3. attempts' = [attempts EXCEPT ![d] = [attempts[d] EXCEPT
                     ![n] = [status |-> s, hash |-> attempts[d][n].hash]]]
  BY DEF UpdateAttempt
<1> QED
  BY <1>2, <1>3

LEMMA StartType ==
  ASSUME worker \in [Workers -> Task], NEW w \in Workers, NEW op,
         NEW pc \in Steps, NEW d \in Drafts, draft[d] \in Row,
         published[d] \in IssueKeys \cup {NoKey}, Start(w, op, pc, d)
  PROVE worker' \in [Workers -> Task]
<1> DEFINE t == [op |-> op, pc |-> pc, d |-> d,
                 rev |-> draft[d].revision, tpl |-> draft[d].template,
                 num |-> 0, res |-> "none",
                 key |-> IF op = "recover" THEN published[d] ELSE NoKey]
<1>1. t \in Task
  <2>1. op \in AllOperations
    BY SubmissionAssumption DEF Start
  <2>2. draft[d].revision \in Nat /\ draft[d].template \in Templates \cup {NoTemplate}
    BY DEF Row
  <2> QED
    BY <2>1, <2>2, StoreAssumption DEF Task, Results
<1>2. worker' = [worker EXCEPT ![w] = t]
  BY DEF Start
<1> QED
  BY <1>1, <1>2

LEMMA TypeBegin ==
  ASSUME TypeOK, NEW w \in Workers, NEW d \in Drafts, Begin(w, d)
  PROVE TypeOK'
<1>1. UNCHANGED <<storeVars, external, aborts>>
  BY DEF Begin, EditRead, CancelRead, SubmitRead, RecoverRead,
         ReconcileRead, AllowRetryRead
<1>2. worker' \in [Workers -> Task]
  <2>1. \E op \in AllOperations, pc \in Steps : Start(w, op, pc, d)
    BY DEF Begin, EditRead, CancelRead, SubmitRead, RecoverRead, ReconcileRead,
           AllowRetryRead, AllOperations, Steps
  <2> QED
    BY <2>1, StartType DEF TypeOK, StoreTypeOK
<1> QED
  BY <1>1, <1>2 DEF TypeOK, StoreTypeOK, storeVars, external

LEMMA TaskFacts ==
  ASSUME Inv, NEW w \in Workers, worker[w].pc # "idle"
  PROVE /\ worker[w] \in Task
        /\ worker[w].d \in Drafts
        /\ worker[w].rev \in 1 .. draft[worker[w].d].revision
        /\ draft[worker[w].d] \in Row
        /\ draft[worker[w].d].state \in Reached
        /\ worker[w].pc = "settle" => worker[w].num \in AttemptNumbers
        /\ worker[w].pc \in Sending => worker[w].num \in AttemptNumbers
<1> DEFINE t == worker[w]
<1>1. /\ t \in Task
      /\ TaskShape(w) /\ SubmitTask(w)
      /\ \A d \in Drafts : RowOK(d) /\ draft[d] \in Row
  BY DEF Inv, TypeOK, StoreTypeOK, TaskOK
<1>2. t.d \in Drafts /\ t.rev \in 1 .. draft[t.d].revision
  BY <1>1 DEF TaskShape
<1>3. t.pc \in Sending => t.num \in AttemptNumbers
  <2>1. CASE t.op = "submit"
    BY <1>1, <2>1 DEF SubmitTask
  <2>2. CASE t.op # "submit"
    BY <1>1, <2>2 DEF TaskShape, RunsStep, Sending, Settling
  <2> QED
    BY <2>1, <2>2
<1> QED
  BY <1>1, <1>2, <1>3 DEF RowOK, Sending

LEMMA TypeProceed ==
  ASSUME Inv, NEW w \in Workers, Proceed(w)
  PROVE TypeOK'
<1> DEFINE t == worker[w]
<1>t. TypeOK
  BY DEF Inv
<1>0. worker[w].pc # "idle"
  BY DEF Proceed, At, EditSave, CancelDraft, SubmitCas, NewAttempt, SubmitClaim,
         Dispatch, ReceiveCreated, ReceiveRejection, ReceiveContractError,
         ReceiveNothing, RecoverLatest, ReconcileLatest, ReconcileQuery,
         AllowRetryLatest, Settle, Publish, Finish
<1>f. /\ t \in Task
      /\ t.d \in Drafts
      /\ draft[t.d] \in Row
      /\ t.pc = "settle" => t.num \in AttemptNumbers
      /\ t.pc \in Sending => t.num \in AttemptNumbers
  BY <1>0, TaskFacts
<1>s. \A v \in DraftState : (draft' = draft \/ CompareAndSwap(t.d, v))
                             => draft' \in [Drafts -> Row]
  BY <1>t, <1>f, CasType DEF TypeOK, StoreTypeOK
<1>1. CASE EditSave(w)
  <2>1. draft' \in [Drafts -> Row]
    <3>1. \A new \in Templates :
            [state |-> "REVIEW", revision |-> draft[t.d].revision + 1,
             template |-> new] \in Row
      BY <1>f DEF Row, DraftState, CreateStates
    <3>2. draft \in [Drafts -> Row]
      BY <1>t DEF TypeOK, StoreTypeOK
    <3>3. draft' = draft \/ \E new \in Templates :
            draft' = [draft EXCEPT ![t.d] =
              [state |-> "REVIEW", revision |-> draft[t.d].revision + 1,
               template |-> new]]
      BY <1>1 DEF EditSave, SaveRow
    <3> QED
      BY <1>f, <3>1, <3>2, <3>3
  <2> QED
    BY <1>t, <1>1, <2>1, EndType DEF EditSave, TypeOK, StoreTypeOK, external
<1>2. CASE CancelDraft(w)
  <2>1. draft' \in [Drafts -> Row]
    BY <1>s, <1>2 DEF CancelDraft, DraftState, TerminalStates
  <2> QED
    BY <1>t, <1>2, <2>1, EndType DEF CancelDraft, TypeOK, StoreTypeOK, external
<1>3. CASE SubmitCas(w)
  <2>1. draft' \in [Drafts -> Row]
    BY <1>s, <1>3 DEF SubmitCas, DraftState, CreateStates
  <2>2. [t EXCEPT !.pc = "latest", !.rev = @ + 1] \in Task
    <3>1. t.rev + 1 \in Nat
      BY <1>f DEF Task
    <3> QED
      BY <1>f, <3>1 DEF Task, Steps
  <2>3. worker' \in [Workers -> Task]
    BY <1>t, <1>3, <2>2, EndType DEF SubmitCas, TypeOK
  <2> QED
    BY <1>t, <1>3, <2>1, <2>3 DEF SubmitCas, TypeOK, StoreTypeOK, external
<1>4. CASE NewAttempt(w)
  <2>1. latest[t.d] + 1 \in 0 .. MaxAttempts + 1
    BY <1>t, <1>f, StoreAssumption DEF TypeOK, StoreTypeOK
  <2>2. [t EXCEPT !.pc = "claim", !.num = latest[t.d] + 1] \in Task
    BY <1>f, <2>1 DEF Task, Steps
  <2>3. worker' \in [Workers -> Task]
    BY <1>t, <1>4, <2>2 DEF NewAttempt, TypeOK
  <2> QED
    BY <1>t, <1>4, <2>3 DEF NewAttempt, TypeOK, StoreTypeOK, storeVars, external
<1>5. CASE SubmitClaim(w)
  <2>1. t.num \in AttemptNumbers /\ t.num \in 0 .. MaxAttempts
    BY <1>5, StoreAssumption DEF SubmitClaim, ClaimAccepted, AttemptNumbers
  <2>2. [status |-> "pending", hash |-> t.tpl] \in Attempt
    BY <1>f DEF Task, Attempt, AttemptStatus
  <2>3. /\ attempts' \in [Drafts -> [AttemptNumbers -> Attempt]]
        /\ latest' \in [Drafts -> 0 .. MaxAttempts]
    BY <1>t, <1>5, <2>1, <2>2 DEF SubmitClaim, ClaimAttempt, TypeOK, StoreTypeOK
  <2> QED
    BY <1>t, <1>5, <2>3, StepType
       DEF SubmitClaim, TypeOK, StoreTypeOK, Steps, external
<1>6. CASE Dispatch(w)
  <2>1. wire' \in [Drafts -> [AttemptNumbers -> WireStatus]]
    BY <1>t, <1>6 DEF Dispatch, TypeOK, WireStatus
  <2> QED
    BY <1>t, <1>6, <2>1, StepType
       DEF Dispatch, TypeOK, StoreTypeOK, Steps, storeVars
<1>7. CASE \/ ReceiveCreated(w) \/ ReceiveRejection(w)
           \/ ReceiveContractError(w) \/ ReceiveNothing(w)
  <2>1. /\ \E r \in Results, k \in IssueKeys \cup {NoKey} : Outcome(w, r, k)
        /\ UNCHANGED <<storeVars, external, aborts>>
    BY <1>7 DEF ReceiveCreated, ReceiveRejection, ReceiveContractError,
                ReceiveNothing, Results
  <2> QED
    BY <1>t, <2>1, OutcomeType DEF TypeOK, StoreTypeOK, storeVars, external
<1>8. CASE RecoverLatest(w) \/ ReconcileLatest(w) \/ AllowRetryLatest(w)
  <2>1. /\ \/ End(w)
           \/ \E pc \in Steps, r \in Results :
                worker' = [worker EXCEPT ![w].pc = pc, ![w].res = r,
                                         ![w].num = latest[t.d]]
        /\ UNCHANGED <<storeVars, external, aborts>>
    BY <1>8 DEF RecoverLatest, ReconcileLatest, AllowRetryLatest, HoldUnknown,
                Steps, Results
  <2>2. latest[t.d] \in 0 .. MaxAttempts + 1
    BY <1>t, <1>f, StoreAssumption DEF TypeOK, StoreTypeOK
  <2>3. worker' \in [Workers -> Task]
    BY <1>t, <2>1, <2>2, HoldType, EndType DEF TypeOK
  <2> QED
    BY <1>t, <2>1, <2>3 DEF TypeOK, StoreTypeOK, storeVars, external
<1>9. CASE ReconcileQuery(w)
  <2>1. \/ End(w)
        \/ \E k \in IssueKeys : Outcome(w, "success", k)
    BY <1>9 DEF ReconcileQuery
  <2>2. worker' \in [Workers -> Task]
    BY <1>t, <2>1, EndType, OutcomeType DEF TypeOK, Results
  <2> QED
    BY <1>t, <1>9, <2>2 DEF ReconcileQuery, TypeOK, StoreTypeOK, storeVars, external
<1>10. CASE Settle(w)
  <2>1. t.num \in AttemptNumbers /\ t.res \in Results
    BY <1>10, <1>f DEF Settle, Task
  <2>2. attempts' \in [Drafts -> [AttemptNumbers -> Attempt]]
    BY <1>t, <1>f, <1>10, <2>1, UpdateType DEF Settle, TypeOK, StoreTypeOK
  <2>3. worker' \in [Workers -> Task]
    BY <1>t, <1>10, EndType, StepType DEF Settle, TypeOK, Steps
  <2> QED
    BY <1>t, <1>10, <2>2, <2>3 DEF Settle, TypeOK, StoreTypeOK, external
<1>11. CASE Publish(w)
  <2>1. t.key \in IssueKeys \cup {NoKey}
    BY <1>f DEF Task
  <2>2. worker' \in [Workers -> Task]
    BY <1>t, <1>11, EndType, StepType DEF Publish, TypeOK, Steps
  <2> QED
    BY <1>t, <1>11, <2>1, <2>2
       DEF Publish, StorePublishedIssue, TypeOK, StoreTypeOK, external
<1>12. CASE Finish(w)
  <2>1. t.res \in Results
    BY <1>f DEF Task
  <2>2. Target(t.res) \in DraftState
    BY <2>1, TargetFacts DEF Results, DraftState, CreateStates, PublishedStates
  <2>3. draft' \in [Drafts -> Row]
    BY <1>s, <1>12, <2>2 DEF Finish
  <2> QED
    BY <1>t, <1>12, <2>3, EndType DEF Finish, TypeOK, StoreTypeOK, external
<1> QED
  BY <1>1, <1>2, <1>3, <1>4, <1>5, <1>6, <1>7, <1>8, <1>9, <1>10, <1>11, <1>12
     DEF Proceed

LEMMA TypeStep == Inv /\ [Next]_vars => TypeOK'
<1>0. SUFFICES ASSUME Inv, [Next]_vars PROVE TypeOK'
  OBVIOUS
<1>t. TypeOK
  BY <1>0 DEF Inv
<1>1. ASSUME NEW d \in Drafts, CreateManualDraft(d) PROVE TypeOK'
  BY <1>t, <1>1 DEF TypeOK, StoreTypeOK, CreateManualDraft, InsertRow, Row,
                    DraftState, CreateStates, external
<1>2. ASSUME NEW w \in Workers, NEW d \in Drafts, Begin(w, d) PROVE TypeOK'
  BY <1>t, <1>2, TypeBegin
<1>3. ASSUME NEW w \in Workers, Abort(w) PROVE TypeOK'
  BY <1>t, <1>3, EndType, SubmissionAssumption
     DEF TypeOK, StoreTypeOK, Abort, storeVars, external
<1>4. ASSUME NEW w \in Workers, Proceed(w) PROVE TypeOK'
  BY <1>0, <1>4, TypeProceed
<1>5. ASSUME NEW d \in Drafts, NEW n \in AttemptNumbers, JiraStep(d, n)
      PROVE TypeOK'
  <2>1. CASE JiraRefuses(d, n)
    BY <1>t, <2>1 DEF JiraRefuses, TypeOK, StoreTypeOK, WireStatus, storeVars
  <2>2. ASSUME NEW k \in IssueKeys, JiraCreates(d, n, k) PROVE TypeOK'
    <3>1. attempts[d][n].hash \in Templates
      <4>1. n <= latest[d]
        <5>1. AttemptOK(d, n) /\ wire[d][n] = "inflight"
          BY <1>0, <2>2 DEF Inv, JiraCreates
        <5>2. latest[d] \in Nat /\ n \in Nat
          BY <1>t, StoreAssumption DEF TypeOK, StoreTypeOK, AttemptNumbers
        <5> QED
          BY <5>1, <5>2 DEF AttemptOK
      <4> QED
        BY <1>0, <4>1 DEF Inv, AttemptOK
    <3>2. [draft |-> d, number |-> n, hash |-> attempts[d][n].hash] \in Issue
      BY <3>1 DEF Issue
    <3> QED
      BY <1>t, <2>2, <3>2
         DEF JiraCreates, TypeOK, StoreTypeOK, WireStatus, storeVars
  <2> QED
    BY <1>5, <2>1, <2>2 DEF JiraStep
<1>6. CASE UNCHANGED vars
  BY <1>t, <1>6 DEF TypeOK, StoreTypeOK, vars, storeVars
<1> QED
  BY <1>0, <1>1, <1>2, <1>3, <1>4, <1>5, <1>6 DEF Next

-----------------------------------------------------------------------------
(* What a step leaves of the knowledge of the tasks that do not take it.   *)

\* A step may close an attempt or learn of its success, never take it back.
AttemptMoves(d, n) ==
  /\ attempts[d][n].status \in {"failed", "success", "none"} =>
       attempts'[d][n].status = attempts[d][n].status
  /\ attempts[d][n].status # "none" => attempts'[d][n].status # "none"
  /\ attempts'[d][n].hash = attempts[d][n].hash

\* A row is left alone, or written with the next revision: into an open state
\* and with another template only when its attempts are closed.
RowMoves(d) ==
  \/ draft'[d] = draft[d]
  \/ /\ draft'[d].state \in Reached \ {Absent}
     /\ draft'[d].revision = draft[d].revision + 1
     /\ draft'[d].template \in Templates
     /\ draft'[d].state \in OpenStates \/ draft'[d].template # draft[d].template
          => AllClosed(d)

\* Nobody writes the row of a task that holds the lock and has yet to claim.
RowKept(v) ==
  LET t == worker[v]
  IN  \/ draft'[t.d] = draft[t.d]
      \/ /\ draft'[t.d].revision > draft[t.d].revision
         /\ ~(t.op = "submit" /\ t.pc \in {"latest", "claim"})

Others(S) ==
  /\ S \subseteq Workers
  /\ \A v \in S : worker'[v] = worker[v]
  /\ \A v \in Workers \ S : worker'[v].pc # "dispatch"

\* Closed attempts stay closed and successes stay successes.
LEMMA Monotone ==
  ASSUME Inv, TypeOK', NEW S, Others(S), UNCHANGED <<latest, wire>>,
         \A d \in Drafts, n \in AttemptNumbers : AttemptMoves(d, n),
         NEW d \in Drafts
  PROVE /\ \A n \in AttemptNumbers : CannotBeCreated(d, n) => CannotBeCreated(d, n)'
        /\ \A n \in AttemptNumbers : Closed(d, n) => Closed(d, n)'
        /\ AllClosed(d) => AllClosed(d)'
        /\ Succeeded(d) => Succeeded(d)'
<1>1. \A n \in AttemptNumbers : CannotBeCreated(d, n) => CannotBeCreated(d, n)'
  BY DEF CannotBeCreated, At, Others
<1>2. \A n \in AttemptNumbers : Closed(d, n) => Closed(d, n)'
  BY <1>1 DEF Closed, AttemptMoves, Trusted
<1>3. AllClosed(d) => AllClosed(d)'
  BY <1>2 DEF AllClosed
<1>4. Succeeded(d) => Succeeded(d)'
  BY DEF Succeeded, AttemptMoves
<1> QED
  BY <1>1, <1>2, <1>3, <1>4

LEMMA Frame ==
  ASSUME Inv, TypeOK', NEW S, Others(S), UNCHANGED <<latest, wire, jira>>,
         \A d \in Drafts, n \in AttemptNumbers : AttemptMoves(d, n),
         \A d \in Drafts : RowMoves(d) /\ (published'[d] # NoKey => Succeeded(d)'),
         \A v \in S : worker[v].pc # "idle" => RowKept(v)
  PROVE /\ \A d \in Drafts : RowOK(d)'
        /\ \A d \in Drafts, n \in AttemptNumbers : AttemptOK(d, n)'
        /\ \A k \in IssueKeys : IssueOK(k)'
        /\ OneIssuePerAttempt'
        /\ \A v \in S : TaskOK(v)'
        /\ \A u, v \in S : u # v => Exclusive(u, v)'
<1>t. TypeOK
  BY DEF Inv
<1>m. ASSUME NEW d \in Drafts
      PROVE /\ \A n \in AttemptNumbers : CannotBeCreated(d, n) => CannotBeCreated(d, n)'
            /\ \A n \in AttemptNumbers : Closed(d, n) => Closed(d, n)'
            /\ AllClosed(d) => AllClosed(d)'
            /\ Succeeded(d) => Succeeded(d)'
  BY Monotone
<1>1. ASSUME NEW d \in Drafts PROVE RowOK(d)'
  <2>1. RowOK(d) /\ RowMoves(d) /\ (published'[d] # NoKey => Succeeded(d)')
    BY DEF Inv
  <2>2. draft[d].revision \in Nat
    BY <1>t DEF TypeOK, StoreTypeOK, Row
  <2> QED
    BY <1>m, <2>1, <2>2 DEF RowOK, RowMoves
<1>2. ASSUME NEW d \in Drafts, NEW n \in AttemptNumbers PROVE AttemptOK(d, n)'
  <2>1. AttemptOK(d, n) /\ AttemptMoves(d, n) /\ RowMoves(d) /\ RowOK(d)
    BY DEF Inv
  <2>2. AllClosed(d) /\ Trusted /\ n <= latest[d] => CannotBeCreated(d, n)
    BY DEF AllClosed, Closed
  <2> QED
    BY <1>m, <2>1, <2>2 DEF AttemptOK, AttemptMoves, RowMoves, Trusted
<1>3. ASSUME NEW k \in IssueKeys PROVE IssueOK(k)'
  <2>1. IssueOK(k) /\ (jira[k] # NoIssue => jira[k] \in Issue)
    BY <1>t DEF Inv, TypeOK
  <2> QED
    BY <2>1 DEF IssueOK, AttemptMoves, Issue
<1>4. OneIssuePerAttempt'
  BY DEF Inv, OneIssuePerAttempt
<1>5. ASSUME NEW v \in S PROVE TaskOK(v)'
  <2> DEFINE t == worker[v]
  <2>1. TaskOK(v) /\ worker'[v] = t /\ t \in Task
    BY <1>t DEF Inv, TypeOK, Others
  <2>2. CASE t.pc = "idle"
    BY <2>1, <2>2 DEF TaskOK, TaskShape, RunsStep, HoldsLock, SubmitTask,
                      RecoverTask, ReconcileTask, RetryTask, Settling
  <2>3. CASE t.pc # "idle"
    <3>1. t.d \in Drafts /\ t.rev \in 1 .. draft[t.d].revision
      BY <2>1, <2>3 DEF TaskOK, TaskShape
    <3>2. RowKept(v)
      BY <2>3
    <3>3. draft[t.d].revision \in Nat /\ draft'[t.d].revision \in Nat
      BY <1>t, <3>1 DEF TypeOK, StoreTypeOK, Row
    <3>4. Current(v)' => Current(v) /\ draft'[t.d] = draft[t.d]
      BY <2>1, <3>1, <3>2, <3>3 DEF RowKept, Current
    <3>d. PICK d \in Drafts : d = t.d
      BY <3>1
    <3>m. /\ \A n \in AttemptNumbers : CannotBeCreated(d, n) => CannotBeCreated(d, n)'
          /\ AllClosed(d) => AllClosed(d)'
          /\ Succeeded(d) => Succeeded(d)'
      BY <1>m
    <3>5. TaskShape(v)'
      BY <2>1, <3>1, <3>2, <3>3, <3>d, <3>m DEF TaskOK, TaskShape, RowKept
    <3>6. HoldsLock(v)'
      BY <2>1, <3>1, <3>2, <3>d, <3>m DEF TaskOK, HoldsLock, RowKept, Current
    <3>7. SubmitTask(v)'
      BY <2>1, <3>1, <3>4 DEF TaskOK, SubmitTask, AttemptMoves, Trusted
    <3>8. RecoverTask(v)' /\ ReconcileTask(v)'
      BY <2>1, <3>4 DEF TaskOK, RecoverTask, ReconcileTask
    <3>9. RetryTask(v)'
      <4>1. RetryTask(v) /\ latest[d] \in 0 .. MaxAttempts
        BY <1>t, <2>1 DEF TaskOK, TypeOK, StoreTypeOK
      <4>2. latest[d] > 0 => latest[d] \in AttemptNumbers
        BY <4>1, StoreAssumption DEF AttemptNumbers
      <4>3. t.op = "allow_retry" /\ t.pc = "finish" => t.num \in AttemptNumbers
        BY <2>1 DEF TaskOK, TaskShape, Settling
      <4>4. \A n \in AttemptNumbers : AttemptMoves(d, n)
        OBVIOUS
      <4> QED
        BY <2>1, <3>4, <3>d, <3>m, <4>1, <4>2, <4>3, <4>4
           DEF RetryTask, AttemptMoves, Trusted
    <3> QED
      BY <3>5, <3>6, <3>7, <3>8, <3>9 DEF TaskOK
  <2> QED
    BY <2>2, <2>3
<1>6. ASSUME NEW u \in S, NEW v \in S, u # v PROVE Exclusive(u, v)'
  BY <1>6 DEF Inv, Exclusive, Others
<1> QED
  BY <1>1, <1>2, <1>3, <1>4, <1>5, <1>6

-----------------------------------------------------------------------------
(* Steps that change no row: only the task that takes one learns anything. *)

LEMMA Local ==
  ASSUME Inv, TypeOK', NEW w \in Workers, Others(Workers \ {w}),
         UNCHANGED <<storeVars, external>>, TaskOK(w)',
         \A v \in Workers \ {w} : Exclusive(w, v)' /\ Exclusive(v, w)'
  PROVE Inv'
<1> DEFINE S == Workers \ {w}
<1>1. \A d \in Drafts, n \in AttemptNumbers : AttemptMoves(d, n)
  BY DEF AttemptMoves, storeVars
<1>2. \A d \in Drafts : RowMoves(d) /\ (published'[d] # NoKey => Succeeded(d)')
  BY DEF Inv, RowOK, RowMoves, Succeeded, storeVars
<1>3. \A v \in S : worker[v].pc # "idle" => RowKept(v)
  BY DEF RowKept, storeVars
<1>4. UNCHANGED <<latest, wire, jira>> /\ Others(S)
  BY DEF storeVars, external
<1>5. /\ \A d \in Drafts : RowOK(d)'
      /\ \A d \in Drafts, n \in AttemptNumbers : AttemptOK(d, n)'
      /\ \A k \in IssueKeys : IssueOK(k)'
      /\ OneIssuePerAttempt'
      /\ \A v \in S : TaskOK(v)'
      /\ \A u, v \in S : u # v => Exclusive(u, v)'
  <2> HIDE DEF S
  <2> QED
    BY <1>1, <1>2, <1>3, <1>4, Frame
<1> QED
  BY <1>5 DEF Inv

\* A task that ends knows nothing.
LEMMA Ended ==
  ASSUME Inv, TypeOK', NEW w \in Workers, End(w)
  PROVE /\ Others(Workers \ {w})
        /\ TaskOK(w)'
        /\ \A v \in Workers : Exclusive(w, v)' /\ Exclusive(v, w)'
<1>1. worker'[w] = Idle /\ \A v \in Workers \ {w} : worker'[v] = worker[v]
  BY DEF Inv, TypeOK, End
<1>2. Others(Workers \ {w})
  BY <1>1 DEF Others, Idle
<1>3. TaskOK(w)'
  BY <1>1 DEF TaskOK, TaskShape, RunsStep, HoldsLock, SubmitTask, RecoverTask,
              ReconcileTask, RetryTask, Settling, Idle
<1>4. \A v \in Workers : Exclusive(w, v)' /\ Exclusive(v, w)'
  BY <1>1 DEF Exclusive, Idle
<1> QED
  BY <1>2, <1>3, <1>4

LEMMA LocalEnd ==
  ASSUME Inv, TypeOK', NEW w \in Workers, End(w), UNCHANGED <<storeVars, external>>
  PROVE Inv'
  BY Ended, Local

\* Steps that end their task and write rows, attempts or issues.
LEMMA Ending ==
  ASSUME Inv, TypeOK', NEW w \in Workers, End(w),
         UNCHANGED <<attempts, latest, published, wire, jira>>,
         \A d \in Drafts : RowMoves(d),
         \A v \in Workers \ {w} : worker[v].pc # "idle" => RowKept(v)
  PROVE Inv'
<1> DEFINE S == Workers \ {w}
<1>1. \A d \in Drafts, n \in AttemptNumbers : AttemptMoves(d, n)
  BY DEF AttemptMoves
<1>2. \A d \in Drafts : published'[d] # NoKey => Succeeded(d)'
  BY DEF Inv, RowOK, Succeeded
<1>3. /\ Others(S) /\ TaskOK(w)'
      /\ \A v \in Workers : Exclusive(w, v)' /\ Exclusive(v, w)'
  BY Ended
<1>4. /\ \A d \in Drafts : RowOK(d)'
      /\ \A d \in Drafts, n \in AttemptNumbers : AttemptOK(d, n)'
      /\ \A k \in IssueKeys : IssueOK(k)'
      /\ OneIssuePerAttempt'
      /\ \A v \in S : TaskOK(v)'
      /\ \A u, v \in S : u # v => Exclusive(u, v)'
  <2>1. \A v \in S : worker[v].pc # "idle" => RowKept(v)
    OBVIOUS
  <2> HIDE DEF S
  <2> QED
    BY <1>1, <1>2, <1>3, <2>1, Frame
<1> QED
  BY <1>3, <1>4 DEF Inv

-----------------------------------------------------------------------------
(* A call begins by reading the row it will work on.                       *)

\* A task that just read the row of a draft and is not past its first step.
Fresh(w, op, pc, d) ==
  LET t == worker'[w]
  IN  /\ t.op = op /\ t.pc = pc /\ t.d = d
      /\ t.rev = draft[d].revision
      /\ t.tpl = draft[d].template
      /\ t.res = "none"
      /\ t.key = IF op = "recover" THEN published[d] ELSE NoKey

LEMMA StartFresh ==
  ASSUME Inv, NEW w \in Workers, NEW op, NEW pc, pc # "dispatch",
         NEW d \in Drafts, Start(w, op, pc, d)
  PROVE Fresh(w, op, pc, d) /\ Others(Workers \ {w})
  BY DEF Inv, TypeOK, Start, Fresh, Others

LEMMA BeginInv ==
  ASSUME Inv, TypeOK', NEW w \in Workers, NEW d \in Drafts, Begin(w, d)
  PROVE Inv'
<1>t. TypeOK /\ RowOK(d)
  BY DEF Inv
<1>u. UNCHANGED <<storeVars, external>>
  BY DEF Begin, EditRead, CancelRead, SubmitRead, RecoverRead, ReconcileRead,
         AllowRetryRead
<1>r. draft[d].state # Absent => draft[d].revision \in 1 .. draft[d].revision
  BY <1>t DEF RowOK, TypeOK, StoreTypeOK, Row
\* A task with no submission past its first step and no outcome.
<1>e. ASSUME NEW op, NEW pc, Fresh(w, op, pc, d),
             op # "submit" \/ pc = "cas",
             pc \in {"save", "cancel", "cas", "latest"}
      PROVE \A v \in Workers \ {w} : Exclusive(w, v)' /\ Exclusive(v, w)'
  BY <1>e DEF Fresh, Exclusive, Sending, Settling
<1>1. CASE EditRead(w, d)
  <2>1. Fresh(w, "edit", "save", d) /\ Others(Workers \ {w})
    BY <1>1, StartFresh DEF EditRead
  <2>2. draft[d].state # Absent
    BY <1>1 DEF EditRead, Absent
  <2>3. TaskOK(w)'
    BY <1>u, <1>r, <2>1, <2>2 DEF Fresh, TaskOK, TaskShape, RunsStep, HoldsLock,
       SubmitTask, RecoverTask, ReconcileTask, RetryTask, Settling, storeVars
  <2> QED
    BY <1>u, <1>e, <2>1, <2>3, Local
<1>2. CASE CancelRead(w, d)
  <2>1. Fresh(w, "cancel", "cancel", d) /\ Others(Workers \ {w})
    BY <1>2, StartFresh DEF CancelRead
  <2>2. draft[d].state # Absent
    BY <1>2, FsmFacts DEF CancelRead
  <2>3. TaskOK(w)'
    BY <1>u, <1>r, <2>1, <2>2 DEF Fresh, TaskOK, TaskShape, RunsStep, HoldsLock,
       SubmitTask, RecoverTask, ReconcileTask, RetryTask, Settling, storeVars
  <2> QED
    BY <1>u, <1>e, <2>1, <2>3, Local
<1>3. CASE SubmitRead(w, d)
  <2>1. Fresh(w, "submit", "cas", d) /\ Others(Workers \ {w})
    BY <1>3, StartFresh DEF SubmitRead
  <2>2. /\ draft[d].state \in {"REVIEW", "SUBMISSION_RETRYABLE"}
        /\ latest[d] < MaxAttempts
        /\ draft[d].state # Absent
    BY <1>3 DEF SubmitRead, Absent
  <2>3. TaskOK(w)'
    BY <1>u, <1>r, <2>1, <2>2 DEF Fresh, TaskOK, TaskShape, RunsStep, HoldsLock,
       SubmitTask, RecoverTask, ReconcileTask, RetryTask, Settling, Sending,
       storeVars
  <2> QED
    BY <1>u, <1>e, <2>1, <2>3, Local
<1>4. CASE RecoverRead(w, d)
  <2>1. Fresh(w, "recover", "latest", d) /\ Others(Workers \ {w})
    BY <1>4, StartFresh DEF RecoverRead
  <2>2. draft[d].state = "SUBMITTING" /\ draft[d].state # Absent
    BY <1>4 DEF RecoverRead, Absent
  <2>3. published[d] # NoKey => Succeeded(d)'
    BY <1>t, <1>u DEF RowOK, Succeeded, storeVars
  <2>4. TaskOK(w)'
    BY <1>u, <1>r, <2>1, <2>2, <2>3 DEF Fresh, TaskOK, TaskShape, RunsStep,
       HoldsLock, SubmitTask, RecoverTask, ReconcileTask, RetryTask, Settling,
       storeVars
  <2> QED
    BY <1>u, <1>e, <2>1, <2>4, Local
<1>5. CASE ReconcileRead(w, d)
  <2>1. Fresh(w, "reconcile", "latest", d) /\ Others(Workers \ {w})
    BY <1>5, StartFresh DEF ReconcileRead
  <2>2. draft[d].state = "SUBMISSION_UNKNOWN" /\ draft[d].state # Absent
    BY <1>5 DEF ReconcileRead, Absent
  <2>3. TaskOK(w)'
    BY <1>u, <1>r, <2>1, <2>2 DEF Fresh, TaskOK, TaskShape, RunsStep, HoldsLock,
       SubmitTask, RecoverTask, ReconcileTask, RetryTask, Settling, storeVars
  <2> QED
    BY <1>u, <1>e, <2>1, <2>3, Local
<1>6. CASE AllowRetryRead(w, d)
  <2>1. Fresh(w, "allow_retry", "latest", d) /\ Others(Workers \ {w})
    BY <1>6, StartFresh DEF AllowRetryRead
  <2>2. draft[d].state = "SUBMISSION_UNKNOWN" /\ draft[d].state # Absent
    BY <1>6 DEF AllowRetryRead, Absent
  <2>3. Trusted => latest'[d] > 0 /\ CannotBeCreated(d, latest[d])'
    BY <1>6, <1>u, <2>1 DEF AllowRetryRead, Trusted, CannotBeCreated, At, Others,
       Fresh, storeVars, external
  <2>4. TaskOK(w)'
    BY <1>u, <1>r, <2>1, <2>2, <2>3 DEF Fresh, TaskOK, TaskShape, RunsStep,
       HoldsLock, SubmitTask, RecoverTask, ReconcileTask, RetryTask, Settling,
       storeVars
  <2> QED
    BY <1>u, <1>e, <2>1, <2>4, Local
<1> QED
  BY <1>1, <1>2, <1>3, <1>4, <1>5, <1>6 DEF Begin

-----------------------------------------------------------------------------
(* Steps in which a task learns something and writes nothing.              *)

LEMMA NewAttemptInv ==
  ASSUME Inv, TypeOK', NEW w \in Workers, NewAttempt(w)
  PROVE Inv'
<1> DEFINE t == worker[w]
<1>1. TypeOK /\ TaskOK(w) /\ t \in Task /\ t.op = "submit" /\ t.pc = "latest"
  BY DEF Inv, TypeOK, NewAttempt, At
<1>2. UNCHANGED <<storeVars, external>>
  BY DEF NewAttempt
<1>3. /\ \A v \in Workers \ {w} : worker'[v] = worker[v]
      /\ worker'[w].op = "submit" /\ worker'[w].pc = "claim"
      /\ worker'[w].d = t.d /\ worker'[w].rev = t.rev /\ worker'[w].tpl = t.tpl
      /\ worker'[w].num = latest[t.d] + 1
      /\ worker'[w].res = t.res /\ worker'[w].key = t.key
  BY <1>1 DEF NewAttempt, TypeOK, Task
<1>4. Others(Workers \ {w})
  BY <1>3 DEF Others
<1>5. AllClosed(t.d) => \A d \in Drafts : d = t.d => AllClosed(d)'
  BY <1>1, <1>2, <1>3 DEF AllClosed, Closed, CannotBeCreated, At, storeVars,
                          external, Trusted
<1>6. TaskOK(w)'
  BY <1>1, <1>2, <1>3, <1>5 DEF TaskOK, TaskShape, RunsStep, HoldsLock, SubmitTask,
     RecoverTask, ReconcileTask, RetryTask, Settling, Sending, Current, storeVars
<1>7. \A v \in Workers \ {w} : Exclusive(w, v)' /\ Exclusive(v, w)'
  BY <1>1, <1>3 DEF Inv, Exclusive, Sending
<1> QED
  BY <1>2, <1>4, <1>6, <1>7, Local

\* A create request is answered, or given up.
LEMMA ReceiveInv ==
  ASSUME Inv, TypeOK', NEW w \in Workers,
         \/ ReceiveCreated(w) \/ ReceiveRejection(w)
         \/ ReceiveContractError(w) \/ ReceiveNothing(w)
  PROVE Inv'
<1> DEFINE t == worker[w]
<1>1. TypeOK /\ TaskOK(w) /\ t \in Task /\ t.op = "submit" /\ t.pc = "await"
  BY DEF Inv, TypeOK, ReceiveCreated, ReceiveRejection, ReceiveContractError,
         ReceiveNothing, At
<1>2. UNCHANGED <<storeVars, external>>
  BY DEF ReceiveCreated, ReceiveRejection, ReceiveContractError, ReceiveNothing
<1>3. PICK r, k : /\ Outcome(w, r, k)
                  /\ r = "failed" /\ Trusted => wire[t.d][t.num] = "rejected"
  BY DEF ReceiveCreated, ReceiveRejection, ReceiveContractError, ReceiveNothing,
         Reply, Trusted
<1>4. /\ \A v \in Workers \ {w} : worker'[v] = worker[v]
      /\ worker'[w].op = "submit" /\ worker'[w].pc = "settle"
      /\ worker'[w].d = t.d /\ worker'[w].rev = t.rev /\ worker'[w].tpl = t.tpl
      /\ worker'[w].num = t.num /\ worker'[w].res = r /\ worker'[w].key = k
  BY <1>1, <1>3 DEF Outcome, TypeOK, Task
<1>5. Others(Workers \ {w})
  BY <1>4 DEF Others
<1>6. TaskOK(w)'
  BY <1>1, <1>2, <1>3, <1>4 DEF TaskOK, TaskShape, RunsStep, HoldsLock, SubmitTask,
     RecoverTask, ReconcileTask, RetryTask, Settling, Sending, Current, storeVars,
     external, Trusted
<1>7. \A v \in Workers \ {w} : Exclusive(w, v)' /\ Exclusive(v, w)'
  BY <1>1, <1>4 DEF Inv, Exclusive, Sending
<1> QED
  BY <1>2, <1>5, <1>6, <1>7, Local

\* The latest attempt of a draft whose lock is held has no live outcome.
LEMMA LockedLatest ==
  ASSUME Inv, NEW v \in Workers, worker[v].op = "submit",
         worker[v].pc \in {"latest", "claim"}
  PROVE /\ LatestStatus(worker[v].d) \in {"none", "failed"}
        /\ ~Succeeded(worker[v].d)
<1> DEFINE d == worker[v].d
<1>1. d \in Drafts /\ AllClosed(d)
  BY DEF Inv, TaskOK, TaskShape, HoldsLock
<1>2. latest[d] \in 0 .. MaxAttempts
  BY <1>1 DEF Inv, TypeOK, StoreTypeOK
<1>3. latest[d] # 0 => latest[d] \in AttemptNumbers
  BY <1>2, StoreAssumption DEF AttemptNumbers
<1>4. LatestStatus(d) \in {"none", "failed"}
  BY <1>1, <1>2, <1>3 DEF LatestStatus, AllClosed, Closed
<1>5. ASSUME NEW n \in AttemptNumbers PROVE attempts[d][n].status # "success"
  <2>1. n <= latest[d] <=> attempts[d][n].status # "none"
    BY <1>1 DEF Inv, AttemptOK
  <2> QED
    BY <1>1, <2>1 DEF AllClosed, Closed
<1> QED
  BY <1>4, <1>5 DEF Succeeded

\* A task reads the latest attempt and learns what to make of it.
LEMMA LearnInv ==
  ASSUME Inv, TypeOK', NEW w \in Workers,
         RecoverLatest(w) \/ ReconcileLatest(w) \/ AllowRetryLatest(w)
  PROVE Inv'
<1> DEFINE t == worker[w]
<1>1. /\ TypeOK /\ TaskOK(w) /\ t \in Task
      /\ t.op \in {"recover", "reconcile", "allow_retry"} /\ t.pc = "latest"
  BY DEF Inv, TypeOK, RecoverLatest, ReconcileLatest, AllowRetryLatest, At
<1>2. UNCHANGED <<storeVars, external>>
  BY DEF RecoverLatest, ReconcileLatest, AllowRetryLatest
<1>3. CASE End(w)
  BY <1>2, <1>3, LocalEnd
<1>4. CASE ~End(w)
  <2>1. PICK pc, r :
          /\ worker' = [worker EXCEPT ![w].pc = pc, ![w].res = r,
                                      ![w].num = latest[t.d]]
          /\ LatestStatus(t.d) # "none"
          /\ t.op = "recover" => /\ pc \in {"settle", "finish"}
                                 /\ r \in {"success", "unknown"}
                                 /\ \/ Succeeded(t.d)
                                    \/ LatestStatus(t.d) = "pending"
          /\ t.op = "reconcile" => pc = "query" /\ r = "none"
          /\ t.op = "allow_retry" => pc = "settle" /\ r = "failed"
    <3>1. t.op = "recover" /\ t.key # NoKey => Succeeded(t.d)
      BY <1>1 DEF TaskOK, TaskShape
    <3> QED
      BY <1>1, <1>4, <3>1 DEF RecoverLatest, ReconcileLatest, AllowRetryLatest,
                              HoldUnknown, At
  <2>2. /\ \A v \in Workers \ {w} : worker'[v] = worker[v]
        /\ worker'[w].op = t.op /\ worker'[w].pc = pc
        /\ worker'[w].d = t.d /\ worker'[w].rev = t.rev
        /\ worker'[w].num = latest[t.d]
        /\ worker'[w].res = r /\ worker'[w].key = t.key
    BY <1>1, <2>1 DEF TypeOK, Task
  <2>3. Others(Workers \ {w})
    BY <1>1, <2>1, <2>2 DEF Others
  <2>4. /\ t.d \in Drafts /\ latest[t.d] \in AttemptNumbers
        /\ latest[t.d] \in Nat
    <3>1. t.d \in Drafts /\ latest[t.d] \in 0 .. MaxAttempts
      BY <1>1 DEF TaskOK, TaskShape, TypeOK, StoreTypeOK
    <3> QED
      BY <2>1, <3>1, StoreAssumption DEF LatestStatus, AttemptNumbers
  <2>5. TaskOK(w)'
    <3>d. PICK d \in Drafts : d = t.d
      BY <2>4
    <3>1. /\ Succeeded(d) => Succeeded(d)'
          /\ \A n \in AttemptNumbers : CannotBeCreated(d, n) => CannotBeCreated(d, n)'
      BY <1>2, <2>3 DEF Succeeded, CannotBeCreated, At, Others, storeVars, external
    <3>2. TaskShape(w)'
      BY <1>1, <1>2, <2>1, <2>2, <2>4, <3>d, <3>1
         DEF TaskOK, TaskShape, RunsStep, Settling, storeVars
    <3>3. HoldsLock(w)' /\ SubmitTask(w)'
      BY <1>1, <2>2 DEF HoldsLock, SubmitTask
    <3>4. RecoverTask(w)' /\ ReconcileTask(w)'
      BY <1>1, <1>2, <2>2 DEF TaskOK, RecoverTask, ReconcileTask, Current, storeVars
    <3>5. RetryTask(w)'
      BY <1>1, <1>2, <2>1, <2>2, <2>4, <3>d, <3>1
         DEF TaskOK, RetryTask, Current, Trusted, storeVars
    <3> QED
      BY <3>2, <3>3, <3>4, <3>5 DEF TaskOK
  <2>6. \A v \in Workers \ {w} : Exclusive(w, v)'
    BY <1>1, <2>2 DEF Exclusive
  <2>7. ASSUME NEW v \in Workers \ {w} PROVE Exclusive(v, w)'
    <3>1. ~ /\ worker[v].op = "submit" /\ worker[v].pc \in {"latest", "claim"}
            /\ worker[v].d = t.d /\ t.op = "recover"
      BY <2>1, LockedLatest
    <3> QED
      BY <1>1, <2>2, <3>1 DEF Exclusive
  <2> QED
    BY <1>2, <2>3, <2>5, <2>6, <2>7, Local
<1> QED
  BY <1>3, <1>4

LEMMA QueryInv ==
  ASSUME Inv, TypeOK', NEW w \in Workers, ReconcileQuery(w)
  PROVE Inv'
<1> DEFINE t == worker[w]
<1>1. /\ TypeOK /\ TaskOK(w) /\ t \in Task
      /\ t.op = "reconcile" /\ t.pc = "query"
  BY DEF Inv, TypeOK, ReconcileQuery, At
<1>2. UNCHANGED <<storeVars, external>>
  BY DEF ReconcileQuery
<1>3. CASE End(w)
  BY <1>2, <1>3, LocalEnd
<1>4. ASSUME NEW k, Outcome(w, "success", k) PROVE Inv'
  <2>1. /\ \A v \in Workers \ {w} : worker'[v] = worker[v]
        /\ worker'[w].op = "reconcile" /\ worker'[w].pc = "settle"
        /\ worker'[w].d = t.d /\ worker'[w].rev = t.rev
        /\ worker'[w].num = t.num /\ worker'[w].res = "success"
    BY <1>1, <1>4 DEF Outcome, TypeOK, Task
  <2>2. Others(Workers \ {w})
    BY <2>1 DEF Others
  <2>3. TaskOK(w)'
    BY <1>1, <1>2, <2>1 DEF TaskOK, TaskShape, RunsStep, HoldsLock, SubmitTask,
       RecoverTask, ReconcileTask, RetryTask, Settling, Current, storeVars
  <2>4. \A v \in Workers \ {w} : Exclusive(w, v)' /\ Exclusive(v, w)'
    BY <1>1, <2>1 DEF Exclusive
  <2> QED
    BY <1>2, <2>2, <2>3, <2>4, Local
<1> QED
  BY <1>3, <1>4 DEF ReconcileQuery

-----------------------------------------------------------------------------
(* Steps that write an attempt's outcome or store an issue.                *)

LEMMA SettleInv ==
  ASSUME Inv, TypeOK', NEW w \in Workers, Settle(w)
  PROVE Inv'
<1> DEFINE t == worker[w]
           S == Workers \ {w}
<1>1. TypeOK /\ TaskOK(w) /\ t \in Task /\ t.pc = "settle"
  BY DEF Inv, TypeOK, Settle
<1>2. UNCHANGED <<draft, latest, published, external>>
  BY DEF Settle
<1>3. CASE ~UpdateAccepted(t.d, t.num, t.res)
  BY <1>2, <1>3, LocalEnd DEF Settle, storeVars
<1>4. CASE UpdateAccepted(t.d, t.num, t.res)
  <2>1. /\ t.d \in Drafts /\ t.num \in AttemptNumbers
        /\ t.op \in {"submit", "recover", "reconcile", "allow_retry"}
    BY <1>1, TaskFacts DEF TaskOK, TaskShape, RunsStep
  <2>2. /\ UpdateAttempt(t.d, t.num, t.res)
        /\ Step(w, IF t.res = "success" /\ t.op # "recover"
                     THEN "publish" ELSE "finish")
    BY <1>4 DEF Settle
  <2>3. /\ attempts'[t.d][t.num].status = t.res
        /\ attempts'[t.d][t.num].hash = attempts[t.d][t.num].hash
        /\ \A d \in Drafts, n \in AttemptNumbers :
             d # t.d \/ n # t.num => attempts'[d][n] = attempts[d][n]
    BY <1>1, <2>1, <2>2 DEF UpdateAttempt, TypeOK, StoreTypeOK
  <2>4. \A d \in Drafts, n \in AttemptNumbers : AttemptMoves(d, n)
    <3>1. /\ attempts[t.d][t.num].status \in {"failed", "success", "none"} =>
               t.res = attempts[t.d][t.num].status
          /\ attempts[t.d][t.num].status # "none" => t.res # "none"
      BY <1>4 DEF UpdateAccepted, AttemptTransitions
    <3> QED
      BY <2>3, <3>1 DEF AttemptMoves
  <2>5. PICK pc \in {"publish", "finish"} :
          /\ \A v \in S : worker'[v] = worker[v]
          /\ worker'[w].op = t.op /\ worker'[w].pc = pc
          /\ worker'[w].d = t.d /\ worker'[w].rev = t.rev
          /\ worker'[w].num = t.num
          /\ worker'[w].res = t.res /\ worker'[w].key = t.key
          /\ pc = "publish" => t.res = "success" /\ t.op # "recover"
    BY <1>1, <2>2 DEF Step, TypeOK, Task
  <2>6. Others(S)
    BY <2>5 DEF Others
  <2>m. \A d \in Drafts :
          /\ \A n \in AttemptNumbers : CannotBeCreated(d, n) => CannotBeCreated(d, n)'
          /\ Succeeded(d) => Succeeded(d)'
    <3> HIDE DEF S
    <3> QED
      BY <1>2, <2>4, <2>6, Monotone DEF external
  <2>7. /\ \A d \in Drafts : RowOK(d)'
        /\ \A d \in Drafts, n \in AttemptNumbers : AttemptOK(d, n)'
        /\ \A k \in IssueKeys : IssueOK(k)'
        /\ OneIssuePerAttempt'
        /\ \A v \in S : TaskOK(v)'
        /\ \A u, v \in S : u # v => Exclusive(u, v)'
    <3>1. \A d \in Drafts : RowMoves(d) /\ (published'[d] # NoKey => Succeeded(d)')
      BY <1>2, <2>m DEF Inv, RowOK, RowMoves
    <3>2. \A v \in S : worker[v].pc # "idle" => RowKept(v)
      BY <1>2 DEF RowKept
    <3>3. UNCHANGED <<latest, wire, jira>>
      BY <1>2 DEF external
    <3> HIDE DEF S
    <3> QED
      BY <2>4, <2>6, <3>1, <3>2, <3>3, Frame
  <2>8. TaskOK(w)'
    <3>d. PICK d \in Drafts : d = t.d
      BY <2>1
    <3>1. t.res = "success" => Succeeded(d)'
      BY <2>1, <2>3, <3>d DEF Succeeded
    <3>2. TaskShape(w)'
      BY <1>1, <1>2, <2>1, <2>5, <2>m, <3>d, <3>1
         DEF TaskOK, TaskShape, RunsStep, Settling
    <3>3. HoldsLock(w)' /\ RecoverTask(w)' /\ ReconcileTask(w)'
      BY <1>1, <1>2, <2>5 DEF TaskOK, HoldsLock, RecoverTask, ReconcileTask, Current
    <3>4. SubmitTask(w)'
      BY <1>1, <1>2, <2>3, <2>5 DEF TaskOK, SubmitTask, Sending, Settling, Current,
                                    external, Trusted
    <3>5. RetryTask(w)'
      <4>1. t.op = "allow_retry" => t.res = "failed"
        BY <1>1 DEF TaskOK, TaskShape, Settling
      <4>2. RetryTask(w) /\ latest[d] \in 0 .. MaxAttempts
        BY <1>1 DEF TaskOK, TypeOK, StoreTypeOK
      <4>3. latest[d] > 0 => latest[d] \in AttemptNumbers
        BY <4>2, StoreAssumption DEF AttemptNumbers
      <4> QED
        BY <1>1, <1>2, <2>3, <2>5, <2>m, <3>d, <4>1, <4>2, <4>3
           DEF RetryTask, Current, Settling, Trusted
    <3> QED
      BY <3>2, <3>3, <3>4, <3>5 DEF TaskOK
  <2>9. \A v \in S : Exclusive(w, v)' /\ Exclusive(v, w)'
    BY <1>1, <2>5 DEF Inv, Exclusive, Sending, Settling
  <2> QED
    BY <2>7, <2>8, <2>9 DEF Inv
<1> QED
  BY <1>3, <1>4

LEMMA PublishInv ==
  ASSUME Inv, TypeOK', NEW w \in Workers, Publish(w)
  PROVE Inv'
<1> DEFINE t == worker[w]
           S == Workers \ {w}
<1>1. /\ TypeOK /\ TaskOK(w) /\ t \in Task /\ t.pc = "publish"
      /\ t.d \in Drafts /\ Succeeded(t.d) /\ t.res = "success"
  BY DEF Inv, TypeOK, Publish, TaskOK, TaskShape
<1>2. UNCHANGED <<draft, attempts, latest, external>>
  BY DEF Publish
<1>3. CASE ~PublishAccepted(t.d, t.key)
  BY <1>2, <1>3, LocalEnd DEF Publish, storeVars
<1>4. CASE PublishAccepted(t.d, t.key)
  <2>1. StorePublishedIssue(t.d, t.key) /\ Step(w, "finish")
    BY <1>4 DEF Publish
  <2>2. /\ \A v \in S : worker'[v] = worker[v]
        /\ worker'[w].op = t.op /\ worker'[w].pc = "finish"
        /\ worker'[w].d = t.d /\ worker'[w].rev = t.rev
        /\ worker'[w].num = t.num
        /\ worker'[w].res = "success" /\ worker'[w].key = t.key
    BY <1>1, <2>1 DEF Step, TypeOK, Task
  <2>3. Others(S)
    BY <2>2 DEF Others
  <2>4. \A d \in Drafts, n \in AttemptNumbers : AttemptMoves(d, n)
    BY <1>2 DEF AttemptMoves
  <2>5. /\ \A d \in Drafts : RowOK(d)'
        /\ \A d \in Drafts, n \in AttemptNumbers : AttemptOK(d, n)'
        /\ \A k \in IssueKeys : IssueOK(k)'
        /\ OneIssuePerAttempt'
        /\ \A v \in S : TaskOK(v)'
        /\ \A u, v \in S : u # v => Exclusive(u, v)'
    <3>1. \A d \in Drafts : Succeeded(d) => Succeeded(d)'
      BY <1>2 DEF Succeeded
    <3>2. \A d \in Drafts : d # t.d => published'[d] = published[d]
      BY <1>1, <2>1 DEF StorePublishedIssue, TypeOK, StoreTypeOK
    <3>3. \A d \in Drafts : RowMoves(d) /\ (published'[d] # NoKey => Succeeded(d)')
      BY <1>1, <1>2, <3>1, <3>2 DEF Inv, RowOK, RowMoves
    <3>4. \A v \in S : worker[v].pc # "idle" => RowKept(v)
      BY <1>2 DEF RowKept
    <3>5. UNCHANGED <<latest, wire, jira>>
      BY <1>2 DEF external
    <3> HIDE DEF S
    <3> QED
      BY <2>3, <2>4, <3>3, <3>4, <3>5, Frame
  <2>6. TaskOK(w)'
    <3>1. Succeeded(t.d) => \A d \in Drafts : d = t.d => Succeeded(d)'
      BY <1>2 DEF Succeeded
    <3>2. t.op \in {"submit", "reconcile"}
      BY <1>1 DEF TaskOK, TaskShape, RunsStep
    <3> QED
      BY <1>1, <1>2, <2>2, <3>1, <3>2 DEF TaskOK, TaskShape, RunsStep, HoldsLock,
         SubmitTask, RecoverTask, ReconcileTask, RetryTask, Settling, Sending,
         Current, external
  <2>7. \A v \in S : Exclusive(w, v)' /\ Exclusive(v, w)'
    BY <1>1, <2>2 DEF Inv, Exclusive, Sending, Settling
  <2> QED
    BY <2>5, <2>6, <2>7 DEF Inv
<1> QED
  BY <1>3, <1>4

-----------------------------------------------------------------------------
(* Steps that write a workflow row.                                        *)

\* A compare-and-swap takes its row to the next revision and leaves others.
LEMMA CasMoves ==
  ASSUME TypeOK, NEW d \in Drafts, NEW s, CompareAndSwap(d, s)
  PROVE /\ draft'[d].state = s
        /\ draft'[d].revision = draft[d].revision + 1
        /\ draft'[d].template = draft[d].template
        /\ \A e \in Drafts : e # d => draft'[e] = draft[e]
  BY DEF TypeOK, StoreTypeOK, Row, CompareAndSwap

LEMMA CreateInv ==
  ASSUME Inv, TypeOK', NEW d \in Drafts, CreateManualDraft(d)
  PROVE Inv'
<1>1. TypeOK /\ RowOK(d)
  BY DEF Inv
<1>2. UNCHANGED <<attempts, latest, published, worker, wire, jira>>
  BY DEF CreateManualDraft, external
<1>3. /\ draft[d].state = Absent /\ draft[d].revision = 0
      /\ draft'[d].state = "REVIEW" /\ draft'[d].revision = 1
      /\ draft'[d].template \in Templates
      /\ \A e \in Drafts : e # d => draft'[e] = draft[e]
  BY <1>1 DEF CreateManualDraft, InsertRow, RowOK, TypeOK, StoreTypeOK
<1>4. AllClosed(d)
  BY <1>1, <1>3 DEF RowOK, OpenStates
<1>5. \A e \in Drafts : RowMoves(e) /\ (published'[e] # NoKey => Succeeded(e)')
  BY <1>2, <1>3, <1>4 DEF Inv, RowOK, RowMoves, Succeeded, Reached, Absent
<1>6. \A v \in Workers : worker[v].pc # "idle" => RowKept(v)
  <2>1. ASSUME NEW v \in Workers, worker[v].pc # "idle" PROVE worker[v].d # d
    BY <1>3, <2>1, TaskFacts
  <2> QED
    BY <1>3, <2>1, TaskFacts DEF RowKept
<1>7. Others(Workers)
  BY <1>2 DEF Others
<1>8. \A e \in Drafts, n \in AttemptNumbers : AttemptMoves(e, n)
  BY <1>2 DEF AttemptMoves
<1> QED
  BY <1>2, <1>5, <1>6, <1>7, <1>8, Frame DEF Inv

\* Nobody but its holder writes a row whose lock is held: a writer that has
\* the current revision knows another state, or has another revision.
LEMMA LockExcludes ==
  ASSUME Inv, NEW w \in Workers, NEW v \in Workers, v # w,
         worker[v].op = "submit", worker[v].pc \in {"latest", "claim"},
         worker[v].d = worker[w].d,
         \/ worker[w].pc = "finish"
         \/ draft[worker[w].d].state \in {"REVIEW", "SUBMISSION_RETRYABLE"},
         worker[w].pc # "idle", Current(w)
  PROVE FALSE
<1>1. HoldsLock(v) /\ TaskOK(w) /\ Exclusive(v, w)
  BY DEF Inv, TaskOK
<1>2. Current(v) /\ draft[worker[w].d].state = "SUBMITTING"
  BY <1>1 DEF HoldsLock
<1>3. worker[w].pc = "finish" /\ worker[v].rev = worker[w].rev
  BY <1>2 DEF Current
<1>4. worker[w].op \in {"submit", "recover"}
  BY <1>1, <1>2, <1>3 DEF TaskOK, TaskShape, RunsStep, ReconcileTask, RetryTask
<1> QED
  BY <1>1, <1>3, <1>4 DEF Exclusive, Settling

\* The end of a task that writes the row it holds the revision of.
LEMMA WriteInv ==
  ASSUME Inv, TypeOK', NEW w \in Workers, worker[w].pc # "idle", End(w),
         UNCHANGED <<attempts, latest, published, wire, jira>>, Current(w),
         \/ worker[w].pc = "finish"
         \/ draft[worker[w].d].state \in {"REVIEW", "SUBMISSION_RETRYABLE"},
         RowMoves(worker[w].d),
         draft'[worker[w].d].revision = draft[worker[w].d].revision + 1,
         \A e \in Drafts : e # worker[w].d => draft'[e] = draft[e]
  PROVE Inv'
<1>1. worker[w].d \in Drafts /\ draft[worker[w].d].revision \in Nat
  BY TaskFacts DEF Row
<1>2. \A e \in Drafts : RowMoves(e)
  BY DEF RowMoves
<1>3. ASSUME NEW v \in Workers \ {w}, worker[v].pc # "idle" PROVE RowKept(v)
  <2>1. worker[v].d \in Drafts
    BY <1>3, TaskFacts
  <2>2. CASE worker[v].d # worker[w].d
    BY <2>1, <2>2 DEF RowKept
  <2>3. CASE worker[v].d = worker[w].d
    <3>1. ~(worker[v].op = "submit" /\ worker[v].pc \in {"latest", "claim"})
      BY <2>3, LockExcludes
    <3> QED
      BY <1>1, <2>3, <3>1 DEF RowKept
  <2> QED
    BY <2>2, <2>3
<1> QED
  BY <1>2, <1>3, Ending

LEMMA EditInv ==
  ASSUME Inv, TypeOK', NEW w \in Workers, EditSave(w)
  PROVE Inv'
<1> DEFINE t == worker[w]
<1>1. /\ TypeOK /\ t.pc = "save" /\ t.pc # "idle" /\ t.d \in Drafts
      /\ RowOK(t.d) /\ End(w)
  BY TaskFacts DEF Inv, EditSave, At
<1>2. UNCHANGED <<attempts, latest, published, external>>
  BY DEF EditSave
<1>3. CASE ~SaveAccepted(t.d, t.rev, "REVIEW")
  BY <1>1, <1>2, <1>3, LocalEnd DEF EditSave, storeVars
<1>4. CASE SaveAccepted(t.d, t.rev, "REVIEW")
  <2>1. Current(w) /\ draft[t.d].state = "REVIEW"
    BY <1>1, <1>4, FsmFacts DEF SaveAccepted, Current, RowOK
  <2>2. PICK new \in Templates : SaveRow(t.d, "REVIEW", new)
    BY <1>4 DEF EditSave
  <2>3. /\ draft'[t.d].state = "REVIEW"
        /\ draft'[t.d].revision = draft[t.d].revision + 1
        /\ draft'[t.d].template = new
        /\ \A e \in Drafts : e # t.d => draft'[e] = draft[e]
    BY <1>1, <2>2 DEF SaveRow, TypeOK, StoreTypeOK
  <2>4. RowMoves(t.d)
    BY <1>1, <2>1, <2>3 DEF RowMoves, RowOK, OpenStates, Reached, Absent
  <2> QED
    BY <1>1, <1>2, <2>1, <2>3, <2>4, WriteInv DEF external
<1> QED
  BY <1>3, <1>4

LEMMA CancelInv ==
  ASSUME Inv, TypeOK', NEW w \in Workers, CancelDraft(w)
  PROVE Inv'
<1> DEFINE t == worker[w]
<1>1. /\ TypeOK /\ t.pc = "cancel" /\ t.pc # "idle" /\ t.d \in Drafts
      /\ RowOK(t.d) /\ End(w)
  BY TaskFacts DEF Inv, CancelDraft, At
<1>2. UNCHANGED <<attempts, latest, published, external>>
  BY DEF CancelDraft
<1>3. CASE ~CasAccepted(t.d, t.rev, "CANCELLED")
  BY <1>1, <1>2, <1>3, LocalEnd DEF CancelDraft, storeVars
<1>4. CASE CasAccepted(t.d, t.rev, "CANCELLED")
  <2>1. Current(w) /\ draft[t.d].state \in {"REVIEW", "SUBMISSION_RETRYABLE"}
    BY <1>1, <1>4, FsmFacts DEF CasAccepted, Current, RowOK
  <2>2. CompareAndSwap(t.d, "CANCELLED")
    BY <1>4 DEF CancelDraft
  <2>3. /\ draft'[t.d].state = "CANCELLED"
        /\ draft'[t.d].revision = draft[t.d].revision + 1
        /\ draft'[t.d].template = draft[t.d].template
        /\ \A e \in Drafts : e # t.d => draft'[e] = draft[e]
    BY <1>1, <2>2, CasMoves
  <2>4. RowMoves(t.d)
    BY <1>1, <2>1, <2>3 DEF RowMoves, RowOK, OpenStates, Reached, Absent
  <2> QED
    BY <1>1, <1>2, <2>1, <2>3, <2>4, WriteInv DEF external
<1> QED
  BY <1>3, <1>4

\* A row is given back only when its latest attempt is closed.
LEMMA FailedIsClosed ==
  ASSUME Inv, NEW w \in Workers, worker[w].pc = "finish",
         worker[w].res = "failed", Current(w)
  PROVE AllClosed(worker[w].d)
<1> DEFINE t == worker[w]
           d == worker[w].d
<1>1. TypeOK /\ TaskOK(w) /\ d \in Drafts
  BY DEF Inv, TaskOK, TaskShape
<1>2. t.op \in {"submit", "allow_retry"}
  BY <1>1 DEF TaskOK, TaskShape
<1>3. /\ t.num = latest[d] /\ t.num \in AttemptNumbers
      /\ attempts[d][t.num].status = "failed"
      /\ Trusted => CannotBeCreated(d, t.num)
  <2>1. CASE t.op = "submit"
    BY <1>1, <2>1 DEF TaskOK, SubmitTask, Sending, Settling, CannotBeCreated
  <2>2. CASE t.op = "allow_retry"
    BY <1>1, <2>2 DEF TaskOK, TaskShape, RetryTask, Settling
  <2> QED
    BY <1>2, <2>1, <2>2
<1>4. ASSUME NEW n \in AttemptNumbers, n <= latest[d] PROVE Closed(d, n)
  <2>1. n = latest[d] \/ n < latest[d]
    BY <1>1, <1>4, StoreAssumption DEF TypeOK, StoreTypeOK, AttemptNumbers
  <2>2. AttemptOK(d, n)
    BY <1>1 DEF Inv
  <2> QED
    BY <1>3, <2>1, <2>2 DEF AttemptOK, Closed
<1> QED
  BY <1>4 DEF AllClosed

LEMMA FinishInv ==
  ASSUME Inv, TypeOK', NEW w \in Workers, Finish(w)
  PROVE Inv'
<1> DEFINE t == worker[w]
           s == Target(t.res)
<1>1. /\ TypeOK /\ t.pc = "finish" /\ t.pc # "idle" /\ t.d \in Drafts
      /\ t.res \in Results /\ RowOK(t.d) /\ End(w)
  BY TaskFacts DEF Inv, Finish, Task
<1>2. UNCHANGED <<attempts, latest, published, external>>
  BY DEF Finish
<1>3. CASE ~CasAccepted(t.d, t.rev, s)
  BY <1>1, <1>2, <1>3, LocalEnd DEF Finish, storeVars
<1>4. CASE CasAccepted(t.d, t.rev, s)
  <2>1. Current(w) /\ draft[t.d].state # Absent
    BY <1>4, FsmFacts DEF CasAccepted, Current
  <2>2. CompareAndSwap(t.d, s)
    BY <1>4 DEF Finish
  <2>3. /\ draft'[t.d].state = s
        /\ draft'[t.d].revision = draft[t.d].revision + 1
        /\ draft'[t.d].template = draft[t.d].template
        /\ \A e \in Drafts : e # t.d => draft'[e] = draft[e]
    BY <1>1, <2>2, CasMoves
  <2>4. \/ s \in {"CREATED", "SUBMISSION_UNKNOWN"}
        \/ s = "SUBMISSION_RETRYABLE" /\ t.res = "failed"
    BY <1>1, TargetFacts DEF Results
  <2>5. s = "SUBMISSION_RETRYABLE" => AllClosed(t.d)
    BY <1>1, <2>1, <2>4, FailedIsClosed
  <2>6. RowMoves(t.d)
    BY <1>1, <2>1, <2>3, <2>4, <2>5 DEF RowMoves, RowOK, OpenStates, Reached, Absent
  <2> QED
    BY <1>1, <1>2, <2>1, <2>3, <2>6, WriteInv DEF external
<1> QED
  BY <1>3, <1>4

LEMMA SubmitCasInv ==
  ASSUME Inv, TypeOK', NEW w \in Workers, SubmitCas(w)
  PROVE Inv'
<1> DEFINE t == worker[w]
           S == Workers \ {w}
<1>1. /\ TypeOK /\ TaskOK(w) /\ t \in Task /\ t.op = "submit" /\ t.pc = "cas"
      /\ t.pc # "idle" /\ t.d \in Drafts /\ RowOK(t.d)
      /\ draft[t.d].revision \in Nat
  BY TaskFacts DEF Inv, SubmitCas, At, Row
<1>2. UNCHANGED <<attempts, latest, published, external>>
  BY DEF SubmitCas
<1>3. CASE ~CasAccepted(t.d, t.rev, "SUBMITTING")
  BY <1>2, <1>3, LocalEnd DEF SubmitCas, storeVars
<1>4. CASE CasAccepted(t.d, t.rev, "SUBMITTING")
  <2>1. /\ Current(w) /\ draft[t.d].state \in {"REVIEW", "SUBMISSION_RETRYABLE"}
        /\ AllClosed(t.d) /\ t.tpl = draft[t.d].template /\ latest[t.d] < MaxAttempts
    BY <1>1, <1>4, FsmFacts DEF CasAccepted, Current, TaskOK, SubmitTask, RowOK,
                                OpenStates
  <2>2. /\ CompareAndSwap(t.d, "SUBMITTING")
        /\ worker' = [worker EXCEPT ![w].pc = "latest", ![w].rev = @ + 1]
    BY <1>4 DEF SubmitCas
  <2>3. /\ draft'[t.d].state = "SUBMITTING"
        /\ draft'[t.d].revision = draft[t.d].revision + 1
        /\ draft'[t.d].template = draft[t.d].template
        /\ \A e \in Drafts : e # t.d => draft'[e] = draft[e]
    BY <1>1, <2>2, CasMoves
  <2>4. /\ \A v \in S : worker'[v] = worker[v]
        /\ worker'[w].op = "submit" /\ worker'[w].pc = "latest"
        /\ worker'[w].d = t.d /\ worker'[w].rev = t.rev + 1
        /\ worker'[w].tpl = t.tpl /\ worker'[w].num = t.num
        /\ worker'[w].res = t.res /\ worker'[w].key = t.key
    BY <1>1, <2>2 DEF TypeOK, Task
  <2>5. Others(S)
    BY <2>4 DEF Others
  <2>6. \A e \in Drafts, n \in AttemptNumbers : AttemptMoves(e, n)
    BY <1>2 DEF AttemptMoves
  <2>7. UNCHANGED <<latest, wire, jira>>
    BY <1>2 DEF external
  <2>8. /\ \A d \in Drafts : RowOK(d)'
        /\ \A d \in Drafts, n \in AttemptNumbers : AttemptOK(d, n)'
        /\ \A k \in IssueKeys : IssueOK(k)'
        /\ OneIssuePerAttempt'
        /\ \A v \in S : TaskOK(v)'
        /\ \A u, v \in S : u # v => Exclusive(u, v)'
    <3>1. \A e \in Drafts : RowMoves(e) /\ (published'[e] # NoKey => Succeeded(e)')
      BY <1>1, <1>2, <2>1, <2>3
         DEF Inv, RowMoves, RowOK, OpenStates, Reached, Absent, Succeeded
    <3>2. ASSUME NEW v \in S, worker[v].pc # "idle" PROVE RowKept(v)
      <4>1. worker[v].d = t.d =>
              ~(worker[v].op = "submit" /\ worker[v].pc \in {"latest", "claim"})
        BY <1>1, <2>1, LockExcludes
      <4> QED
        BY <1>1, <2>3, <3>2, <4>1, TaskFacts DEF RowKept
    <3> HIDE DEF S
    <3> QED
      BY <2>5, <2>6, <2>7, <3>1, <3>2, Frame
  <2>9. TaskOK(w)'
    <3>1. \A d \in Drafts : AllClosed(d) => AllClosed(d)'
      <4> HIDE DEF S
      <4> QED
        BY <2>5, <2>6, <2>7, Monotone
    <3>2. TaskShape(w)'
      BY <1>1, <2>1, <2>3, <2>4 DEF TaskOK, TaskShape, RunsStep, Settling, Current
    <3>3. HoldsLock(w)'
      BY <1>1, <1>2, <2>1, <2>3, <2>4, <3>1 DEF HoldsLock, Current
    <3>4. SubmitTask(w)' /\ RecoverTask(w)' /\ ReconcileTask(w)' /\ RetryTask(w)'
      BY <2>4 DEF SubmitTask, RecoverTask, ReconcileTask, RetryTask, Sending
    <3> QED
      BY <3>2, <3>3, <3>4 DEF TaskOK
  <2>10. ASSUME NEW v \in S PROVE Exclusive(w, v)' /\ Exclusive(v, w)'
    <3>1. worker[v].pc # "idle" /\ worker[v].d = t.d =>
            worker[v].rev # t.rev + 1
      BY <1>1, <2>1, TaskFacts DEF Current
    <3>2. worker[v].op = "submit" \/ worker[v].pc \in Settling => worker[v].pc # "idle"
      BY DEF Inv, TaskOK, TaskShape, RunsStep, Settling
    <3> QED
      BY <1>1, <2>4, <3>1, <3>2 DEF Exclusive, Sending, Settling
  <2> QED
    BY <2>8, <2>9, <2>10 DEF Inv
<1> QED
  BY <1>3, <1>4

-----------------------------------------------------------------------------
(* Steps of one create request: sent, created at Jira, refused or lost.    *)

LEMMA WireFrame ==
  ASSUME Inv, TypeOK', NEW d \in Drafts, NEW n \in AttemptNumbers, NEW s,
         wire' = [wire EXCEPT ![d][n] = s], UNCHANGED storeVars,
         n <= latest[d], wire[d][n] \in {"unsent", "inflight"},
         ~CannotBeCreated(d, n), NEW S, Others(S),
         \A v \in S : worker[v].pc = "dispatch" /\ worker[v].d = d =>
                        worker[v].num # n
  PROVE /\ \A e \in Drafts : RowOK(e)'
        /\ \A e \in Drafts, m \in AttemptNumbers : AttemptOK(e, m)'
        /\ \A v \in S : TaskOK(v)'
        /\ \A u, v \in S : u # v => Exclusive(u, v)'
<1>t. TypeOK
  BY DEF Inv
<1>w. \A e \in Drafts, m \in AttemptNumbers :
        e # d \/ m # n => wire'[e][m] = wire[e][m]
  BY <1>t DEF TypeOK
<1>c. \A e \in Drafts, m \in AttemptNumbers :
        CannotBeCreated(e, m) => CannotBeCreated(e, m)'
  BY <1>w DEF CannotBeCreated, At, Others
<1>m. \A e \in Drafts : /\ AllClosed(e) => AllClosed(e)'
                        /\ Succeeded(e) => Succeeded(e)'
  BY <1>c DEF AllClosed, Closed, Succeeded, Trusted, storeVars
<1>1. ASSUME NEW e \in Drafts PROVE RowOK(e)'
  BY <1>m DEF Inv, RowOK, storeVars
<1>2. ASSUME NEW e \in Drafts, NEW m \in AttemptNumbers PROVE AttemptOK(e, m)'
  <2>1. AttemptOK(e, m) /\ (Closed(e, m) => Closed(e, m)')
    BY <1>c DEF Inv, Closed, Trusted, storeVars
  <2>2. latest[e] \in Nat /\ m \in Nat
    BY <1>t, StoreAssumption DEF TypeOK, StoreTypeOK, AttemptNumbers
  <2> QED
    BY <1>w, <1>c, <2>1, <2>2 DEF AttemptOK, Trusted, storeVars
<1>3. ASSUME NEW v \in S PROVE TaskOK(v)'
  <2> DEFINE t == worker[v]
  <2>1. TaskOK(v) /\ worker'[v] = t
    BY DEF Inv, Others
  <2>2. CASE t.pc = "idle"
    BY <2>1, <2>2 DEF TaskOK, TaskShape, RunsStep, HoldsLock, SubmitTask,
                      RecoverTask, ReconcileTask, RetryTask, Settling
  <2>3. CASE t.pc # "idle"
    <3>d. PICK e \in Drafts : e = t.d
      BY <2>1, <2>3 DEF TaskOK, TaskShape
    <3>1. TaskShape(v)'
      BY <1>m, <2>1, <3>d DEF TaskOK, TaskShape, storeVars
    <3>2. HoldsLock(v)'
      BY <1>m, <2>1, <3>d DEF TaskOK, HoldsLock, Current, storeVars
    <3>3. SubmitTask(v)'
      BY <1>w, <2>1, <3>d DEF TaskOK, SubmitTask, Current, Sending, Settling,
                              Trusted, storeVars
    <3>4. RecoverTask(v)' /\ ReconcileTask(v)'
      BY <2>1 DEF TaskOK, RecoverTask, ReconcileTask, Current, storeVars
    <3>5. RetryTask(v)'
      <4>1. latest[e] > 0 => latest[e] \in AttemptNumbers
        BY <1>t, StoreAssumption DEF TypeOK, StoreTypeOK, AttemptNumbers
      <4> QED
        BY <1>c, <2>1, <3>d, <4>1 DEF TaskOK, RetryTask, Current, Trusted, storeVars
    <3> QED
      BY <3>1, <3>2, <3>3, <3>4, <3>5 DEF TaskOK
  <2> QED
    BY <2>2, <2>3
<1>4. ASSUME NEW u \in S, NEW v \in S, u # v PROVE Exclusive(u, v)'
  BY <1>4 DEF Inv, Exclusive, Others
<1> QED
  BY <1>1, <1>2, <1>3, <1>4

LEMMA DispatchInv ==
  ASSUME Inv, TypeOK', NEW w \in Workers, Dispatch(w)
  PROVE Inv'
<1> DEFINE t == worker[w]
           S == Workers \ {w}
<1>1. /\ TypeOK /\ TaskOK(w) /\ t \in Task /\ t.op = "submit"
      /\ t.pc = "dispatch" /\ t.d \in Drafts /\ t.num \in AttemptNumbers
      /\ t.num <= latest[t.d] /\ wire[t.d][t.num] = "unsent"
  BY TaskFacts DEF Inv, TypeOK, Dispatch, At, TaskOK, SubmitTask, Sending
<1>2. /\ UNCHANGED storeVars /\ UNCHANGED jira
      /\ wire' = [wire EXCEPT ![t.d][t.num] = "inflight"]
  BY DEF Dispatch
<1>3. /\ \A v \in S : worker'[v] = worker[v]
      /\ worker'[w].op = "submit" /\ worker'[w].pc = "await"
      /\ worker'[w].d = t.d /\ worker'[w].rev = t.rev
      /\ worker'[w].num = t.num /\ worker'[w].res = t.res
  BY <1>1 DEF Dispatch, Step, TypeOK, Task
<1>4. ~CannotBeCreated(t.d, t.num)
  BY <1>1 DEF CannotBeCreated, At
<1>5. \A v \in S : worker[v].pc = "dispatch" /\ worker[v].d = t.d =>
                     worker[v].num # t.num
  <2>1. ASSUME NEW v \in S, worker[v].pc = "dispatch", worker[v].d = t.d
        PROVE worker[v].num # t.num
    <3>1. worker[v].op = "submit" /\ Exclusive(v, w)
      BY <2>1 DEF Inv, TaskOK, TaskShape, RunsStep
    <3> QED
      BY <1>1, <2>1, <3>1 DEF Exclusive, Sending
  <2> QED
    BY <2>1
<1>6. /\ \A e \in Drafts : RowOK(e)'
      /\ \A e \in Drafts, m \in AttemptNumbers : AttemptOK(e, m)'
      /\ \A v \in S : TaskOK(v)'
      /\ \A u, v \in S : u # v => Exclusive(u, v)'
  <2>1. Others(S)
    BY <1>3 DEF Others
  <2>2. PICK d \in Drafts, n \in AttemptNumbers, s \in {"inflight"} :
               d = t.d /\ n = t.num
    BY <1>1
  <2>3. /\ UNCHANGED storeVars /\ wire' = [wire EXCEPT ![d][n] = s]
        /\ n <= latest[d] /\ wire[d][n] = "unsent" /\ ~CannotBeCreated(d, n)
        /\ \A v \in S : worker[v].pc = "dispatch" /\ worker[v].d = d =>
                         worker[v].num # n
    BY <1>1, <1>2, <1>4, <1>5, <2>2
  <2> HIDE DEF S, t
  <2> QED
    BY <2>1, <2>3, WireFrame
<1>7. (\A k \in IssueKeys : IssueOK(k)') /\ OneIssuePerAttempt'
  <2>1. \A e \in Drafts, m \in AttemptNumbers :
          wire[e][m] = "applied" => wire'[e][m] = "applied"
    BY <1>1, <1>2 DEF TypeOK
  <2>2. \A k \in IssueKeys : IssueOK(k) /\ (jira[k] # NoIssue => jira[k] \in Issue)
    BY <1>1 DEF Inv, TypeOK
  <2>3. \A k \in IssueKeys : IssueOK(k)'
    BY <1>2, <2>1, <2>2 DEF IssueOK, Issue, storeVars
  <2> QED
    BY <1>2, <2>3 DEF Inv, OneIssuePerAttempt
<1>8. TaskOK(w)'
  BY <1>1, <1>2, <1>3 DEF TaskOK, TaskShape, RunsStep, HoldsLock, SubmitTask,
     RecoverTask, ReconcileTask, RetryTask, Settling, Sending, Current, storeVars
<1>9. \A v \in S : Exclusive(w, v)' /\ Exclusive(v, w)'
  BY <1>1, <1>3 DEF Inv, Exclusive, Sending
<1> QED
  BY <1>6, <1>7, <1>8, <1>9 DEF Inv

LEMMA JiraInv ==
  ASSUME Inv, TypeOK', NEW d \in Drafts, NEW n \in AttemptNumbers, JiraStep(d, n)
  PROVE Inv'
<1>1. TypeOK /\ AttemptOK(d, n) /\ wire[d][n] = "inflight"
  BY DEF Inv, JiraStep, JiraRefuses, JiraCreates
<1>2. UNCHANGED <<storeVars, worker>>
  BY DEF JiraStep, JiraRefuses, JiraCreates
<1>3. PICK s \in {"applied", "rejected", "lost"} : wire' = [wire EXCEPT ![d][n] = s]
  BY DEF JiraStep, JiraRefuses, JiraCreates
<1>4. n <= latest[d]
  <2>1. latest[d] \in Nat /\ n \in Nat
    BY <1>1, StoreAssumption DEF TypeOK, StoreTypeOK, AttemptNumbers
  <2> QED
    BY <1>1, <2>1 DEF AttemptOK
<1>5. ~CannotBeCreated(d, n)
  BY <1>1 DEF CannotBeCreated
<1>6. \A v \in Workers : worker[v].pc = "dispatch" /\ worker[v].d = d =>
                           worker[v].num # n
  BY <1>1 DEF Inv, TaskOK, TaskShape, RunsStep, SubmitTask, Sending
<1>7. /\ \A e \in Drafts : RowOK(e)'
      /\ \A e \in Drafts, m \in AttemptNumbers : AttemptOK(e, m)'
      /\ \A v \in Workers : TaskOK(v)'
      /\ \A u, v \in Workers : u # v => Exclusive(u, v)'
  <2>1. Others(Workers)
    BY <1>2 DEF Others
  <2>2. UNCHANGED storeVars
    BY <1>2
  <2> QED
    BY <1>1, <1>3, <1>4, <1>5, <1>6, <2>1, <2>2, WireFrame
<1>8. /\ \A e \in Drafts, m \in AttemptNumbers :
           wire[e][m] = "applied" => wire'[e][m] = "applied"
      /\ wire'[d][n] = s
  BY <1>1, <1>3 DEF TypeOK
<1>9. \A k \in IssueKeys : IssueOK(k) /\ (jira[k] # NoIssue => jira[k] \in Issue)
  BY <1>1 DEF Inv, TypeOK
<1>10. (\A k \in IssueKeys : IssueOK(k)') /\ OneIssuePerAttempt'
  <2>1. CASE UNCHANGED jira
    <3>1. \A k \in IssueKeys : IssueOK(k)'
      BY <1>2, <1>8, <1>9, <2>1 DEF IssueOK, Issue, storeVars
    <3> QED
      BY <2>1, <3>1 DEF Inv, OneIssuePerAttempt
  <2>2. ASSUME NEW k \in IssueKeys, JiraCreates(d, n, k)
        PROVE (\A j \in IssueKeys : IssueOK(j)') /\ OneIssuePerAttempt'
    <3>1. /\ jira'[k] = [draft |-> d, number |-> n, hash |-> attempts[d][n].hash]
          /\ wire'[d][n] = "applied"
          /\ \A j \in IssueKeys : j # k => jira'[j] = jira[j]
      BY <1>1, <2>2 DEF JiraCreates, TypeOK
    <3>2. \A j \in IssueKeys : jira[j] # NoIssue =>
            ~(jira[j].draft = d /\ jira[j].number = n)
      BY <1>1, <1>9 DEF IssueOK
    <3>3. ASSUME NEW j \in IssueKeys PROVE IssueOK(j)'
      <4>1. CASE j = k
        BY <1>2, <1>4, <3>1, <4>1 DEF IssueOK, storeVars
      <4>2. CASE j # k
        BY <1>2, <1>8, <1>9, <3>1, <4>2 DEF IssueOK, Issue, storeVars
      <4> QED
        BY <4>1, <4>2
    <3>4. OneIssuePerAttempt'
      BY <3>1, <3>2 DEF Inv, OneIssuePerAttempt
    <3> QED
      BY <3>3, <3>4
  <2> QED
    BY <2>1, <2>2 DEF JiraStep, JiraRefuses
<1> QED
  BY <1>7, <1>10 DEF Inv

-----------------------------------------------------------------------------
(* The claim of a new attempt.                                             *)

LEMMA ClaimInv ==
  ASSUME Inv, TypeOK', NEW w \in Workers, SubmitClaim(w)
  PROVE Inv'
<1> DEFINE t == worker[w]
           S == Workers \ {w}
<1>1. /\ TypeOK /\ TaskOK(w) /\ t \in Task /\ t.op = "submit" /\ t.pc = "claim"
      /\ t.pc # "idle"
  BY DEF Inv, TypeOK, SubmitClaim, At
<1>2. PICK d \in Drafts : d = t.d
  BY <1>1, TaskFacts
<1>3. PICK n \in AttemptNumbers : n = t.num
  BY DEF SubmitClaim, ClaimAccepted
<1>4. /\ Current(w) /\ draft[d].state = "SUBMITTING" /\ AllClosed(d)
      /\ t.tpl = draft[d].template /\ n = latest[d] + 1
      /\ RowOK(d) /\ t.tpl \in Templates
  BY <1>1, <1>2, <1>3 DEF Inv, TaskOK, HoldsLock, RowOK, Absent
<1>5. /\ UNCHANGED <<draft, published, wire, jira>>
      /\ attempts' = [attempts EXCEPT ![d][n] = [status |-> "pending", hash |-> t.tpl]]
      /\ latest' = [latest EXCEPT ![d] = n]
      /\ attempts[d][n].status = "none"
  BY <1>2, <1>3 DEF SubmitClaim, ClaimAttempt, ClaimAccepted, external
<1>6. /\ attempts'[d][n].status = "pending" /\ attempts'[d][n].hash = t.tpl
      /\ \A e \in Drafts, m \in AttemptNumbers :
           e # d \/ m # n => attempts'[e][m] = attempts[e][m]
      /\ latest'[d] = n /\ latest[d] \in Nat /\ n \in Nat
      /\ \A e \in Drafts : e # d => latest'[e] = latest[e]
  BY <1>1, <1>5, StoreAssumption DEF TypeOK, StoreTypeOK, AttemptNumbers
<1>7. /\ \A v \in S : worker'[v] = worker[v]
      /\ worker'[w].op = "submit" /\ worker'[w].pc = "dispatch"
      /\ worker'[w].d = d /\ worker'[w].rev = t.rev
      /\ worker'[w].num = n /\ worker'[w].res = t.res
  BY <1>1, <1>2, <1>3 DEF SubmitClaim, Step, TypeOK, Task
<1>8. \A e \in Drafts, m \in AttemptNumbers :
        /\ CannotBeCreated(e, m) /\ (e # d \/ m # n) => CannotBeCreated(e, m)'
        /\ Closed(e, m) => Closed(e, m)'
  BY <1>5, <1>6, <1>7 DEF Closed, CannotBeCreated, At, Trusted
<1>9. \A e \in Drafts : Succeeded(e) => Succeeded(e)'
  BY <1>5, <1>6 DEF Succeeded
<1>10. \A e \in Drafts : e # d /\ AllClosed(e) => AllClosed(e)'
  BY <1>6, <1>8 DEF AllClosed
<1>11. ASSUME NEW e \in Drafts PROVE RowOK(e)'
  BY <1>4, <1>5, <1>9, <1>10 DEF Inv, RowOK, OpenStates, Absent
<1>12. ASSUME NEW e \in Drafts, NEW m \in AttemptNumbers PROVE AttemptOK(e, m)'
  <2>1. AttemptOK(e, m) /\ m \in Nat
    BY DEF Inv, AttemptNumbers
  <2>2. CASE e # d
    BY <1>5, <1>6, <1>8, <2>1, <2>2 DEF AttemptOK, Trusted
  <2>3. CASE e = d /\ m # n
    <3>1. m <= n <=> m <= latest[d]
      BY <1>4, <1>6, <2>1, <2>3
    <3>2. m < n => Closed(d, m)
      BY <1>4, <1>6, <2>1, <2>3, <3>1 DEF AllClosed
    <3> QED
      BY <1>4, <1>5, <1>6, <1>8, <2>1, <2>3, <3>1, <3>2 DEF AttemptOK, Trusted
  <2>4. CASE e = d /\ m = n
    BY <1>4, <1>5, <1>6, <2>1, <2>4 DEF AttemptOK
  <2> QED
    BY <2>2, <2>3, <2>4
<1>13. ASSUME NEW k \in IssueKeys PROVE IssueOK(k)'
  <2>1. IssueOK(k) /\ (jira[k] # NoIssue => jira[k] \in Issue)
    BY <1>1 DEF Inv, TypeOK
  <2> QED
    BY <1>4, <1>5, <1>6, <2>1 DEF IssueOK, Issue, AttemptNumbers
<1>14. OneIssuePerAttempt'
  BY <1>5 DEF Inv, OneIssuePerAttempt
<1>15. ASSUME NEW v \in S PROVE TaskOK(v)' /\ Exclusive(w, v)' /\ Exclusive(v, w)'
  <2> DEFINE u == worker[v]
  <2>1. /\ TaskOK(v) /\ worker'[v] = u /\ u \in Task
        /\ Exclusive(v, w) /\ Exclusive(w, v)
    BY <1>1, <1>7 DEF Inv, TypeOK
  <2>2. CASE u.pc = "idle"
    <3>1. u.op = "none"
      BY <2>1, <2>2 DEF TaskOK, TaskShape, RunsStep
    <3> QED
      BY <2>1, <2>2, <3>1 DEF TaskOK, TaskShape, RunsStep, HoldsLock, SubmitTask,
         RecoverTask, ReconcileTask, RetryTask, Settling, Exclusive
  <2>3. CASE u.pc # "idle"
    <3>e. PICK e \in Drafts : e = u.d
      BY <2>1, <2>3 DEF TaskOK, TaskShape
    <3>1. /\ e = d /\ u.op = "submit" /\ u.pc # "cas" => ~Current(v)
          /\ e = d => latest'[e] > latest[e]
      BY <1>1, <1>2, <1>4, <1>6, <2>1, <3>e DEF Exclusive, Current
    <3>2. latest[e] \in Nat /\ latest'[e] \in Nat /\ latest[e] <= latest'[e]
      <4>1. latest[e] \in Nat
        BY <1>1, StoreAssumption DEF TypeOK, StoreTypeOK
      <4> QED
        BY <1>4, <1>6, <4>1
    <3>3. TaskShape(v)'
      <4>1. \A m \in AttemptNumbers : m <= latest[e] => m <= latest'[e]
        BY <3>2 DEF AttemptNumbers
      <4> QED
        BY <1>5, <1>9, <2>1, <3>e, <4>1 DEF TaskOK, TaskShape
    <3>4. HoldsLock(v)'
      BY <1>5, <1>6, <1>10, <2>1, <3>e, <3>1 DEF TaskOK, HoldsLock, Current
    <3>5. SubmitTask(v)'
      <4>1. u.op = "submit" /\ u.pc = "cas" /\ Current(v) => e # d
        BY <1>4, <2>1, <3>e DEF TaskOK, SubmitTask
      <4>2. u.op = "submit" /\ u.pc \in Sending =>
              /\ u.num \in AttemptNumbers /\ u.num <= latest[e]
              /\ u.num <= latest'[e]
        BY <2>1, <3>e, <3>2 DEF TaskOK, SubmitTask, AttemptNumbers
      <4>3. u.op = "submit" /\ u.pc \in Sending => e # d \/ u.num # n
        BY <1>4, <1>6, <4>2
      <4> QED
        BY <1>5, <1>6, <2>1, <3>e, <3>1, <4>1, <4>2, <4>3
           DEF TaskOK, SubmitTask, Current, Sending, Settling, Trusted
    <3>6. RecoverTask(v)' /\ ReconcileTask(v)'
      BY <1>5, <2>1 DEF TaskOK, RecoverTask, ReconcileTask, Current
    <3>7. RetryTask(v)'
      <4>1. u.op = "allow_retry" /\ Current(v) => e # d
        BY <1>4, <2>1, <3>e DEF TaskOK, RetryTask
      <4>2. latest[e] > 0 => latest[e] \in AttemptNumbers
        BY <1>1, StoreAssumption DEF TypeOK, StoreTypeOK, AttemptNumbers
      <4> QED
        BY <1>5, <1>6, <1>8, <2>1, <3>e, <4>1, <4>2
           DEF TaskOK, RetryTask, Current, Trusted
    <3>8. Exclusive(w, v)' /\ Exclusive(v, w)'
      <4>1. u.op = "submit" /\ u.pc \in Sending /\ e = d => u.num # n
        BY <1>4, <1>6, <2>1, <3>e DEF TaskOK, SubmitTask, AttemptNumbers
      <4> QED
        BY <1>1, <1>2, <1>7, <2>1, <3>e, <4>1 DEF Exclusive, Sending
    <3> QED
      BY <3>3, <3>4, <3>5, <3>6, <3>7, <3>8 DEF TaskOK
  <2> QED
    BY <2>2, <2>3
<1>16. TaskOK(w)'
  <2>1. wire[d][n] = "unsent"
    BY <1>4, <1>6 DEF Inv, AttemptOK
  <2>2. TaskShape(w)' /\ HoldsLock(w)'
    BY <1>1, <1>2, <1>4, <1>5, <1>7 DEF TaskOK, TaskShape, RunsStep, Settling, HoldsLock
  <2>3. SubmitTask(w)'
    <3>1. /\ worker'[w].pc # "cas" /\ worker'[w].pc \notin Settling
          /\ worker'[w].num = n /\ worker'[w].d = d
      BY <1>7 DEF Settling
    <3>2. /\ n \in AttemptNumbers /\ n <= latest'[d] /\ n = latest'[d]
          /\ draft'[d].state = "SUBMITTING" /\ wire'[d][n] = "unsent"
      BY <1>4, <1>5, <1>6, <2>1
    <3> QED
      BY <3>1, <3>2 DEF SubmitTask, Current, Settling, Sending
  <2>4. RecoverTask(w)' /\ ReconcileTask(w)' /\ RetryTask(w)'
    BY <1>7 DEF RecoverTask, ReconcileTask, RetryTask
  <2> QED
    BY <2>2, <2>3, <2>4 DEF TaskOK
<1>17. ASSUME NEW u \in S, NEW v \in S, u # v PROVE Exclusive(u, v)'
  BY <1>7, <1>17 DEF Inv, Exclusive
<1> QED
  BY <1>11, <1>12, <1>13, <1>14, <1>15, <1>16, <1>17 DEF Inv

-----------------------------------------------------------------------------
(* The invariant of every behaviour, and what follows from it.             *)

LEMMA InvStep == Inv /\ [Next]_vars => Inv'
<1>0. SUFFICES ASSUME Inv, [Next]_vars PROVE Inv'
  OBVIOUS
<1>t. TypeOK'
  BY <1>0, TypeStep
<1>1. ASSUME NEW d \in Drafts, CreateManualDraft(d) PROVE Inv'
  BY <1>0, <1>t, <1>1, CreateInv
<1>2. ASSUME NEW w \in Workers, NEW d \in Drafts, Begin(w, d) PROVE Inv'
  BY <1>0, <1>t, <1>2, BeginInv
<1>3. ASSUME NEW w \in Workers, Abort(w) PROVE Inv'
  BY <1>0, <1>t, <1>3, LocalEnd DEF Abort
<1>4. ASSUME NEW w \in Workers, Proceed(w) PROVE Inv'
  BY <1>0, <1>t, <1>4, EditInv, CancelInv, SubmitCasInv, NewAttemptInv, ClaimInv,
     DispatchInv, ReceiveInv, LearnInv, QueryInv, SettleInv, PublishInv, FinishInv
     DEF Proceed
<1>5. ASSUME NEW d \in Drafts, NEW n \in AttemptNumbers, JiraStep(d, n) PROVE Inv'
  BY <1>0, <1>t, <1>5, JiraInv
<1>6. CASE UNCHANGED vars
  <2>1. UNCHANGED <<draft, attempts, latest, published, jira, wire, worker>>
    BY <1>6 DEF vars, storeVars
  <2>2. \A d \in Drafts : RowOK(d)'
    BY <1>0, <2>1 DEF Inv, RowOK, AllClosed, Closed, CannotBeCreated, At, Succeeded,
       Trusted
  <2>3. \A d \in Drafts, n \in AttemptNumbers : AttemptOK(d, n)'
    BY <1>0, <2>1 DEF Inv, AttemptOK, Closed, CannotBeCreated, At, Trusted
  <2>4. (\A k \in IssueKeys : IssueOK(k)') /\ OneIssuePerAttempt'
    BY <1>0, <2>1 DEF Inv, IssueOK, OneIssuePerAttempt
  <2>5. ASSUME NEW w \in Workers PROVE TaskOK(w)'
    <3>1. TaskShape(w)' /\ HoldsLock(w)'
      BY <1>0, <2>1 DEF Inv, TaskOK, TaskShape, HoldsLock, Succeeded, Current,
         AllClosed, Closed, CannotBeCreated, At, Trusted
    <3>2. SubmitTask(w)' /\ RecoverTask(w)' /\ ReconcileTask(w)' /\ RetryTask(w)'
      BY <1>0, <2>1 DEF Inv, TaskOK, SubmitTask, RecoverTask, ReconcileTask,
         RetryTask, Current, CannotBeCreated, At, Trusted
    <3> QED
      BY <3>1, <3>2 DEF TaskOK
  <2>6. \A v, w \in Workers : v # w => Exclusive(v, w)'
    BY <1>0, <2>1 DEF Inv, Exclusive
  <2> QED
    BY <1>t, <2>2, <2>3, <2>4, <2>5, <2>6 DEF Inv
<1> QED
  BY <1>0, <1>1, <1>2, <1>3, <1>4, <1>5, <1>6 DEF Next

\* What each task knows of its row and its attempt, and which attempts can no
\* longer make an issue, is kept by every step of every service call, by
\* crashes and by Jira.
THEOREM Invariance == Spec => []Inv
  BY InitInv, InvStep, PTL DEF Spec

\* Every variable keeps its type, in particular the attempt numbers and the
\* row a task works on: no transaction addresses a row that is not there.
THEOREM TypeCorrect == Spec => []TypeOK
<1>1. Inv => TypeOK
  BY DEF Inv
<1> QED
  BY <1>1, Invariance, PTL

\* _submit never claims an attempt while an earlier one is pending or of
\* unknown outcome, whatever Jira answers and whatever humans decide.
THEOREM NoDispatchWhileUnresolvedHolds == Spec => []NoDispatchWhileUnresolved
<1>1. Inv => NoDispatchWhileUnresolved
  <2> SUFFICES ASSUME Inv, NEW d \in Drafts, NEW n \in 1 .. latest[d],
                      n < latest[d]
               PROVE attempts[d][n].status = "failed"
    BY DEF NoDispatchWhileUnresolved
  <2>1. n \in AttemptNumbers
    BY StoreAssumption DEF Inv, TypeOK, StoreTypeOK, AttemptNumbers
  <2> QED
    BY <2>1 DEF Inv, AttemptOK, Closed
<1> QED
  BY <1>1, Invariance, PTL

\* The task that moved a row to SUBMITTING is not refused its claim by the
\* one-active-attempt index or by the attempt's number.
THEOREM ClaimNeverRefusedHolds == Spec => []ClaimNeverRefused
<1>1. Inv => ClaimNeverRefused
  <2> SUFFICES ASSUME Inv, NEW w \in Workers, At(w, "submit", "claim")
               PROVE ClaimAccepted(worker[w].d, worker[w].num)
    BY DEF ClaimNeverRefused
  <2> DEFINE d == worker[w].d
             n == worker[w].num
  <2>1. /\ d \in Drafts /\ draft[d].state = "SUBMITTING" /\ AllClosed(d)
        /\ latest[d] < MaxAttempts /\ n = latest[d] + 1
    BY DEF Inv, TaskOK, TaskShape, HoldsLock, At
  <2>2. latest[d] \in Nat /\ n \in AttemptNumbers
    BY <2>1, StoreAssumption DEF Inv, TypeOK, StoreTypeOK, AttemptNumbers
  <2>3. ASSUME NEW m \in AttemptNumbers
        PROVE /\ attempts[d][m].status # "pending"
              /\ m = n => attempts[d][m].status = "none"
    <3>1. AttemptOK(d, m) /\ (m <= latest[d] => Closed(d, m))
      BY <2>1 DEF Inv, AllClosed
    <3> QED
      BY <2>1, <2>2, <3>1 DEF AttemptOK, Closed
  <2> QED
    BY <2>1, <2>2, <2>3 DEF ClaimAccepted, ClaimStates
<1> QED
  BY <1>1, Invariance, PTL

\* The open drafts of a state are clean, and no draft has two issues in it.
LEMMA OpenIsClean == Trusted /\ Inv => OpenMeansNotCreated
<1> SUFFICES ASSUME Trusted, Inv, NEW d \in Drafts, draft[d].state \in OpenStates,
                    NEW n \in 1 .. latest[d]
             PROVE wire[d][n] \notin {"inflight", "applied"}
  BY DEF OpenMeansNotCreated
<1>1. n \in AttemptNumbers /\ n <= latest[d]
  BY StoreAssumption DEF Inv, TypeOK, StoreTypeOK, AttemptNumbers
<1> QED
  BY <1>1 DEF Inv, RowOK, AllClosed, Closed, CannotBeCreated

\* When answers and reviews can be trusted, a draft that is offered again, or
\* was cancelled, has no issue and no request under way.
THEOREM OpenMeansNotCreatedHolds ==
  ~MalformedReplies /\ TrustworthyReview /\ Spec => []OpenMeansNotCreated
<1>1. Trusted /\ Inv => OpenMeansNotCreated
  BY OpenIsClean
<1>2. CASE Trusted
  BY <1>1, <1>2, Invariance, PTL
<1>3. CASE ~Trusted
  BY <1>3 DEF Trusted
<1> QED
  BY <1>2, <1>3

LEMMA OneIssue == Trusted /\ Inv => AtMostOneIssue
<1> SUFFICES ASSUME Trusted, Inv, NEW j \in IssueKeys, NEW k \in IssueKeys,
                    jira[j] # NoIssue, jira[k] # NoIssue,
                    jira[j].draft = jira[k].draft
             PROVE j = k
  BY DEF AtMostOneIssue
<1>1. jira[j] \in Issue /\ jira[k] \in Issue
  BY DEF Inv, TypeOK
<1>2. ASSUME NEW i \in IssueKeys, NEW h \in IssueKeys,
             jira[i] # NoIssue, jira[h] # NoIssue,
             jira[i] \in Issue, jira[h] \in Issue,
             jira[i].draft = jira[h].draft
      PROVE ~(jira[i].number < jira[h].number)
  <2> DEFINE d == jira[i].draft
             n == jira[i].number
  <2>1. d \in Drafts /\ n \in AttemptNumbers /\ latest[d] \in Nat
        /\ jira[h].number \in Nat /\ n \in Nat
    BY <1>2 DEF Inv, TypeOK, StoreTypeOK, Issue, AttemptNumbers
  <2>2. wire[d][n] = "applied" /\ jira[h].number <= latest[d]
    BY <1>2 DEF Inv, IssueOK
  <2>3. n < latest[d] => CannotBeCreated(d, n)
    BY <2>1 DEF Inv, AttemptOK, Closed
  <2> QED
    BY <2>1, <2>2, <2>3 DEF CannotBeCreated
<1>3. jira[j].number = jira[k].number
  BY <1>1, <1>2 DEF Issue, AttemptNumbers
<1> QED
  BY <1>3 DEF Inv, OneIssuePerAttempt

\* When answers and reviews can be trusted, no draft ever has two issues.
THEOREM AtMostOneIssueHolds ==
  ~MalformedReplies /\ TrustworthyReview /\ Spec => []AtMostOneIssue
<1>1. Trusted /\ Inv => AtMostOneIssue
  BY OneIssue
<1>2. CASE Trusted
  BY <1>1, <1>2, Invariance, PTL
<1>3. CASE ~Trusted
  BY <1>3 DEF Trusted
<1> QED
  BY <1>2, <1>3

\* When answers and reviews can be trusted, an issue has the content its draft
\* has: no edit slips in between the confirmation and the request.
THEOREM IssueIsWhatWasConfirmedHolds ==
  ~MalformedReplies /\ TrustworthyReview /\ Spec => []IssueIsWhatWasConfirmed
<1>1. Trusted /\ Inv => IssueIsWhatWasConfirmed
  <2> SUFFICES ASSUME Trusted, Inv, NEW k \in IssueKeys, jira[k] # NoIssue
               PROVE jira[k].hash = draft[jira[k].draft].template
    BY DEF IssueIsWhatWasConfirmed
  <2> DEFINE d == jira[k].draft
             n == jira[k].number
  <2>1. d \in Drafts /\ n \in AttemptNumbers
    BY DEF Inv, TypeOK, Issue
  <2>2. n <= latest[d] /\ wire[d][n] = "applied" /\ jira[k].hash = attempts[d][n].hash
    BY DEF Inv, IssueOK
  <2> QED
    BY <2>1, <2>2 DEF Inv, AttemptOK, CannotBeCreated
<1>2. CASE Trusted
  BY <1>1, <1>2, Invariance, PTL
<1>3. CASE ~Trusted
  BY <1>3 DEF Trusted
<1> QED
  BY <1>2, <1>3

-----------------------------------------------------------------------------
(* What a created draft names.  A task that settles a success has in hand  *)
(* an issue with the content of its attempt, and stores it before it moves *)
(* the row; of the attempts that did not fail, there is only the latest,   *)
(* and its content is the draft's.                                         *)

RowBacked(d) ==
  /\ published[d] # NoKey =>
       /\ jira[published[d]] # NoIssue
       /\ \A n \in AttemptNumbers : attempts[d][n].status = "success" =>
            jira[published[d]].hash = attempts[d][n].hash
  /\ draft[d].state \in PublishedStates => published[d] # NoKey
  /\ \A n \in AttemptNumbers : n <= latest[d] =>
       attempts[d][n].status = "failed" \/ attempts[d][n].hash = draft[d].template

TaskBacked(w) ==
  LET t == worker[w]
  IN  /\ t.op \in {"submit", "reconcile"} /\ t.pc \in {"settle", "publish"}
           /\ t.res = "success" =>
           /\ t.key # NoKey
           /\ jira[t.key] # NoIssue
           /\ jira[t.key].hash = attempts[t.d][t.num].hash
      /\ t.pc = "publish" => attempts[t.d][t.num].status = "success"
      /\ t.op = "recover" /\ t.key # NoKey => published[t.d] # NoKey
      /\ t.op = "recover" /\ t.res = "success" => t.key # NoKey
      /\ t.pc = "finish" /\ t.res = "success" => published[t.d] # NoKey

Backed == /\ \A d \in Drafts : RowBacked(d)
          /\ \A w \in Workers : TaskBacked(w)

\* At most the latest attempt did not fail.
LEMMA OnlyLatest ==
  ASSUME Inv, NEW d \in Drafts, NEW n \in AttemptNumbers,
         attempts[d][n].status \notin {"none", "failed"}
  PROVE n = latest[d]
<1>1. AttemptOK(d, n) /\ latest[d] \in Nat /\ n \in Nat
  BY DEF Inv, TypeOK, StoreTypeOK, AttemptNumbers
<1> QED
  BY <1>1 DEF AttemptOK, Closed

\* Issues, successes and the contents of attempts stay, and a draft that
\* names an issue goes on naming one.
Grows ==
  /\ \A k \in IssueKeys : jira[k] # NoIssue => jira'[k] = jira[k]
  /\ \A d \in Drafts : published[d] # NoKey => published'[d] # NoKey
  /\ \A d \in Drafts, n \in AttemptNumbers : n <= latest[d] =>
       /\ attempts'[d][n].hash = attempts[d][n].hash
       /\ attempts[d][n].status = "success" => attempts'[d][n].status = "success"

\* What a task that rests knows stays so.
LEMMA TaskStays ==
  ASSUME Inv, Grows, NEW v \in Workers, TaskBacked(v), worker'[v] = worker[v]
  PROVE TaskBacked(v)'
<1> DEFINE t == worker[v]
<1>1. CASE t.pc = "idle"
  <2>1. t.op = "none"
    BY <1>1 DEF Inv, TaskOK, TaskShape, RunsStep
  <2> QED
    BY <1>1, <2>1 DEF TaskBacked
<1>2. CASE t.pc # "idle"
  <2>1. /\ t \in Task /\ t.d \in Drafts
        /\ t.pc \in {"settle", "publish"} =>
             t.num \in AttemptNumbers /\ t.num <= latest[t.d]
    <3>1. TaskShape(v) /\ SubmitTask(v)
      BY DEF Inv, TaskOK
    <3> QED
      BY <1>2, <3>1, TaskFacts DEF TaskShape, SubmitTask, Sending, Settling
  <2> QED
    BY <1>2, <2>1 DEF TaskBacked, Grows, Task
<1> QED
  BY <1>1, <1>2

LEMMA IdleBacked ==
  ASSUME Inv, NEW w \in Workers, End(w)
  PROVE TaskBacked(w)' /\ \A v \in Workers \ {w} : worker'[v] = worker[v]
<1>1. worker'[w] = Idle /\ \A v \in Workers \ {w} : worker'[v] = worker[v]
  BY DEF Inv, TypeOK, End
<1> QED
  BY <1>1 DEF TaskBacked, Idle

\* A row that is written, by a task that writes nothing else, keeps its
\* content unless its attempts are closed, and is published only if its issue
\* is stored.
LEMMA RowStays ==
  ASSUME Inv, NEW d \in Drafts, RowBacked(d),
         UNCHANGED <<attempts, latest, published, jira>>,
         draft'[d].template = draft[d].template \/ AllClosed(d),
         draft'[d].state \in PublishedStates =>
           draft[d].state \in PublishedStates \/ published[d] # NoKey
  PROVE RowBacked(d)'
  BY DEF RowBacked, AllClosed, Closed

LEMMA Unwritten ==
  ASSUME Inv, Backed, UNCHANGED <<storeVars, jira>>
  PROVE Grows /\ \A d \in Drafts : RowBacked(d)'
<1>1. Grows
  BY DEF Grows, storeVars
<1>2. ASSUME NEW d \in Drafts PROVE RowBacked(d)'
  BY RowStays DEF Backed, storeVars
<1> QED
  BY <1>1, <1>2

\* Steps in which w only reads.
LEMMA ReadBacked ==
  ASSUME Inv, Backed, UNCHANGED <<storeVars, jira>>, NEW w \in Workers,
         TaskBacked(w)', \A v \in Workers \ {w} : worker'[v] = worker[v]
  PROVE Backed'
  BY Unwritten, TaskStays DEF Backed

\* Steps in which w ends, with a write to its row at most.
LEMMA EndBacked ==
  ASSUME Inv, Backed, NEW w \in Workers, End(w),
         UNCHANGED <<attempts, latest, published, jira>>,
         \A d \in Drafts :
           /\ draft'[d].template = draft[d].template \/ AllClosed(d)
           /\ draft'[d].state \in PublishedStates =>
                draft[d].state \in PublishedStates \/ published[d] # NoKey
  PROVE Backed'
<1>1. Grows
  BY DEF Grows
<1>2. \A d \in Drafts : RowBacked(d)'
  BY RowStays DEF Backed
<1> QED
  BY <1>1, <1>2, TaskStays, IdleBacked DEF Backed

-----------------------------------------------------------------------------

LEMMA BackedInit == Init => Backed
  BY DEF Init, EmptyStore, Backed, RowBacked, TaskBacked, Idle, AttemptNumbers,
         PublishedStates, Absent

LEMMA BeginBacked ==
  ASSUME Inv, Backed, NEW w \in Workers, NEW d \in Drafts, Begin(w, d)
  PROVE Backed'
<1>1. UNCHANGED <<storeVars, jira>>
  BY DEF Begin, EditRead, CancelRead, SubmitRead, RecoverRead, ReconcileRead,
         AllowRetryRead, external
<1>2. PICK op \in AllOperations, pc \in {"save", "cancel", "cas", "latest"} :
        Start(w, op, pc, d)
  BY DEF Begin, EditRead, CancelRead, SubmitRead, RecoverRead, ReconcileRead,
         AllowRetryRead, AllOperations
<1>3. Fresh(w, op, pc, d) /\ Others(Workers \ {w})
  BY <1>2, StartFresh
<1>4. TaskBacked(w)'
  BY <1>1, <1>3 DEF TaskBacked, Fresh, storeVars
<1> QED
  BY <1>1, <1>3, <1>4, ReadBacked DEF Others

\* Steps inside a call that only read.
LEMMA LearnBacked ==
  ASSUME Inv, Backed, NEW w \in Workers,
         \/ NewAttempt(w) \/ Dispatch(w) \/ ReceiveCreated(w)
         \/ ReceiveRejection(w) \/ ReceiveContractError(w) \/ ReceiveNothing(w)
         \/ RecoverLatest(w) \/ ReconcileLatest(w) \/ ReconcileQuery(w)
         \/ AllowRetryLatest(w)
  PROVE Backed'
<1> DEFINE t == worker[w]
<1>1. UNCHANGED <<storeVars, jira>>
  BY DEF NewAttempt, Dispatch, ReceiveCreated, ReceiveRejection,
         ReceiveContractError, ReceiveNothing, RecoverLatest, ReconcileLatest,
         ReconcileQuery, AllowRetryLatest, external
<1>2. worker \in [Workers -> Task] /\ t \in Task /\ TaskShape(w) /\ TaskBacked(w)
  BY DEF Inv, TypeOK, TaskOK, Backed
<1>3. CASE NewAttempt(w) \/ Dispatch(w)
  <2>1. /\ \A v \in Workers \ {w} : worker'[v] = worker[v]
        /\ worker'[w].op = "submit" /\ worker'[w].pc \in {"claim", "await"}
    BY <1>2, <1>3 DEF NewAttempt, Dispatch, Step, At, Task
  <2> QED
    BY <1>1, <2>1, ReadBacked DEF TaskBacked
<1>4. CASE ReceiveCreated(w)
  <2>1. PICK k \in IssueKeys :
          /\ jira[k] # NoIssue /\ jira[k].draft = t.d /\ jira[k].number = t.num
          /\ Outcome(w, "success", k)
    BY <1>4 DEF ReceiveCreated
  <2>2. jira[k].hash = attempts[t.d][t.num].hash
    BY <2>1 DEF Inv, IssueOK
  <2>3. /\ \A v \in Workers \ {w} : worker'[v] = worker[v]
        /\ worker'[w].op = "submit" /\ worker'[w].pc = "settle"
        /\ worker'[w].key = k /\ worker'[w].d = t.d /\ worker'[w].num = t.num
    BY <1>2, <1>4, <2>1 DEF ReceiveCreated, At, Outcome, Task
  <2>4. k # NoKey
    BY StoreAssumption
  <2>5. TaskBacked(w)'
    BY <1>1, <2>1, <2>2, <2>3, <2>4 DEF TaskBacked, storeVars
  <2> QED
    BY <1>1, <2>3, <2>5, ReadBacked
<1>5. CASE ReceiveRejection(w) \/ ReceiveContractError(w) \/ ReceiveNothing(w)
  <2>1. /\ \A v \in Workers \ {w} : worker'[v] = worker[v]
        /\ worker'[w].op = "submit" /\ worker'[w].pc = "settle"
        /\ worker'[w].res # "success"
    BY <1>2, <1>5 DEF ReceiveRejection, ReceiveContractError, ReceiveNothing, At,
                      Outcome, Task
  <2> QED
    BY <1>1, <2>1, ReadBacked DEF TaskBacked
<1>6. CASE RecoverLatest(w)
  <2>1. At(w, "recover", "latest")
    BY <1>6 DEF RecoverLatest
  <2>2. CASE End(w)
    BY <1>1, <2>2, IdleBacked, ReadBacked
  <2>3. CASE ~End(w)
    <3>1. /\ \A v \in Workers \ {w} : worker'[v] = worker[v]
          /\ worker'[w].op = "recover" /\ worker'[w].pc \in {"settle", "finish"}
          /\ worker'[w].d = t.d /\ worker'[w].key = t.key
          /\ worker'[w].res = "success" => t.key # NoKey
      BY <1>2, <1>6, <2>1, <2>3 DEF RecoverLatest, At, Task
    <3>2. t.key # NoKey => published[t.d] # NoKey
      BY <1>2, <2>1 DEF TaskBacked, At
    <3>3. TaskBacked(w)'
      BY <1>1, <3>1, <3>2 DEF TaskBacked, storeVars
    <3> QED
      BY <1>1, <3>1, <3>3, ReadBacked
  <2> QED
    BY <2>2, <2>3
<1>7. CASE ReconcileLatest(w) \/ AllowRetryLatest(w)
  <2>1. CASE End(w)
    BY <1>1, <2>1, IdleBacked, ReadBacked
  <2>2. CASE ~End(w)
    <3>1. /\ \A v \in Workers \ {w} : worker'[v] = worker[v]
          /\ \/ worker'[w].op = "reconcile" /\ worker'[w].pc = "query"
             \/ worker'[w].op = "allow_retry" /\ worker'[w].pc = "settle"
      BY <1>2, <1>7, <2>2 DEF ReconcileLatest, AllowRetryLatest, HoldUnknown, At, Task
    <3> QED
      BY <1>1, <3>1, ReadBacked DEF TaskBacked
  <2> QED
    BY <2>1, <2>2
<1>8. CASE ReconcileQuery(w)
  <2>1. CASE End(w)
    BY <1>1, <2>1, IdleBacked, ReadBacked
  <2>2. CASE ~End(w)
    <3>1. PICK k \in IssueKeys :
            /\ jira[k] # NoIssue /\ jira[k].hash = attempts[t.d][t.num].hash
            /\ Outcome(w, "success", k)
      BY <1>8, <2>2 DEF ReconcileQuery
    <3>2. /\ \A v \in Workers \ {w} : worker'[v] = worker[v]
          /\ worker'[w].op = "reconcile" /\ worker'[w].pc = "settle"
          /\ worker'[w].key = k /\ worker'[w].d = t.d /\ worker'[w].num = t.num
      BY <1>2, <1>8, <3>1 DEF ReconcileQuery, At, Outcome, Task
    <3>3. k # NoKey
      BY StoreAssumption
    <3>4. TaskBacked(w)'
      BY <1>1, <3>1, <3>2, <3>3 DEF TaskBacked, storeVars
    <3> QED
      BY <1>1, <3>2, <3>4, ReadBacked
  <2> QED
    BY <2>1, <2>2
<1> QED
  BY <1>3, <1>4, <1>5, <1>6, <1>7, <1>8

LEMMA ClaimBacked ==
  ASSUME Inv, Backed, NEW w \in Workers, SubmitClaim(w)
  PROVE Backed'
<1> DEFINE t == worker[w]
<1>1. /\ TypeOK /\ t \in Task /\ t.op = "submit" /\ t.pc = "claim" /\ t.d \in Drafts
      /\ t.num = latest[t.d] + 1 /\ t.tpl = draft[t.d].template
      /\ t.num \in AttemptNumbers /\ attempts[t.d][t.num].status = "none"
  BY DEF Inv, TypeOK, TaskOK, TaskShape, HoldsLock, SubmitClaim, At, ClaimAccepted
<1>2. UNCHANGED <<draft, published, jira>>
  BY DEF SubmitClaim, external
<1>3. /\ attempts'[t.d][t.num] = [status |-> "pending", hash |-> t.tpl]
      /\ \A d \in Drafts, n \in AttemptNumbers :
           d # t.d \/ n # t.num => attempts'[d][n] = attempts[d][n]
      /\ latest'[t.d] = t.num
      /\ \A d \in Drafts : d # t.d => latest'[d] = latest[d]
  BY <1>1 DEF SubmitClaim, ClaimAttempt, TypeOK, StoreTypeOK
<1>4. \A d \in Drafts : latest[d] \in Nat
  BY <1>1 DEF TypeOK, StoreTypeOK
<1>5. Grows
  BY <1>1, <1>2, <1>3, <1>4 DEF Grows
<1>6. ASSUME NEW d \in Drafts PROVE RowBacked(d)'
  <2>1. \A n \in AttemptNumbers : n \in Nat
    BY DEF AttemptNumbers
  <2> QED
    BY <1>1, <1>2, <1>3, <1>4, <2>1 DEF Backed, RowBacked
<1>7. /\ \A v \in Workers \ {w} : worker'[v] = worker[v]
      /\ worker'[w].op = "submit" /\ worker'[w].pc = "dispatch"
  BY <1>1 DEF SubmitClaim, Step, TypeOK, Task
<1>8. TaskBacked(w)'
  BY <1>7 DEF TaskBacked
<1> QED
  BY <1>5, <1>6, <1>7, <1>8, TaskStays DEF Backed

LEMMA SettleBacked ==
  ASSUME Inv, Backed, NEW w \in Workers, Settle(w)
  PROVE Backed'
<1> DEFINE t == worker[w]
<1>1. /\ TypeOK /\ t \in Task /\ t.pc = "settle" /\ t.d \in Drafts
      /\ t.num \in AttemptNumbers /\ TaskShape(w) /\ TaskBacked(w)
  BY TaskFacts DEF Inv, TypeOK, TaskOK, Settle, Backed
<1>2. UNCHANGED <<draft, latest, published, jira>>
  BY DEF Settle, external
<1>3. CASE ~UpdateAccepted(t.d, t.num, t.res)
  BY <1>2, <1>3, IdleBacked, ReadBacked DEF Settle, storeVars
<1>4. CASE UpdateAccepted(t.d, t.num, t.res)
  <2>1. /\ UpdateAttempt(t.d, t.num, t.res)
        /\ Step(w, IF t.res = "success" /\ t.op # "recover"
                     THEN "publish" ELSE "finish")
    BY <1>4 DEF Settle
  <2>2. /\ attempts'[t.d][t.num].status = t.res
        /\ attempts'[t.d][t.num].hash = attempts[t.d][t.num].hash
        /\ \A d \in Drafts, n \in AttemptNumbers :
             d # t.d \/ n # t.num => attempts'[d][n] = attempts[d][n]
    BY <1>1, <2>1 DEF UpdateAttempt, TypeOK, StoreTypeOK
  <2>3. /\ attempts[t.d][t.num].status \in {"failed", "success", "none"} =>
             t.res = attempts[t.d][t.num].status
    BY <1>4 DEF UpdateAccepted, AttemptTransitions
  <2>4. Grows
    BY <1>2, <2>2, <2>3 DEF Grows
  <2>5. ASSUME NEW d \in Drafts PROVE RowBacked(d)'
    <3>1. RowBacked(d) /\ RowOK(d)
      BY DEF Backed, Inv
    <3>2. ASSUME published[d] # NoKey, NEW n \in AttemptNumbers,
                 attempts'[d][n].status = "success"
          PROVE attempts[d][n].status = "success"
      <4>1. PICK m \in AttemptNumbers : attempts[d][m].status = "success"
        BY <3>1, <3>2 DEF RowOK, Succeeded
      <4>2. m = latest[d]
        BY <4>1, OnlyLatest
      <4>3. attempts[d][n].status \notin {"none", "failed"}
        BY <1>1, <2>2, <2>3, <3>2
      <4> QED
        BY <4>1, <4>2, <4>3, OnlyLatest
    <3>3. \A n \in AttemptNumbers :
            /\ attempts'[d][n].hash = attempts[d][n].hash
            /\ attempts[d][n].status = "failed" => attempts'[d][n].status = "failed"
      BY <2>2, <2>3
    <3> QED
      BY <1>2, <3>1, <3>2, <3>3 DEF RowBacked
  <2>6. PICK pc \in {"publish", "finish"} :
          /\ \A v \in Workers \ {w} : worker'[v] = worker[v]
          /\ worker'[w].op = t.op /\ worker'[w].pc = pc
          /\ worker'[w].d = t.d /\ worker'[w].num = t.num
          /\ worker'[w].res = t.res /\ worker'[w].key = t.key
          /\ pc = "publish" <=> t.res = "success" /\ t.op # "recover"
    BY <1>1, <2>1 DEF Step, TypeOK, Task
  <2>7. TaskBacked(w)'
    <3>1. t.key # NoKey => t.key \in IssueKeys
      BY <1>1 DEF Task
    <3> QED
      BY <1>1, <1>2, <2>2, <2>6, <3>1 DEF TaskBacked
  <2> QED
    BY <2>4, <2>5, <2>6, <2>7, TaskStays DEF Backed
<1> QED
  BY <1>3, <1>4

\* What publish stores is an issue with the content of the latest attempt.
LEMMA PublishStores ==
  ASSUME Inv, Backed, NEW w \in Workers, Publish(w),
         PublishAccepted(worker[w].d, worker[w].key)
  PROVE LET t == worker[w]
        IN  /\ t.d \in Drafts /\ t.key \in IssueKeys /\ t.key # NoKey
            /\ t.num \in AttemptNumbers
            /\ attempts[t.d][t.num].status = "success"
            /\ jira[t.key] # NoIssue
            /\ jira[t.key].hash = attempts[t.d][t.num].hash
            /\ published'[t.d] = t.key
            /\ \A d \in Drafts : d # t.d => published'[d] = published[d]
<1> DEFINE t == worker[w]
<1>1. /\ TypeOK /\ t \in Task /\ t.pc = "publish" /\ t.d \in Drafts
      /\ t.res = "success" /\ TaskShape(w) /\ TaskBacked(w)
  BY DEF Inv, TypeOK, TaskOK, TaskShape, Publish, Backed
<1>2. t.op \in {"submit", "reconcile"}
  BY <1>1 DEF TaskShape, RunsStep
<1>3. t.num \in AttemptNumbers
  BY <1>1, TaskFacts DEF Sending
<1>4. StorePublishedIssue(t.d, t.key)
  BY DEF Publish
<1> QED
  BY <1>1, <1>2, <1>3, <1>4 DEF TaskBacked, Task, StorePublishedIssue, TypeOK,
                                StoreTypeOK

LEMMA PublishBacked ==
  ASSUME Inv, Backed, NEW w \in Workers, Publish(w)
  PROVE Backed'
<1> DEFINE t == worker[w]
<1>1. UNCHANGED <<draft, attempts, latest, jira>>
  BY DEF Publish, external
<1>2. CASE ~PublishAccepted(t.d, t.key)
  BY <1>1, <1>2, IdleBacked, ReadBacked DEF Publish, storeVars
<1>3. CASE PublishAccepted(t.d, t.key)
  <2>1. /\ t.d \in Drafts /\ t.key \in IssueKeys /\ t.key # NoKey
        /\ t.num \in AttemptNumbers
        /\ attempts[t.d][t.num].status = "success"
        /\ jira[t.key] # NoIssue
        /\ jira[t.key].hash = attempts[t.d][t.num].hash
        /\ published'[t.d] = t.key
        /\ \A d \in Drafts : d # t.d => published'[d] = published[d]
    BY <1>3, PublishStores
  <2>2. Grows
    BY <1>1, <2>1 DEF Grows
  <2>3. ASSUME NEW d \in Drafts PROVE RowBacked(d)'
    <3>1. RowBacked(d)
      BY DEF Backed
    <3>2. CASE d # t.d
      BY <1>1, <2>1, <3>1, <3>2 DEF RowBacked
    <3>3. CASE d = t.d
      <4>1. ASSUME NEW n \in AttemptNumbers, attempts[d][n].status = "success"
            PROVE n = t.num
        BY <2>1, <3>3, <4>1, OnlyLatest
      <4> QED
        BY <1>1, <2>1, <3>1, <3>3, <4>1 DEF RowBacked
    <3> QED
      BY <3>2, <3>3
  <2>4. /\ \A v \in Workers \ {w} : worker'[v] = worker[v]
        /\ worker'[w].pc = "finish" /\ worker'[w].d = t.d
        /\ worker'[w].op = t.op
    BY <1>3 DEF Inv, TypeOK, Publish, Step, Task
  <2>5. t.op # "recover"
    BY DEF Inv, TaskOK, TaskShape, RunsStep, Publish
  <2>6. TaskBacked(w)'
    BY <2>1, <2>4, <2>5 DEF TaskBacked
  <2> QED
    BY <2>2, <2>3, <2>4, <2>6, TaskStays DEF Backed
<1> QED
  BY <1>2, <1>3

\* The tasks that write their row and end.
LEMMA WriteBacked ==
  ASSUME Inv, Backed, NEW w \in Workers, EditSave(w) \/ CancelDraft(w) \/ Finish(w)
  PROVE Backed'
<1> DEFINE t == worker[w]
<1>1. UNCHANGED <<attempts, latest, published, jira>> /\ End(w)
  BY DEF EditSave, CancelDraft, Finish, external
<1>2. /\ TypeOK /\ t.pc # "idle" /\ t \in Task /\ t.d \in Drafts
      /\ RowOK(t.d) /\ TaskBacked(w)
  BY TaskFacts DEF Inv, EditSave, CancelDraft, Finish, At, Backed
<1>3. ASSUME NEW d \in Drafts
      PROVE /\ draft'[d].template = draft[d].template \/ AllClosed(d)
            /\ draft'[d].state \in PublishedStates =>
                 draft[d].state \in PublishedStates \/ published[d] # NoKey
  <2>1. CASE draft' = draft
    BY <2>1
  <2>2. CASE EditSave(w) /\ draft' # draft
    <3>1. /\ SaveAccepted(t.d, t.rev, "REVIEW")
          /\ \E new \in Templates : SaveRow(t.d, "REVIEW", new)
      BY <2>2 DEF EditSave
    <3>2. draft[t.d].state = "REVIEW"
      BY <1>2, <3>1, FsmFacts DEF SaveAccepted, RowOK
    <3>3. AllClosed(t.d)
      BY <1>2, <3>2 DEF RowOK, OpenStates
    <3>4. draft'[t.d].state = "REVIEW" /\ (d # t.d => draft'[d] = draft[d])
      BY <1>2, <3>1 DEF SaveRow, TypeOK, StoreTypeOK
    <3> QED
      BY <3>3, <3>4 DEF PublishedStates
  <2>3. CASE CancelDraft(w) /\ draft' # draft
    <3>1. CompareAndSwap(t.d, "CANCELLED")
      BY <2>3 DEF CancelDraft
    <3> QED
      BY <1>2, <3>1, CasMoves DEF PublishedStates
  <2>4. CASE Finish(w) /\ draft' # draft
    <3>1. t.pc = "finish" /\ CompareAndSwap(t.d, Target(t.res))
      BY <2>4 DEF Finish
    <3>2. Target(t.res) \in PublishedStates => t.res = "success"
      BY <1>2, TargetFacts DEF Task, Results, PublishedStates
    <3>3. t.res = "success" => published[t.d] # NoKey
      BY <1>2, <3>1 DEF TaskBacked
    <3>4. /\ draft'[t.d].state = Target(t.res)
          /\ draft'[t.d].template = draft[t.d].template
          /\ d # t.d => draft'[d] = draft[d]
      BY <1>2, <3>1, CasMoves
    <3> QED
      BY <3>2, <3>3, <3>4
  <2> QED
    BY <2>1, <2>2, <2>3, <2>4
<1> QED
  BY <1>1, <1>3, EndBacked

LEMMA SubmitCasBacked ==
  ASSUME Inv, Backed, NEW w \in Workers, SubmitCas(w)
  PROVE Backed'
<1> DEFINE t == worker[w]
<1>1. UNCHANGED <<attempts, latest, published, jira>>
  BY DEF SubmitCas, external
<1>2. TypeOK /\ t \in Task /\ t.pc # "idle" /\ t.d \in Drafts
  BY TaskFacts DEF Inv, SubmitCas, At
<1>3. CASE ~CasAccepted(t.d, t.rev, "SUBMITTING")
  BY <1>1, <1>3, IdleBacked, ReadBacked DEF SubmitCas, storeVars
<1>4. CASE CasAccepted(t.d, t.rev, "SUBMITTING")
  <2>1. CompareAndSwap(t.d, "SUBMITTING")
    BY <1>4 DEF SubmitCas
  <2>2. ASSUME NEW d \in Drafts
        PROVE draft'[d].template = draft[d].template
              /\ (draft'[d].state \in PublishedStates =>
                   draft[d].state \in PublishedStates)
    BY <1>2, <2>1, CasMoves DEF PublishedStates
  <2>3. \A d \in Drafts : RowBacked(d)'
    BY <1>1, <2>2, RowStays DEF Backed
  <2>4. /\ \A v \in Workers \ {w} : worker'[v] = worker[v]
        /\ worker'[w].op = "submit" /\ worker'[w].pc = "latest"
    BY <1>2, <1>4 DEF SubmitCas, At, TypeOK, Task
  <2>5. Grows /\ TaskBacked(w)'
    BY <1>1, <2>4 DEF Grows, TaskBacked
  <2> QED
    BY <2>3, <2>4, <2>5, TaskStays DEF Backed
<1> QED
  BY <1>3, <1>4

LEMMA CreateBacked ==
  ASSUME Inv, Backed, NEW d \in Drafts, CreateManualDraft(d)
  PROVE Backed'
<1>1. UNCHANGED <<attempts, latest, published, worker, jira>>
  BY DEF CreateManualDraft, external
<1>2. /\ draft[d].state = Absent /\ draft'[d].state = "REVIEW"
      /\ \A e \in Drafts : e # d => draft'[e] = draft[e]
  BY DEF CreateManualDraft, InsertRow, Inv, TypeOK, StoreTypeOK
<1>3. AllClosed(d)
  BY <1>2 DEF Inv, RowOK, OpenStates
<1>4. \A e \in Drafts : RowBacked(e)'
  BY <1>1, <1>2, <1>3, RowStays DEF Backed, PublishedStates
<1>5. Grows
  BY <1>1 DEF Grows
<1> QED
  BY <1>1, <1>4, <1>5, TaskStays DEF Backed

LEMMA JiraBacked ==
  ASSUME Inv, Backed, NEW d \in Drafts, NEW n \in AttemptNumbers, JiraStep(d, n)
  PROVE Backed'
<1>1. UNCHANGED <<storeVars, worker>>
  BY DEF JiraStep, JiraRefuses, JiraCreates
<1>2. \A k \in IssueKeys : jira[k] # NoIssue => jira'[k] = jira[k]
  BY DEF JiraStep, JiraRefuses, JiraCreates, Inv, TypeOK
<1>3. Grows
  BY <1>1, <1>2 DEF Grows, storeVars
<1>4. ASSUME NEW e \in Drafts PROVE RowBacked(e)'
  <2>1. published[e] # NoKey => published[e] \in IssueKeys
    BY DEF Inv, TypeOK, StoreTypeOK
  <2> QED
    BY <1>1, <1>2, <2>1 DEF Backed, RowBacked, storeVars
<1> QED
  BY <1>1, <1>3, <1>4, TaskStays DEF Backed

LEMMA BackedStep == Inv /\ Backed /\ [Next]_vars => Backed'
<1> SUFFICES ASSUME Inv, Backed, [Next]_vars PROVE Backed'
  OBVIOUS
<1>1. ASSUME NEW d \in Drafts, CreateManualDraft(d) PROVE Backed'
  BY <1>1, CreateBacked
<1>2. ASSUME NEW w \in Workers, NEW d \in Drafts, Begin(w, d) PROVE Backed'
  BY <1>2, BeginBacked
<1>3. ASSUME NEW w \in Workers, Abort(w) PROVE Backed'
  BY <1>3, IdleBacked, ReadBacked DEF Abort, external
<1>4. ASSUME NEW w \in Workers, Proceed(w) PROVE Backed'
  BY <1>4, WriteBacked, SubmitCasBacked, LearnBacked, ClaimBacked, SettleBacked,
     PublishBacked DEF Proceed
<1>5. ASSUME NEW d \in Drafts, NEW n \in AttemptNumbers, JiraStep(d, n) PROVE Backed'
  BY <1>5, JiraBacked
<1>6. CASE UNCHANGED vars
  BY <1>6 DEF vars, storeVars, Backed, RowBacked, TaskBacked
<1> QED
  BY <1>1, <1>2, <1>3, <1>4, <1>5, <1>6 DEF Next

-----------------------------------------------------------------------------
(* What follows from Backed.                                               *)

LEMMA BackedInvariance == Spec => []Backed
  BY BackedInit, BackedStep, Invariance, PTL DEF Spec

\* Whatever Jira answers and whichever calls race or die: a created draft names
\* an issue at Jira that has the draft's content.
THEOREM CreatedIsBackedHolds == Spec => []CreatedIsBacked
<1>1. Inv /\ Backed => CreatedIsBacked
  <2> SUFFICES ASSUME Inv, Backed, NEW d \in Drafts, draft[d].state \in PublishedStates
               PROVE /\ published[d] # NoKey
                     /\ jira[published[d]] # NoIssue
                     /\ jira[published[d]].hash = draft[d].template
                     /\ LatestStatus(d) = "success"
    BY DEF CreatedIsBacked
  <2>1. RowBacked(d) /\ RowOK(d) /\ published[d] # NoKey
    BY DEF Backed, RowBacked, Inv
  <2>2. PICK n \in AttemptNumbers : attempts[d][n].status = "success"
    BY <2>1 DEF RowOK, Succeeded
  <2>3. n = latest[d] /\ n \in Nat \ {0}
    BY <2>2, OnlyLatest DEF AttemptNumbers
  <2> QED
    BY <2>1, <2>2, <2>3 DEF RowBacked, LatestStatus
<1> QED
  BY <1>1, Invariance, BackedInvariance, PTL

\* When answers and reviews can be trusted, the issue a draft names is not
\* replaced by another of its own, whichever of the calls that store it
\* comes last.
THEOREM PublishedIsStableHolds ==
  ~MalformedReplies /\ TrustworthyReview /\ Spec => PublishedIsStable
<1> DEFINE Stable == \A d \in Drafts :
             published[d] # NoKey /\ published'[d] # published[d] =>
               /\ published'[d] # NoKey
               /\ \E k \in {published[d], published'[d]} : jira'[k].draft # d
<1>1. ASSUME Trusted, Inv, Backed, [Next]_vars PROVE [Stable]_vars
  <2>1. ASSUME NEW w \in Workers, Publish(w) PROVE Stable
    <3> DEFINE t == worker[w]
    <3>1. UNCHANGED jira
      BY <2>1 DEF Publish, external
    <3>2. CASE ~PublishAccepted(t.d, t.key)
      BY <2>1, <3>2 DEF Publish
    <3>3. CASE PublishAccepted(t.d, t.key)
      <4>1. /\ t.d \in Drafts /\ t.key \in IssueKeys /\ t.key # NoKey
            /\ jira[t.key] # NoIssue
            /\ published'[t.d] = t.key
            /\ \A d \in Drafts : d # t.d => published'[d] = published[d]
        BY <1>1, <2>1, <3>3, PublishStores
      <4>2. published[t.d] # NoKey =>
              published[t.d] \in IssueKeys /\ jira[published[t.d]] # NoIssue
        BY <1>1, <4>1 DEF Inv, TypeOK, StoreTypeOK, Backed, RowBacked
      <4>3. AtMostOneIssue
        BY <1>1, OneIssue
      <4> QED
        BY <3>1, <4>1, <4>2, <4>3 DEF AtMostOneIssue
    <3> QED
      BY <3>2, <3>3
  <2>2. CASE UNCHANGED published
    BY <2>2
  <2>3. \/ UNCHANGED published
        \/ \E w \in Workers : Publish(w)
    BY <1>1 DEF Next, vars, storeVars, CreateManualDraft, Begin, EditRead,
       CancelRead, SubmitRead, RecoverRead, ReconcileRead, AllowRetryRead, Abort,
       Proceed, EditSave, CancelDraft, SubmitCas, NewAttempt, SubmitClaim, Dispatch,
       ReceiveCreated, ReceiveRejection, ReceiveContractError, ReceiveNothing,
       RecoverLatest, ReconcileLatest, ReconcileQuery, AllowRetryLatest, Settle,
       Finish, JiraStep, JiraRefuses, JiraCreates
  <2> QED
    BY <2>1, <2>2, <2>3
<1>2. CASE Trusted
  BY <1>1, <1>2, Invariance, BackedInvariance, PTL DEF Spec, PublishedIsStable
<1>3. CASE ~Trusted
  BY <1>3 DEF Trusted
<1> QED
  BY <1>2, <1>3

-----------------------------------------------------------------------------
(* The refinement of IssuePublication.                                     *)

LEMMA Phases ==
  /\ PhaseOf(Absent) = "open" /\ PhaseOf("REVIEW") = "open"
  /\ PhaseOf("SUBMISSION_RETRYABLE") = "open" /\ PhaseOf("CANCELLED") = "closed"
  /\ PhaseOf("SUBMITTING") = "asking" /\ PhaseOf("SUBMISSION_UNKNOWN") = "unsure"
  /\ PhaseOf("CREATED") = "published"
  BY DEF PhaseOf, PublishedStates, Absent

\* Whether the issue exists, by what the rows and the wire say.
LEMMA Existence ==
  ASSUME Trusted, Inv, Backed, DistinctContent, NEW d \in Drafts
  PROVE /\ draft[d].state \in OpenStates => ~IssueExists(d)
        /\ published[d] # NoKey => IssueExists(d)
        /\ \A n \in AttemptNumbers : wire[d][n] = "inflight" =>
             ~IssueExists(d) /\ draft[d].state \notin OpenStates
<1>0. latest[d] \in Nat /\ RowOK(d) /\ RowBacked(d)
  BY DEF Inv, TypeOK, StoreTypeOK, Backed
<1>1. ASSUME NEW k \in IssueKeys, jira[k] # NoIssue, jira[k].draft = d
      PROVE /\ jira[k].number \in AttemptNumbers /\ jira[k].number <= latest[d]
            /\ wire[d][jira[k].number] = "applied"
  BY <1>1 DEF Inv, TypeOK, Issue, IssueOK
<1>2. draft[d].state \in OpenStates =>
        \A n \in AttemptNumbers : n <= latest[d] => CannotBeCreated(d, n)
  BY <1>0 DEF RowOK, AllClosed, Closed
<1>3. draft[d].state \in OpenStates => ~IssueExists(d)
  BY <1>1, <1>2 DEF IssueExists, CannotBeCreated
<1>4. ASSUME published[d] # NoKey PROVE IssueExists(d)
  <2>1. PICK n \in AttemptNumbers : attempts[d][n].status = "success"
    BY <1>0, <1>4 DEF RowOK, Succeeded
  <2>2. published[d] \in IssueKeys /\ jira[published[d]] # NoIssue
        /\ jira[published[d]].hash = attempts[d][n].hash
    BY <1>0, <1>4, <2>1 DEF RowBacked, Inv, TypeOK, StoreTypeOK
  <2> QED
    BY <2>1, <2>2 DEF DistinctContent, IssueExists
<1>5. ASSUME NEW n \in AttemptNumbers, wire[d][n] = "inflight"
      PROVE ~IssueExists(d) /\ draft[d].state \notin OpenStates
  <2>1. AttemptOK(d, n) /\ n \in Nat
    BY DEF Inv, AttemptNumbers
  <2>2. ~CannotBeCreated(d, n) /\ n = latest[d]
    BY <1>0, <1>5, <2>1 DEF AttemptOK, Closed, CannotBeCreated
  <2>3. ASSUME NEW k \in IssueKeys, jira[k] # NoIssue, jira[k].draft = d PROVE FALSE
    <3> DEFINE m == jira[k].number
    <3>1. m \in AttemptNumbers /\ m \in Nat /\ m <= latest[d] /\ wire[d][m] = "applied"
      BY <1>1, <2>3 DEF AttemptNumbers
    <3>2. m < latest[d] => CannotBeCreated(d, m)
      BY <3>1 DEF Inv, AttemptOK, Closed
    <3> QED
      BY <1>0, <1>5, <2>2, <3>1, <3>2 DEF CannotBeCreated
  <2> QED
    BY <1>2, <2>1, <2>2, <2>3, <1>0 DEF IssueExists
<1> QED
  BY <1>3, <1>4, <1>5

Abstract == <<[d \in Drafts |-> PhaseOf(draft[d].state)],
              [d \in Drafts |-> IssueExists(d)]>>

LEMMA StutterMaps ==
  ASSUME UNCHANGED jira, \A d \in Drafts : PhaseOf(draft'[d].state) = PhaseOf(draft[d].state)
  PROVE UNCHANGED Abstract
  BY DEF Abstract, IssueExists

\* A move of the row of d is a move of its phase.
LEMMA MoveMaps ==
  ASSUME UNCHANGED jira, NEW d \in Drafts,
         \A e \in Drafts : e # d => draft'[e] = draft[e],
         NEW from, NEW to, PhaseOf(draft[d].state) \in from,
         PhaseOf(draft'[d].state) = to
  PROVE Publication!Move(d, from, to)
  BY DEF Publication!Move, IssueExists

\* One lemma per action that moves a row or Jira.
LEMMA CancelMaps ==
  ASSUME Trusted, Inv, Backed, DistinctContent, NEW w \in Workers, CancelDraft(w)
  PROVE [Publication!Next]_Abstract
<1> DEFINE d == worker[w].d
<1>1. /\ UNCHANGED jira /\ d \in Drafts /\ RowOK(d) /\ TypeOK
  BY TaskFacts DEF CancelDraft, At, external, Inv
<1>2. CASE draft' = draft
  BY <1>1, <1>2, StutterMaps
<1>3. CASE draft' # draft
  <2>1. CompareAndSwap(d, "CANCELLED") /\ CasAccepted(d, worker[w].rev, "CANCELLED")
    BY <1>3 DEF CancelDraft
  <2>2. draft[d].state \in {"REVIEW", "SUBMISSION_RETRYABLE"}
    BY <1>1, <2>1, FsmFacts DEF CasAccepted, RowOK
  <2>3. draft'[d].state = "CANCELLED" /\ \A e \in Drafts : e # d => draft'[e] = draft[e]
    BY <1>1, <2>1, CasMoves
  <2>4. Publication!Move(d, {"open"}, "closed")
    BY <1>1, <2>2, <2>3, Phases, MoveMaps
  <2>5. ~IssueExists(d)
    BY <1>1, <2>2, Existence DEF OpenStates
  <2>6. Publication!Withdraw(d)
    BY <1>1, <2>4, <2>5 DEF Publication!Withdraw
  <2> QED
    BY <1>1, <2>6 DEF Publication!Next
<1> QED
  BY <1>2, <1>3

LEMMA SubmitCasMaps ==
  ASSUME Trusted, Inv, Backed, DistinctContent, NEW w \in Workers, SubmitCas(w)
  PROVE [Publication!Next]_Abstract
<1> DEFINE d == worker[w].d
<1>1. /\ UNCHANGED jira /\ d \in Drafts /\ RowOK(d) /\ TypeOK
  BY TaskFacts DEF SubmitCas, At, external, Inv
<1>2. CASE draft' = draft
  BY <1>1, <1>2, StutterMaps
<1>3. CASE draft' # draft
  <2>1. CompareAndSwap(d, "SUBMITTING") /\ CasAccepted(d, worker[w].rev, "SUBMITTING")
    BY <1>3 DEF SubmitCas
  <2>2. draft[d].state \in {"REVIEW", "SUBMISSION_RETRYABLE"}
    BY <2>1, FsmFacts DEF CasAccepted
  <2>3. draft'[d].state = "SUBMITTING" /\ \A e \in Drafts : e # d => draft'[e] = draft[e]
    BY <1>1, <2>1, CasMoves
  <2>4. Publication!Move(d, {"open"}, "asking")
    BY <1>1, <2>2, <2>3, Phases, MoveMaps
  <2>5. ~IssueExists(d)
    BY <1>1, <2>2, Existence DEF OpenStates
  <2>6. Publication!Ask(d)
    BY <1>1, <2>4, <2>5 DEF Publication!Ask
  <2> QED
    BY <1>1, <2>6 DEF Publication!Next
<1> QED
  BY <1>2, <1>3

LEMMA FinishMaps ==
  ASSUME Trusted, Inv, Inv', Backed, DistinctContent, NEW w \in Workers, Finish(w)
  PROVE [Publication!Next]_Abstract
<1> DEFINE t == worker[w]
           d == worker[w].d
<1>1. /\ UNCHANGED jira /\ d \in Drafts /\ RowOK(d) /\ TypeOK
      /\ t.pc = "finish" /\ t.res \in Results /\ TaskBacked(w)
  BY TaskFacts DEF Finish, external, Inv, Backed, Task
<1>2. CASE draft' = draft
  BY <1>1, <1>2, StutterMaps
<1>3. CASE draft' # draft
  <2>1. CompareAndSwap(d, Target(t.res)) /\ CasAccepted(d, t.rev, Target(t.res))
    BY <1>3 DEF Finish
  <2>2. /\ draft'[d].state = Target(t.res)
        /\ \A e \in Drafts : e # d => draft'[e] = draft[e]
    BY <1>1, <2>1, CasMoves
  <2>3. CASE t.res = "success"
    <3>1. Publication!Move(d, {"asking", "unsure"}, "published")
      BY <1>1, <2>1, <2>2, <2>3, FsmFacts, TargetFacts, Phases, MoveMaps DEF CasAccepted
    <3>2. IssueExists(d)
      BY <1>1, <2>3, Existence DEF TaskBacked
    <3>3. Publication!Confirm(d)
      BY <1>1, <3>1, <3>2 DEF Publication!Confirm
    <3> QED
      BY <1>1, <3>3 DEF Publication!Next
  <2>4. CASE t.res = "failed"
    <3>1. Publication!Move(d, {"asking", "unsure"}, "open")
      BY <1>1, <2>1, <2>2, <2>4, FsmFacts, TargetFacts, Phases, MoveMaps DEF CasAccepted
    <3>2. Current(w)
      BY <2>1 DEF CasAccepted, Current
    <3>3. AllClosed(d)
      BY <1>1, <2>4, <3>2, FailedIsClosed
    <3>4. ~IssueExists(d)
      BY <1>1, <3>3 DEF IssueExists, AllClosed, Closed, CannotBeCreated, Inv, IssueOK,
                        TypeOK, Issue
    <3>5. Publication!GiveBack(d)
      BY <1>1, <3>1, <3>4 DEF Publication!GiveBack
    <3> QED
      BY <1>1, <3>5 DEF Publication!Next
  <2>5. CASE t.res \in {"none", "unknown"}
    <3>1. Publication!Move(d, {"asking"}, "unsure")
      BY <1>1, <2>1, <2>2, <2>5, FsmFacts, TargetFacts, Phases, MoveMaps DEF CasAccepted
    <3> QED
      BY <1>1, <3>1 DEF Publication!Next, Publication!Doubt
  <2> QED
    BY <1>1, <2>3, <2>4, <2>5 DEF Results
<1> QED
  BY <1>2, <1>3

LEMMA CreateMaps ==
  ASSUME Inv, NEW d \in Drafts, CreateManualDraft(d)
  PROVE UNCHANGED Abstract
<1>1. /\ draft[d].state = Absent /\ draft'[d].state = "REVIEW"
      /\ \A e \in Drafts : e # d => draft'[e] = draft[e]
  BY DEF CreateManualDraft, InsertRow, Inv, TypeOK, StoreTypeOK
<1> QED
  BY <1>1, Phases, StutterMaps DEF CreateManualDraft, external

LEMMA EditMaps ==
  ASSUME Inv, NEW w \in Workers, EditSave(w)
  PROVE UNCHANGED Abstract
<1> DEFINE t == worker[w]
<1>1. t.d \in Drafts /\ RowOK(t.d) /\ TypeOK /\ UNCHANGED jira
  BY TaskFacts DEF EditSave, At, Inv, external
<1>2. CASE draft' = draft
  BY <1>1, <1>2, StutterMaps
<1>3. CASE draft' # draft
  <2>1. /\ SaveAccepted(t.d, t.rev, "REVIEW")
        /\ \E new \in Templates : SaveRow(t.d, "REVIEW", new)
    BY <1>3 DEF EditSave
  <2>2. draft[t.d].state = "REVIEW"
    BY <1>1, <2>1, FsmFacts DEF SaveAccepted, RowOK
  <2>3. /\ draft'[t.d].state = "REVIEW"
        /\ \A e \in Drafts : e # t.d => draft'[e] = draft[e]
    BY <1>1, <2>1 DEF SaveRow, TypeOK, StoreTypeOK
  <2> QED
    BY <1>1, <2>2, <2>3, StutterMaps
<1> QED
  BY <1>2, <1>3

LEMMA JiraMaps ==
  ASSUME Trusted, Inv, Backed, DistinctContent,
         NEW d \in Drafts, NEW n \in AttemptNumbers, JiraStep(d, n)
  PROVE [Publication!Next]_Abstract
<1>1. UNCHANGED draft /\ wire[d][n] = "inflight"
  BY DEF JiraStep, JiraRefuses, JiraCreates, storeVars
<1>2. CASE JiraRefuses(d, n)
  BY <1>1, <1>2, StutterMaps DEF JiraRefuses
<1>3. ASSUME NEW k \in IssueKeys, JiraCreates(d, n, k) PROVE Publication!Next
  <2>1. /\ jira[k] = NoIssue /\ jira'[k] # NoIssue /\ jira'[k].draft = d
        /\ \A j \in IssueKeys : j # k => jira'[j] = jira[j]
    <3>1. attempts[d][n].hash \in Templates
      <4>1. AttemptOK(d, n) /\ n \in Nat /\ latest[d] \in Nat
        BY DEF Inv, TypeOK, StoreTypeOK, AttemptNumbers
      <4> QED
        BY <1>1, <4>1 DEF AttemptOK
    <3>2. [draft |-> d, number |-> n, hash |-> attempts[d][n].hash] # NoIssue
      BY <3>1, SubmissionAssumption
    <3> QED
      BY <1>3, <3>2 DEF JiraCreates, Inv, TypeOK
  <2>2. /\ IssueExists(d)'
        /\ \A e \in Drafts : e # d => IssueExists(e)' = IssueExists(e)
    BY <2>1 DEF IssueExists
  <2>3. ~IssueExists(d) /\ draft[d].state \notin OpenStates /\ published[d] = NoKey
    BY <1>1, Existence
  <2>4. draft[d].state \in {"SUBMITTING", "SUBMISSION_UNKNOWN"}
    BY <2>3 DEF Inv, RowOK, Reached, OpenStates, Backed, RowBacked, PublishedStates
  <2>5. PhaseOf(draft[d].state) \in {"asking", "unsure"}
    BY <2>4, Phases
  <2>6. Publication!Appear(d)
    BY <1>1, <2>2, <2>3, <2>5 DEF Publication!Appear
  <2> QED
    BY <2>6 DEF Publication!Next
<1> QED
  BY <1>2, <1>3 DEF JiraStep

LEMMA StepMaps ==
  ASSUME Trusted, Inv, Inv', Backed, DistinctContent, [Next]_vars
  PROVE [Publication!Next]_Abstract
<1>1. ASSUME NEW d \in Drafts, CreateManualDraft(d) PROVE [Publication!Next]_Abstract
  BY <1>1, CreateMaps
<1>2. ASSUME NEW w \in Workers,
             \/ EditSave(w) \/ CancelDraft(w) \/ SubmitCas(w) \/ Finish(w)
      PROVE [Publication!Next]_Abstract
  BY <1>2, EditMaps, CancelMaps, SubmitCasMaps, FinishMaps
<1>3. ASSUME NEW d \in Drafts, NEW n \in AttemptNumbers, JiraStep(d, n)
      PROVE [Publication!Next]_Abstract
  BY <1>3, JiraMaps
<1>4. CASE UNCHANGED <<draft, jira>>
  BY <1>4, StutterMaps
<1>5. \/ UNCHANGED <<draft, jira>>
      \/ \E d \in Drafts : CreateManualDraft(d)
      \/ \E w \in Workers :
           EditSave(w) \/ CancelDraft(w) \/ SubmitCas(w) \/ Finish(w)
      \/ \E d \in Drafts, n \in AttemptNumbers : JiraStep(d, n)
  <2>1. ASSUME NEW w \in Workers, Proceed(w)
        PROVE  \/ UNCHANGED <<draft, jira>>
               \/ EditSave(w) \/ CancelDraft(w) \/ SubmitCas(w) \/ Finish(w)
    BY <2>1 DEF Proceed, storeVars, external, NewAttempt, SubmitClaim, Dispatch,
       ReceiveCreated, ReceiveRejection, ReceiveContractError, ReceiveNothing,
       RecoverLatest, ReconcileLatest, ReconcileQuery, AllowRetryLatest, Settle,
       Publish
  <2>2. ASSUME NEW w \in Workers, NEW d \in Drafts, Begin(w, d)
        PROVE  UNCHANGED <<draft, jira>>
    BY <2>2 DEF Begin, storeVars, external, EditRead, CancelRead, SubmitRead,
       RecoverRead, ReconcileRead, AllowRetryRead
  <2>3. ASSUME NEW w \in Workers, Abort(w)
        PROVE  UNCHANGED <<draft, jira>>
    BY <2>3 DEF Abort, storeVars, external
  <2>4. UNCHANGED vars => UNCHANGED <<draft, jira>>
    BY DEF vars, storeVars, external
  <2> QED
    BY <2>1, <2>2, <2>3, <2>4 DEF Next
<1> QED
  BY <1>1, <1>2, <1>3, <1>4, <1>5

LEMMA InitMaps == Init => Publication!Init
  BY Phases DEF Init, EmptyStore, Publication!Init, IssueExists

\* When answers and reviews can be trusted and no two drafts have the same
\* content, the submission of drafts, with all its crashes and races, makes of
\* each draft at most one issue and says of it what is true: it implements
\* IssuePublication.
THEOREM Refinement ==
  ~MalformedReplies /\ TrustworthyReview /\ Spec /\ []DistinctContent
    => ImplementsPublication
<1>1. CASE Trusted
  BY <1>1, InitMaps, StepMaps, Invariance, BackedInvariance, PTL
     DEF Spec, ImplementsPublication, Publication!Spec, Abstract
<1>2. CASE ~Trusted
  BY <1>2 DEF Trusted
<1> QED
  BY <1>1, <1>2

=============================================================================
