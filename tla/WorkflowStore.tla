---------------------------- MODULE WorkflowStore ----------------------------
(***************************************************************************)
(* The durable rows of one SQLite database and the transactions on them    *)
(* (infrastructure/persistence/workflow_sqlite.py).  Each operator is one  *)
(* BEGIN IMMEDIATE transaction: the condition under which it commits and   *)
(* the rows it leaves.  Services run several of them in a row and may be   *)
(* interrupted between any two.                                            *)
(***************************************************************************)
EXTENDS Naturals, DraftFsm

CONSTANTS Drafts,        \* draft ids
          Templates,     \* canonical Jira documents; equal documents have
                         \* equal request hashes
          IssueKeys,     \* keys Jira can give to new issues
          NoTemplate, NoKey,
          MaxAttempts    \* bound on the attempts claimed for one draft

ASSUME StoreAssumption == /\ MaxAttempts \in Nat \ {0}
                          /\ NoTemplate \notin Templates
                          /\ NoKey \notin IssueKeys

VARIABLES draft,      \* the workflows table: state, revision and template
          attempts,   \* the submission_attempts table, by attempt number
          latest,     \* the highest attempt number of each draft, 0 for none
          published   \* the published_issues table: the key stored, if any

storeVars == <<draft, attempts, latest, published>>

Absent == "absent"
AttemptNumbers == 1 .. MaxAttempts
AttemptStatus == {"pending", "success", "failed", "unknown"}
NoAttempt == [status |-> "none", hash |-> NoTemplate]

Row == [state : DraftState \cup {Absent}, revision : Nat,
        template : Templates \cup {NoTemplate}]
Attempt == [status : AttemptStatus \cup {"none"},
            hash : Templates \cup {NoTemplate}]

StoreTypeOK ==
  /\ draft \in [Drafts -> Row]
  /\ attempts \in [Drafts -> [AttemptNumbers -> Attempt]]
  /\ latest \in [Drafts -> 0 .. MaxAttempts]
  /\ published \in [Drafts -> IssueKeys \cup {NoKey}]

EmptyStore ==
  /\ draft = [d \in Drafts |->
                [state |-> Absent, revision |-> 0, template |-> NoTemplate]]
  /\ attempts = [d \in Drafts |-> [n \in AttemptNumbers |-> NoAttempt]]
  /\ latest = [d \in Drafts |-> 0]
  /\ published = [d \in Drafts |-> NoKey]

-----------------------------------------------------------------------------
(* Workflow rows.                                                          *)

InsertRow(d, s, t) ==
  /\ draft[d].state = Absent
  /\ draft' = [draft EXCEPT ![d] =
                 [state |-> s, revision |-> 1, template |-> t]]

\* The save of a draft read at revision r.
SaveAccepted(d, r, s) ==
  /\ draft[d].revision = r
  /\ draft[d].state = s \/ IsTransitionAllowed(draft[d].state, s)

SaveRow(d, s, t) ==
  draft' = [draft EXCEPT ![d] =
              [state |-> s, revision |-> @.revision + 1, template |-> t]]

\* Mutant of CasAccepted: a write that does not compare revisions.
CasAnyRevision(d, r, s) == IsTransitionAllowed(draft[d].state, s)

CasAccepted(d, r, s) ==
  /\ draft[d].revision = r
  /\ IsTransitionAllowed(draft[d].state, s)

CompareAndSwap(d, s) ==
  draft' = [draft EXCEPT ![d].state = s, ![d].revision = @ + 1]

-----------------------------------------------------------------------------
(* Attempts.  A partial unique index admits one pending attempt per draft  *)
(* and the attempt number is unique in its draft.                          *)

ClaimStates == {"SUBMITTING", "UPDATING", "ATTACHING"}

ClaimAccepted(d, n) ==
  /\ draft[d].state \in ClaimStates
  /\ n \in AttemptNumbers
  /\ attempts[d][n].status = "none"
  /\ \A m \in AttemptNumbers : attempts[d][m].status # "pending"

\* Mutant of ClaimAttempt: the highest number grows by the attempt's number.
ClaimAddsNumber(d, n, t) ==
  /\ attempts' = [attempts EXCEPT ![d][n] = [status |-> "pending", hash |-> t]]
  /\ latest' = [latest EXCEPT ![d] = @ + n]

ClaimAttempt(d, n, t) ==
  /\ attempts' = [attempts EXCEPT ![d][n] = [status |-> "pending", hash |-> t]]
  /\ latest' = [latest EXCEPT ![d] = n]

AttemptTransitions == ({"pending"} \X {"success", "failed", "unknown"})
                        \cup ({"unknown"} \X {"success", "failed"})

UpdateAccepted(d, n, s) ==
  \/ attempts[d][n].status = s
  \/ <<attempts[d][n].status, s>> \in AttemptTransitions

UpdateAttempt(d, n, s) ==
  attempts' = [attempts EXCEPT ![d][n] = [status |-> s, hash |-> @.hash]]

-----------------------------------------------------------------------------
(* Published issues: one row per draft, replaced by a later one, and no    *)
(* key in two rows.                                                        *)

PublishAccepted(d, k) == \A e \in Drafts \ {d} : published[e] # k

StorePublishedIssue(d, k) == published' = [published EXCEPT ![d] = k]

=============================================================================
