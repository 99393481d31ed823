----------------------------- MODULE Retention -----------------------------
(***************************************************************************)
(* Expiry and deletion of drafts in the workflow store, against the tasks  *)
(* that edit, cancel and submit the same drafts                            *)
(* (infrastructure/persistence/workflow_sqlite.py, with                    *)
(* services/workflow_service.py and services/submission_service.py).       *)
(*                                                                         *)
(* An author is a task: it reads a draft and writes it after an await, and *)
(* may end at any await.  Of a submission the steps on the store are       *)
(* modelled up to its first outcome; recovery and reconciliation are in    *)
(* Submission.  A case has at most one attempt without an outcome, the     *)
(* latest.  Times are left out: which drafts are due, or old enough to be  *)
(* deleted, is left open, so a cutoff may pick any of them.                *)
(***************************************************************************)
EXTENDS Naturals, FiniteSets, DraftFsm

CONSTANTS Cases,         \* draft ids
          Authors,
          NoCase,
          BatchLimit,    \* the limit of a batch
          MaxRevision    \* bound on the revision from which a task starts

ASSUME RetentionAssumption ==
  /\ BatchLimit \in Nat \ {0} /\ MaxRevision \in Nat
  /\ NoCase \notin Cases

VARIABLES
  stored,     \* state and revision of each case, and whether it has a deadline
  outcome,    \* the status of its latest attempt
  author      \* the task of each author: the draft it read, and its place

retentionVars == <<stored, outcome, author>>

Purged == "purged"
Unresolved == {"pending", "unknown"}

NoDraftTask == [pc |-> "idle", case |-> NoCase, state |-> Purged, revision |-> 0]

RetentionTypeOK ==
  /\ stored \in [Cases -> [state : DraftState \cup {Purged}, revision : Nat,
                           deadline : BOOLEAN]]
  /\ outcome \in [Cases -> {"none", "pending", "unknown", "success", "failed"}]
  /\ author \in [Authors ->
       [pc : {"idle", "write", "submit", "claim", "await", "finish"},
        case : Cases \cup {NoCase}, state : DraftState \cup {Purged},
        revision : Nat]]

\* create_manual_draft has saved each case.  save takes an optional deadline;
\* only the tests of the repository give one.
RetentionInit ==
  /\ \E D \in SUBSET Cases :
       stored = [d \in Cases |-> [state |-> "REVIEW", revision |-> 1,
                                  deadline |-> d \in D]]
  /\ outcome = [d \in Cases |-> "none"]
  /\ author = [a \in Authors |-> NoDraftTask]

-----------------------------------------------------------------------------
(* Tasks.                                                                  *)

EndAuthor(a) == author' = [author EXCEPT ![a] = NoDraftTask]

GetDraft(a, d) ==
  /\ author[a].pc = "idle"
  /\ stored[d].state # Purged /\ stored[d].revision <= MaxRevision
  /\ \E pc \in {"write", "submit"} :
       author' = [author EXCEPT ![a] =
         [pc |-> pc, case |-> d, state |-> stored[d].state,
          revision |-> stored[d].revision]]
  /\ UNCHANGED <<stored, outcome>>

\* A move to s from the revision the task knows.
Admits(a, s) ==
  LET d == author[a].case
  IN  /\ stored[d].revision = author[a].revision
      /\ IsTransitionAllowed(stored[d].state, s)

\* compare_and_swap_state drops the deadline of a draft that cannot expire.
Swapped(d, s) == [stored EXCEPT ![d] =
  [state |-> s, revision |-> @.revision + 1,
   deadline |-> @.deadline /\ s \in ExpirableStates]]

\* A save inserts the draft when there is no row of it, whatever its revision.
SaveDraft(a) ==
  LET t == author[a]
      old == stored[t.case]
      saved == \/ old.state = Purged
               \/ /\ old.revision = t.revision
                  /\ \/ old.state = "REVIEW"
                     \/ IsTransitionAllowed(old.state, "REVIEW")
  IN  /\ t.pc = "write" /\ t.state \in {"REVIEW", "EDITING"}
      /\ \/ /\ saved
            /\ \E given \in BOOLEAN :
                 stored' = [stored EXCEPT ![t.case] =
                   [state |-> "REVIEW", revision |-> t.revision + 1,
                    deadline |-> given \/ @.deadline]]
         \/ ~saved /\ UNCHANGED stored
      /\ EndAuthor(a)
      /\ UNCHANGED outcome

CancelSaved(a) ==
  /\ author[a].pc = "write"
  /\ \/ /\ Admits(a, "CANCELLED")
        /\ stored' = Swapped(author[a].case, "CANCELLED")
     \/ ~Admits(a, "CANCELLED") /\ UNCHANGED stored
  /\ EndAuthor(a)
  /\ UNCHANGED outcome

\* upload_pending of a draft without files.
CompleteWithoutFiles(a) ==
  /\ author[a].pc = "write" /\ author[a].state = "CREATED"
  /\ \/ /\ Admits(a, "COMPLETE")
        /\ stored' = Swapped(author[a].case, "COMPLETE")
     \/ ~Admits(a, "COMPLETE") /\ UNCHANGED stored
  /\ EndAuthor(a)
  /\ UNCHANGED outcome

-----------------------------------------------------------------------------
(* A submission.                                                           *)

SubmitDraft(a) ==
  /\ author[a].pc = "submit"
  /\ author[a].state \in {"REVIEW", "SUBMISSION_RETRYABLE"}
  /\ \/ /\ Admits(a, "SUBMITTING")
        /\ stored' = Swapped(author[a].case, "SUBMITTING")
        /\ author' = [author EXCEPT ![a].pc = "claim", ![a].revision = @ + 1]
     \/ ~Admits(a, "SUBMITTING") /\ EndAuthor(a) /\ UNCHANGED stored
  /\ UNCHANGED outcome

\* The task that moved the row claims the attempt (Submission!ClaimNeverRefused).
ClaimSubmission(a) ==
  /\ author[a].pc = "claim"
  /\ outcome' = [outcome EXCEPT ![author[a].case] = "pending"]
  /\ author' = [author EXCEPT ![a].pc = "await"]
  /\ UNCHANGED stored

\* The exchange with Jira ends, and the attempt's outcome is written.
SettleSubmission(a) ==
  /\ author[a].pc = "await"
  /\ \E s \in {"success", "failed", "unknown"} :
       outcome' = [outcome EXCEPT ![author[a].case] = s]
  /\ author' = [author EXCEPT ![a].pc = "finish"]
  /\ UNCHANGED stored

StateAfter(s) == CASE s = "success" -> "CREATED"
                   [] s = "failed" -> "SUBMISSION_RETRYABLE"
                   [] OTHER -> "SUBMISSION_UNKNOWN"

\* Nothing else moves a row from SUBMITTING here: the move is admitted.
FinishSubmission(a) ==
  LET d == author[a].case
  IN  /\ author[a].pc = "finish"
      /\ stored' = Swapped(d, StateAfter(outcome[d]))
      /\ EndAuthor(a)
      /\ UNCHANGED outcome

StopAuthor(a) ==
  /\ author[a].pc # "idle"
  /\ EndAuthor(a)
  /\ UNCHANGED <<stored, outcome>>

-----------------------------------------------------------------------------
(* Batches.                                                                *)

\* What the query of an expiry selects from: drafts with a deadline.
Due == {d \in Cases : stored[d].deadline /\ stored[d].state \in ExpirableStates}

ExpireEligible ==
  /\ \E D \in SUBSET Due \ {{}} :
       /\ Cardinality(D) <= BatchLimit
       /\ stored' = [d \in Cases |->
            IF d \in D THEN [state |-> "EXPIRED", deadline |-> FALSE,
                             revision |-> stored[d].revision + 1]
                       ELSE stored[d]]
  /\ UNCHANGED <<outcome, author>>

DeletableStates == {"CANCELLED", "EXPIRED", "COMPLETE"}

\* Mutant of Deletable: the state is not looked at.
AnyDraft == {d \in Cases : stored[d].state # Purged}
Deletable == {d \in Cases : stored[d].state \in DeletableStates}

\* Deleting a draft deletes its attempts.
Delete(D) ==
  /\ stored' = [d \in Cases |->
       IF d \in D THEN [state |-> Purged, revision |-> 0, deadline |-> FALSE]
                  ELSE stored[d]]
  /\ outcome' = [d \in Cases |-> IF d \in D THEN "none" ELSE outcome[d]]
  /\ UNCHANGED author

DeleteDraft == \E d \in Deletable : Delete({d})

DeleteTerminal ==
  \E D \in SUBSET Deletable \ {{}} : Cardinality(D) <= BatchLimit /\ Delete(D)

RetentionNext ==
  \/ \E a \in Authors :
       \/ \E d \in Cases : GetDraft(a, d)
       \/ SaveDraft(a) \/ CancelSaved(a) \/ CompleteWithoutFiles(a)
       \/ SubmitDraft(a) \/ ClaimSubmission(a) \/ SettleSubmission(a)
       \/ FinishSubmission(a) \/ StopAuthor(a)
  \/ ExpireEligible \/ DeleteDraft \/ DeleteTerminal

RetentionSpec == RetentionInit /\ [][RetentionNext]_retentionVars

-----------------------------------------------------------------------------
(* Properties.                                                             *)

\* "SUBMISSION_UNKNOWN records are excluded from automatic expiry or cleanup
\* tasks" (docs/architecture/workflow-contracts.md:95): whatever a batch takes
\* while a submission is under way or its task has died, a draft with an
\* attempt that may have made an issue is still there, in a state that says so.
UnresolvedIsKept ==
  \A d \in Cases : outcome[d] \in Unresolved =>
    stored[d].state \in {"SUBMITTING", "SUBMISSION_UNKNOWN"}

\* A deleted draft does not come back.  It does not hold: SaveDraft inserts.
PurgedStaysPurged ==
  [][\A d \in Cases : stored[d].state = Purged => stored'[d].state = Purged]_stored

=============================================================================
