------------------------------ MODULE DraftFsm ------------------------------
(***************************************************************************)
(* The lifecycle of a draft (domain/fsm.py): its durable states and the    *)
(* moves between them.  Every write of a workflow row goes through this    *)
(* relation, whichever service asks for it.                                *)
(***************************************************************************)

CreateStates == {"COLLECTING", "ANALYZING", "ANALYSIS_FAILED", "REVIEW",
                 "EDITING", "SUBMITTING", "SUBMISSION_RETRYABLE",
                 "SUBMISSION_UNKNOWN"}
PublishedStates == {"CREATED", "ATTACHING", "ATTACHMENT_PARTIAL", "COMPLETE",
                    "UPDATE_REVIEW", "UPDATING", "UPDATE_RETRYABLE",
                    "UPDATE_UNKNOWN"}
TerminalStates == {"CANCELLED", "EXPIRED", "ABANDONED_UNKNOWN"}

DraftState == CreateStates \cup PublishedStates \cup TerminalStates

\* The states in which ordinary inactivity may expire a draft.
ExpirableStates == {"COLLECTING", "ANALYSIS_FAILED", "REVIEW", "EDITING",
                    "SUBMISSION_RETRYABLE"}

\* The states whose outcome at Jira nobody knows.
UnknownOutcomeStates == {"SUBMISSION_UNKNOWN", "UPDATE_UNKNOWN",
                         "ABANDONED_UNKNOWN"}

LegalTransitions ==
  UNION { {"COLLECTING"} \X {"ANALYZING", "REVIEW", "CANCELLED", "EXPIRED"},
          {"ANALYZING"} \X {"REVIEW", "ANALYSIS_FAILED", "CANCELLED"},
          {"ANALYSIS_FAILED"} \X {"ANALYZING", "CANCELLED", "EXPIRED"},
          {"REVIEW"} \X {"EDITING", "SUBMITTING", "CANCELLED", "EXPIRED"},
          {"EDITING"} \X {"REVIEW", "CANCELLED", "EXPIRED"},
          {"SUBMITTING"} \X
             {"CREATED", "SUBMISSION_RETRYABLE", "SUBMISSION_UNKNOWN"},
          {"SUBMISSION_RETRYABLE"} \X
             {"SUBMITTING", "EDITING", "CANCELLED", "EXPIRED"},
          {"SUBMISSION_UNKNOWN"} \X
             {"CREATED", "SUBMISSION_RETRYABLE", "ABANDONED_UNKNOWN"},
          {"CREATED"} \X {"ATTACHING", "COMPLETE"},
          {"ATTACHING"} \X {"COMPLETE", "ATTACHMENT_PARTIAL"},
          {"ATTACHMENT_PARTIAL"} \X {"ATTACHING", "COMPLETE", "UPDATE_REVIEW"},
          {"COMPLETE"} \X {"UPDATE_REVIEW"},
          {"UPDATE_REVIEW"} \X {"UPDATING", "COMPLETE"},
          {"UPDATING"} \X {"COMPLETE", "UPDATE_RETRYABLE", "UPDATE_UNKNOWN"},
          {"UPDATE_RETRYABLE"} \X {"UPDATING", "UPDATE_REVIEW", "COMPLETE"},
          {"UPDATE_UNKNOWN"} \X
             {"COMPLETE", "UPDATE_RETRYABLE", "ABANDONED_UNKNOWN"} }

IsTransitionAllowed(current, target) == <<current, target>> \in LegalTransitions

=============================================================================
