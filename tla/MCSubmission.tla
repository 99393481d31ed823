--------------------------- MODULE MCSubmission ---------------------------
EXTENDS Submission, TLC

Symmetry == Permutations(Workers) \cup Permutations(IssueKeys)
              \cup Permutations(Drafts) \cup Permutations(Templates)

=============================================================================
