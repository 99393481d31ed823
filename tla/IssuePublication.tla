-------------------------- MODULE IssuePublication --------------------------
(***************************************************************************)
(* What submission promises, whatever it does inside: a draft is asked for *)
(* at Jira, the issue comes to exist at most once, and what the bot says   *)
(* of the draft agrees with whether it exists.  A draft is "open" only     *)
(* while it has no issue, "published" only when it has one; when nobody    *)
(* knows, it is "unsure", and from there it is settled by the truth.       *)
(***************************************************************************)
CONSTANT Drafts

VARIABLES phase,   \* what the bot says of the draft
          exists   \* whether Jira has the draft's issue

Phases == {"open", "asking", "unsure", "published", "closed"}

Init ==
  /\ phase = [d \in Drafts |-> "open"]
  /\ exists = [d \in Drafts |-> FALSE]

Move(d, from, to) ==
  /\ phase[d] \in from
  /\ phase' = [phase EXCEPT ![d] = to]
  /\ UNCHANGED exists

Ask(d) == ~exists[d] /\ Move(d, {"open"}, "asking")

Appear(d) ==
  /\ phase[d] \in {"asking", "unsure"}
  /\ ~exists[d]
  /\ exists' = [exists EXCEPT ![d] = TRUE]
  /\ UNCHANGED phase

Doubt(d) == Move(d, {"asking"}, "unsure")

Confirm(d) == exists[d] /\ Move(d, {"asking", "unsure"}, "published")

GiveBack(d) == ~exists[d] /\ Move(d, {"asking", "unsure"}, "open")

Withdraw(d) == ~exists[d] /\ Move(d, {"open"}, "closed")

Next == \E d \in Drafts : \/ Ask(d) \/ Appear(d) \/ Doubt(d)
                          \/ Confirm(d) \/ GiveBack(d) \/ Withdraw(d)

Spec == Init /\ [][Next]_<<phase, exists>>

=============================================================================
