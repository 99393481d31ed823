------------------------- MODULE PersistenceProofs -------------------------
(***************************************************************************)
(* What is on disk: the rows that retention may take, the migrations of    *)
(* the database, the credential file and the rules file, each for any      *)
(* number of tasks, processes, users and texts.                            *)
(***************************************************************************)
EXTENDS Retention, Migrations, UserStore, RulesStore, TLAPS

-----------------------------------------------------------------------------
(* Retention.  UnresolvedIsKept is not inductive: a task that settles an   *)
(* attempt must find the row where it left it.  RetentionInv adds that a   *)
(* submission holds its row in SUBMITTING, alone, until it finishes.       *)

InSubmission(a) == author[a].pc \in {"claim", "await", "finish"}

\* A submission under way has its row in SUBMITTING.
Holds == \A a \in Authors :
           InSubmission(a) => /\ author[a].case \in Cases
                              /\ stored[author[a].case].state = "SUBMITTING"

\* Two submissions under way are of two drafts.
Apart == \A a, b \in Authors :
           a # b /\ InSubmission(a) /\ InSubmission(b)
             => author[a].case # author[b].case

\* A task that will read or write has a draft.
HasCase == \A a \in Authors : author[a].pc # "idle" => author[a].case \in Cases

RetentionInv == RetentionTypeOK /\ HasCase /\ Holds /\ Apart /\ UnresolvedIsKept

USE RetentionAssumption

LEMMA RetentionInitInv == RetentionInit => RetentionInv
  BY DEF RetentionInit, RetentionInv, RetentionTypeOK, HasCase, Holds, Apart, InSubmission,
         UnresolvedIsKept, NoDraftTask, Unresolved, DraftState, CreateStates, Purged

\* From SUBMITTING and from SUBMISSION_UNKNOWN the FSM allows nothing that the
\* services of this module ask for.
LEMMA Guarded ==
  \A s \in {"SUBMITTING", "SUBMISSION_UNKNOWN"} :
    \A t \in {"REVIEW", "CANCELLED", "COMPLETE", "SUBMITTING"} :
      ~IsTransitionAllowed(s, t)
  BY DEF IsTransitionAllowed, LegalTransitions

LEMMA MoveTypes ==
  ASSUME RetentionTypeOK, NEW d \in Cases, NEW s \in DraftState
  PROVE  /\ Swapped(d, s) \in [Cases -> [state : DraftState \cup {Purged},
                                         revision : Nat, deadline : BOOLEAN]]
         /\ Swapped(d, s)[d].state = s
         /\ \A e \in Cases \ {d} : Swapped(d, s)[e] = stored[e]
  BY DEF Swapped, RetentionTypeOK

\* A row that no submission holds and that has no open attempt may move anywhere.
LEMMA FreeMove ==
  ASSUME RetentionInv, NEW d \in Cases, NEW a \in Authors,
         stored[d].state \notin {"SUBMITTING", "SUBMISSION_UNKNOWN"},
         stored' \in [Cases -> [state : DraftState \cup {Purged}, revision : Nat,
                                deadline : BOOLEAN]],
         \A e \in Cases \ {d} : stored'[e] = stored[e],
         EndAuthor(a), UNCHANGED outcome
  PROVE  RetentionInv'
<1>1. RetentionTypeOK'
  BY DEF RetentionInv, RetentionTypeOK, EndAuthor, NoDraftTask, Purged
<1>2. HasCase'
  BY DEF RetentionInv, RetentionTypeOK, HasCase, EndAuthor, NoDraftTask
<1>3. Holds' /\ Apart'
  BY DEF RetentionInv, RetentionTypeOK, Holds, Apart, InSubmission, EndAuthor, NoDraftTask
<1>4. UnresolvedIsKept'
  BY DEF RetentionInv, UnresolvedIsKept
<1> QED BY <1>1, <1>2, <1>3, <1>4 DEF RetentionInv

LEMMA StillMove ==
  ASSUME RetentionInv, NEW a \in Authors, EndAuthor(a), UNCHANGED <<stored, outcome>>
  PROVE  RetentionInv'
  BY DEF RetentionInv, RetentionTypeOK, HasCase, Holds, Apart, InSubmission, UnresolvedIsKept,
         EndAuthor, NoDraftTask, Purged

\* Tasks before a submission.
LEMMA TaskStep ==
  ASSUME RetentionInv, NEW a \in Authors,
         \/ \E d \in Cases : GetDraft(a, d)
         \/ SaveDraft(a) \/ CancelSaved(a) \/ CompleteWithoutFiles(a) \/ StopAuthor(a)
  PROVE  RetentionInv'
<1> USE DEF RetentionInv
<1>1. CASE \E d \in Cases : GetDraft(a, d)
  <2> PICK d \in Cases : GetDraft(a, d) BY <1>1
  <2>1. RetentionTypeOK' BY DEF GetDraft, RetentionTypeOK
  <2>2. HasCase' BY DEF GetDraft, RetentionTypeOK, HasCase
  <2>3. Holds' /\ Apart' BY DEF GetDraft, RetentionTypeOK, Holds, Apart, InSubmission
  <2>4. UnresolvedIsKept' BY DEF GetDraft, UnresolvedIsKept
  <2> QED BY <2>1, <2>2, <2>3, <2>4
<1>2. CASE SaveDraft(a)
  <2>1. author[a].case \in Cases /\ EndAuthor(a) /\ UNCHANGED outcome
    BY <1>2 DEF SaveDraft, HasCase
  <2> DEFINE d == author[a].case
  <2>2. CASE UNCHANGED stored BY <2>1, <2>2, StillMove
  <2>3. CASE ~UNCHANGED stored
    <3>1. stored[d].state \notin {"SUBMITTING", "SUBMISSION_UNKNOWN"}
      BY <1>2, <2>3, Guarded DEF SaveDraft, Purged
    <3>2. PICK given \in BOOLEAN :
            stored' = [stored EXCEPT ![d] =
                        [state |-> "REVIEW", revision |-> author[a].revision + 1,
                         deadline |-> given \/ @.deadline]]
      BY <1>2, <2>3 DEF SaveDraft
    <3>3. stored[d].deadline \in BOOLEAN /\ author[a].revision \in Nat
      BY <2>1 DEF RetentionTypeOK
    <3>4. stored' \in [Cases -> [state : DraftState \cup {Purged}, revision : Nat,
                                 deadline : BOOLEAN]]
      BY <2>1, <3>2, <3>3 DEF RetentionTypeOK, DraftState, CreateStates
    <3>5. \A e \in Cases \ {d} : stored'[e] = stored[e]
      BY <2>1, <3>2 DEF RetentionTypeOK
    <3> QED BY <2>1, <3>1, <3>4, <3>5, FreeMove
  <2> QED BY <2>2, <2>3
<1>3. ASSUME NEW s \in {"CANCELLED", "COMPLETE"}, author[a].pc = "write",
             \/ Admits(a, s) /\ stored' = Swapped(author[a].case, s)
             \/ ~Admits(a, s) /\ UNCHANGED stored,
             EndAuthor(a), UNCHANGED outcome
      PROVE  RetentionInv'
  <2>1. author[a].case \in Cases BY <1>3 DEF HasCase
  <2>2. CASE UNCHANGED stored BY <1>3, <2>2, StillMove
  <2>3. CASE Admits(a, s) /\ stored' = Swapped(author[a].case, s)
    <3>1. stored[author[a].case].state \notin {"SUBMITTING", "SUBMISSION_UNKNOWN"}
      BY <2>3, Guarded DEF Admits
    <3>2. s \in DraftState
      BY DEF DraftState, PublishedStates, TerminalStates
    <3> QED BY <1>3, <2>1, <2>3, <3>1, <3>2, MoveTypes, FreeMove
  <2> QED BY <1>3, <2>2, <2>3
<1>4. CASE CancelSaved(a) BY <1>3, <1>4 DEF CancelSaved
<1>5. CASE CompleteWithoutFiles(a) BY <1>3, <1>5 DEF CompleteWithoutFiles
<1>6. CASE StopAuthor(a) BY <1>6, StillMove DEF StopAuthor
<1> QED BY <1>1, <1>2, <1>4, <1>5, <1>6

\* The steps of a submission.
LEMMA SubmissionStep ==
  ASSUME RetentionInv, NEW a \in Authors,
         \/ SubmitDraft(a) \/ ClaimSubmission(a) \/ SettleSubmission(a)
         \/ FinishSubmission(a)
  PROVE  RetentionInv'
<1> USE DEF RetentionInv
<1> DEFINE d == author[a].case
<1>0. d \in Cases
  BY DEF HasCase, SubmitDraft, ClaimSubmission, SettleSubmission, FinishSubmission
<1>1. CASE SubmitDraft(a)
  <2>1. CASE ~Admits(a, "SUBMITTING")
    BY <1>1, <2>1, StillMove DEF SubmitDraft
  <2>2. CASE Admits(a, "SUBMITTING")
    <3>1. /\ stored' = Swapped(d, "SUBMITTING")
          /\ author' = [author EXCEPT ![a].pc = "claim", ![a].revision = @ + 1]
          /\ UNCHANGED outcome
      BY <1>1, <2>2 DEF SubmitDraft
    <3>2. stored[d].state \notin {"SUBMITTING", "SUBMISSION_UNKNOWN"}
      BY <2>2, Guarded DEF Admits
    <3>3. "SUBMITTING" \in DraftState BY DEF DraftState, CreateStates
    <3>4. /\ stored' \in [Cases -> [state : DraftState \cup {Purged},
                                    revision : Nat, deadline : BOOLEAN]]
          /\ stored'[d].state = "SUBMITTING"
          /\ \A e \in Cases \ {d} : stored'[e] = stored[e]
      BY <1>0, <3>1, <3>3, MoveTypes
    <3>5. RetentionTypeOK' BY <3>1, <3>4 DEF RetentionTypeOK
    <3>6. HasCase' BY <1>0, <3>1 DEF RetentionTypeOK, HasCase
    <3>7. Holds' BY <1>0, <3>1, <3>4 DEF RetentionTypeOK, Holds, InSubmission
    <3>8. Apart'
      BY <1>0, <3>1, <3>2 DEF RetentionTypeOK, Holds, Apart, InSubmission
    <3>9. UnresolvedIsKept' BY <3>1, <3>4 DEF UnresolvedIsKept
    <3> QED BY <3>5, <3>6, <3>7, <3>8, <3>9
  <2> QED BY <2>1, <2>2
<1>2. CASE ClaimSubmission(a) \/ SettleSubmission(a)
  <2>1. PICK s \in {"pending", "success", "failed", "unknown"} :
          /\ outcome' = [outcome EXCEPT ![d] = s]
          /\ UNCHANGED stored
    BY <1>2 DEF ClaimSubmission, SettleSubmission
  <2>2. PICK pc \in {"await", "finish"} : author' = [author EXCEPT ![a].pc = pc]
    BY <1>2 DEF ClaimSubmission, SettleSubmission
  <2>3. InSubmission(a)
    BY <1>2 DEF ClaimSubmission, SettleSubmission, InSubmission
  <2>4. RetentionTypeOK' BY <1>0, <2>1, <2>2 DEF RetentionTypeOK
  <2>5. HasCase' BY <1>0, <2>2 DEF RetentionTypeOK, HasCase
  <2>6. Holds' /\ Apart'
    BY <1>0, <2>1, <2>2, <2>3 DEF RetentionTypeOK, Holds, Apart, InSubmission
  <2>7. UnresolvedIsKept'
    BY <1>0, <2>1, <2>3 DEF RetentionTypeOK, Holds, UnresolvedIsKept
  <2> QED BY <2>4, <2>5, <2>6, <2>7
<1>3. CASE FinishSubmission(a)
  <2>1. /\ stored' = Swapped(d, StateAfter(outcome[d]))
        /\ EndAuthor(a) /\ UNCHANGED outcome /\ InSubmission(a)
    BY <1>3 DEF FinishSubmission, InSubmission
  <2> DEFINE s == StateAfter(outcome[d])
  <2>2. /\ s \in DraftState
        /\ outcome[d] \in Unresolved => s = "SUBMISSION_UNKNOWN"
    BY <1>0 DEF StateAfter, Unresolved, RetentionTypeOK, DraftState, CreateStates,
                PublishedStates
  <2>3. /\ stored' \in [Cases -> [state : DraftState \cup {Purged}, revision : Nat,
                                  deadline : BOOLEAN]]
        /\ stored'[d].state = s
        /\ \A e \in Cases \ {d} : stored'[e] = stored[e]
    BY <1>0, <2>1, <2>2, MoveTypes
  <2>4. author' \in [Authors -> [pc : {"idle", "write", "submit", "claim", "await",
                                       "finish"},
                                 case : Cases \cup {NoCase},
                                 state : DraftState \cup {Purged}, revision : Nat]]
    BY <2>1 DEF EndAuthor, RetentionTypeOK, NoDraftTask
  <2>5. RetentionTypeOK' BY <2>1, <2>3, <2>4 DEF RetentionTypeOK
  <2>6. HasCase' BY <2>1 DEF EndAuthor, RetentionTypeOK, HasCase, NoDraftTask
  <2>7. Holds'
    <3> SUFFICES ASSUME NEW b \in Authors, InSubmission(b)'
                 PROVE  /\ author[b].case \in Cases /\ author'[b] = author[b]
                        /\ stored'[author[b].case].state = "SUBMITTING"
      BY DEF Holds
    <3>1. b # a /\ author'[b] = author[b]
      BY <2>1 DEF EndAuthor, RetentionTypeOK, NoDraftTask, InSubmission
    <3>2. InSubmission(b) BY <3>1 DEF InSubmission
    <3>3. author[b].case # d BY <2>1, <3>1, <3>2 DEF Apart
    <3> QED BY <2>3, <3>1, <3>2, <3>3 DEF Holds
  <2>8. Apart' BY <2>1 DEF EndAuthor, RetentionTypeOK, NoDraftTask, Apart, InSubmission
  <2>9. UnresolvedIsKept' BY <2>1, <2>2, <2>3 DEF UnresolvedIsKept
  <2> QED BY <2>5, <2>6, <2>7, <2>8, <2>9
<1> QED BY <1>1, <1>2, <1>3

\* A batch takes only drafts in states that hold no open attempt.
LEMMA BatchStep ==
  ASSUME RetentionInv, ExpireEligible \/ DeleteDraft \/ DeleteTerminal
  PROVE  RetentionInv'
<1> USE DEF RetentionInv
<1>1. PICK D \in SUBSET Cases :
        /\ \A d \in D : stored[d].state \notin {"SUBMITTING", "SUBMISSION_UNKNOWN"}
        /\ stored' \in [Cases -> [state : DraftState \cup {Purged}, revision : Nat,
                                  deadline : BOOLEAN]]
        /\ \A d \in Cases \ D : stored'[d] = stored[d] /\ outcome'[d] = outcome[d]
        /\ \A d \in D : outcome'[d] \in {outcome[d], "none"}
        /\ outcome' \in [Cases -> {"none", "pending", "unknown", "success", "failed"}]
        /\ UNCHANGED author
  <2>1. CASE ExpireEligible
    <3>1. PICK D \in SUBSET Due :
            stored' = [d \in Cases |->
              IF d \in D THEN [state |-> "EXPIRED", deadline |-> FALSE,
                               revision |-> stored[d].revision + 1]
                         ELSE stored[d]]
      BY <2>1 DEF ExpireEligible
    <3>2. D \in SUBSET Cases BY <3>1 DEF Due
    <3>3. \A d \in D : stored[d].state \notin {"SUBMITTING", "SUBMISSION_UNKNOWN"}
      BY <3>1 DEF Due, ExpirableStates
    <3>4. stored' \in [Cases -> [state : DraftState \cup {Purged}, revision : Nat,
                                 deadline : BOOLEAN]]
      BY <3>1 DEF RetentionTypeOK, DraftState, TerminalStates
    <3> QED BY <2>1, <3>1, <3>2, <3>3, <3>4 DEF ExpireEligible, RetentionTypeOK
  <2>2. CASE DeleteDraft \/ DeleteTerminal
    <3>1. PICK D \in SUBSET Deletable : Delete(D)
      BY <2>2 DEF DeleteDraft, DeleteTerminal
    <3>2. D \in SUBSET Cases BY <3>1 DEF Deletable
    <3>3. \A d \in D : stored[d].state \notin {"SUBMITTING", "SUBMISSION_UNKNOWN"}
      BY <3>1 DEF Deletable, DeletableStates
    <3>4. stored' \in [Cases -> [state : DraftState \cup {Purged}, revision : Nat,
                                 deadline : BOOLEAN]]
      BY <3>1 DEF Delete, RetentionTypeOK
    <3> QED BY <3>1, <3>2, <3>3, <3>4 DEF Delete, RetentionTypeOK
  <2> QED BY <2>1, <2>2
<1>2. RetentionTypeOK' BY <1>1 DEF RetentionTypeOK
<1>3. HasCase' BY <1>1 DEF HasCase
<1>4. Holds' /\ Apart' BY <1>1 DEF Holds, Apart, InSubmission
<1>5. UnresolvedIsKept'
  BY <1>1 DEF UnresolvedIsKept, Unresolved
<1> QED BY <1>2, <1>3, <1>4, <1>5

\* A submission under way holds its row in SUBMITTING, alone, whatever the
\* expiry and deletion batches (delete_terminal, expire_eligible) take.
THEOREM RetentionInvariance == RetentionSpec => []RetentionInv
<1>1. RetentionInv /\ [RetentionNext]_retentionVars => RetentionInv'
  <2> SUFFICES ASSUME RetentionInv, [RetentionNext]_retentionVars PROVE RetentionInv'
    OBVIOUS
  <2>1. CASE \E a \in Authors :
               \/ \E d \in Cases : GetDraft(a, d)
               \/ SaveDraft(a) \/ CancelSaved(a) \/ CompleteWithoutFiles(a)
               \/ StopAuthor(a)
    BY <2>1, TaskStep
  <2>2. CASE \E a \in Authors :
               \/ SubmitDraft(a) \/ ClaimSubmission(a) \/ SettleSubmission(a)
               \/ FinishSubmission(a)
    BY <2>2, SubmissionStep
  <2>3. CASE ExpireEligible \/ DeleteDraft \/ DeleteTerminal BY <2>3, BatchStep
  <2>4. CASE UNCHANGED retentionVars
    BY <2>4 DEF retentionVars, RetentionInv, RetentionTypeOK, HasCase, Holds, Apart,
                InSubmission, UnresolvedIsKept
  <2> QED BY <2>1, <2>2, <2>3, <2>4 DEF RetentionNext
<1> QED BY RetentionInitInv, <1>1, PTL DEF RetentionSpec

\* Whatever is expired or deleted, and whichever task dies, a draft with an
\* attempt that may have made an issue stays, in a state that says so.
THEOREM UnresolvedIsKeptHolds == RetentionSpec => []UnresolvedIsKept
<1>1. RetentionInv => UnresolvedIsKept BY DEF RetentionInv
<1> QED BY RetentionInvariance, <1>1, PTL

HIDE RetentionAssumption

-----------------------------------------------------------------------------
(* Migrations.  The rows a process read stay a prefix of the history, since *)
(* no row is ever changed (Read), and the versions it has passed are there as *)
(* it ships them (Passed); so a version that is not there yet is the next. *)

\* The versions below n are in the history as process p ships them.
Migrated(p, n) ==
  \A v \in 1 .. n : v \in 1 .. Len(history) /\ history[v] = release[p][v]

Read == \A p \in Processes : \A v \in 1 .. Len(seen[p]) :
          v \in 1 .. Len(history) /\ seen[p][v] = history[v]

Passed == \A p \in Processes :
  /\ opener[p].next \in Nat \ {0}
  /\ \A v \in 1 .. opener[p].next - 1 :
       v \in 1 .. Latest(p) => v \in 1 .. Len(history) /\ history[v] = release[p][v]
  /\ opener[p].pc \in {"closed", "connected", "listed"} => opener[p].next = 1
  /\ opener[p].pc \in {"verify", "ready"} => opener[p].next > Latest(p)

MigrationsInv == /\ MigrationsTypeOK
       /\ userVersion = Len(history)
       /\ Read /\ Passed

\* A release is a sequence of migrations.
LEMMA Lengths ==
  ASSUME MigrationsTypeOK, NEW p \in Processes
  PROVE  release[p] \in Seq(STRING) /\ Latest(p) \in Nat
  BY MigrationsAssumption DEF MigrationsTypeOK, Latest

LEMMA MigrationsInitInv == MigrationsInit => MigrationsInv
<1> SUFFICES ASSUME MigrationsInit PROVE MigrationsInv OBVIOUS
<1>1. history = <<>> /\ \A p \in Processes : seen[p] = <<>> /\ opener[p] = Closed
  BY DEF MigrationsInit
<1>2. MigrationsTypeOK
  BY <1>1 DEF MigrationsInit, MigrationsTypeOK, OpenerState, Closed
<1>3. Read BY <1>1 DEF Read
<1>4. ASSUME NEW p \in Processes
      PROVE  opener[p].next = 1 /\ opener[p].pc = "closed"
  BY <1>1 DEF Closed
<1>5. \A p \in Processes : \A v \in 1 .. opener[p].next - 1 : FALSE
  BY <1>4
<1>6. ASSUME NEW p \in Processes
      PROVE  /\ opener[p].next \in Nat \ {0}
             /\ opener[p].pc \in {"closed", "connected", "listed"} => opener[p].next = 1
             /\ opener[p].pc \in {"verify", "ready"} => opener[p].next > Latest(p)
  <2>1. opener[p].next = 1 /\ opener[p].pc = "closed" BY <1>4
  <2>2. opener[p].next \in Nat \ {0} BY <2>1
  <2>3. opener[p].pc \notin {"verify", "ready"} BY <2>1
  <2> QED BY <2>1, <2>2, <2>3
<1>7. Passed BY <1>5, <1>6, Zenon DEF Passed
<1> QED BY <1>1, <1>2, <1>3, <1>7 DEF MigrationsInit, MigrationsInv

\* The steps that leave the history and the releases alone: what must be shown
\* is about the one process.
LEMMA KeptHistory ==
  ASSUME MigrationsInv, NEW p \in Processes,
         UNCHANGED <<history, userVersion, release>>,
         NEW o \in OpenerState, opener' = [opener EXCEPT ![p] = o],
         NEW s \in Seq(STRING), seen' = [seen EXCEPT ![p] = s],
         \A v \in 1 .. Len(s) : v \in 1 .. Len(history) /\ s[v] = history[v],
         o.next \in Nat \ {0},
         \A v \in 1 .. o.next - 1 :
           v \in 1 .. Latest(p) => v \in 1 .. Len(history) /\ history[v] = release[p][v],
         o.pc \in {"closed", "connected", "listed"} => o.next = 1,
         o.pc \in {"verify", "ready"} => o.next > Latest(p)
  PROVE  MigrationsInv'
<1>1. MigrationsTypeOK' BY DEF MigrationsInv, MigrationsTypeOK
<1>2. Read' BY DEF MigrationsInv, MigrationsTypeOK, Read
<1>3. Passed' BY DEF MigrationsInv, MigrationsTypeOK, Passed, Latest
<1> QED BY <1>1, <1>2, <1>3 DEF MigrationsInv

LEMMA QuitStep ==
  ASSUME MigrationsInv, NEW p \in Processes, Quit(p), UNCHANGED <<history, userVersion, release>>
  PROVE  MigrationsInv'
<1>1. Closed \in OpenerState /\ Closed.next = 1 /\ Closed.pc = "closed"
  BY DEF Closed, OpenerState
<1>2. <<>> \in Seq(STRING) /\ \A v \in 1 .. Len(<<>>) : FALSE OBVIOUS
<1>3. \A v \in 1 .. Closed.next - 1 :
        v \in 1 .. Latest(p) => v \in 1 .. Len(history) /\ history[v] = release[p][v]
  BY <1>1
<1>4. \A v \in 1 .. Len(<<>>) : v \in 1 .. Len(history) /\ <<>>[v] = history[v]
  BY <1>2
<1>5. opener' = [opener EXCEPT ![p] = Closed] /\ seen' = [seen EXCEPT ![p] = <<>>]
  BY DEF Quit
<1>6. /\ Closed.next \in Nat \ {0}
      /\ Closed.pc \in {"closed", "connected", "listed"} => Closed.next = 1
      /\ Closed.pc \in {"verify", "ready"} => Closed.next > Latest(p)
  BY <1>1
<1>7. <<>> \in Seq(STRING) OBVIOUS
<1> QED BY <1>1, <1>3, <1>4, <1>5, <1>6, <1>7, KeptHistory

\* A process goes on to another place; what it has read and passed stays.
LEMMA PlaceStep ==
  ASSUME MigrationsInv, NEW p \in Processes, NEW pc \in {"connected", "migrate", "verify", "ready"},
         OpenAt(p, pc), UNCHANGED <<history, userVersion, release>>,
         NEW s \in Seq(STRING), seen' = [seen EXCEPT ![p] = s],
         \A v \in 1 .. Len(s) : v \in 1 .. Len(history) /\ s[v] = history[v],
         pc = "connected" => opener[p].next = 1,
         pc \in {"verify", "ready"} => opener[p].next > Latest(p)
  PROVE  MigrationsInv'
<1> DEFINE o == [opener[p] EXCEPT !.pc = pc]
<1>1. o \in OpenerState /\ o.next = opener[p].next /\ o.pc = pc
  BY DEF MigrationsInv, MigrationsTypeOK, OpenerState
<1>2. opener' = [opener EXCEPT ![p] = o]
  BY DEF OpenAt, MigrationsInv, MigrationsTypeOK
<1>3. /\ opener[p].next \in Nat \ {0}
      /\ \A v \in 1 .. opener[p].next - 1 :
           v \in 1 .. Latest(p) => v \in 1 .. Len(history) /\ history[v] = release[p][v]
  BY DEF MigrationsInv, Passed
<1> HIDE DEF o
<1> QED BY <1>1, <1>2, <1>3, KeptHistory

\* A migration that commits is the next of the history.
LEMMA ApplyStep ==
  ASSUME MigrationsInv, NEW p \in Processes, ApplyMigration(p)
  PROVE  MigrationsInv'
<1> DEFINE v == opener[p].next
<1>1. CASE v \in DOMAIN history
  BY <1>1, QuitStep DEF ApplyMigration, Apply
<1>2. CASE v \notin DOMAIN history
  <2>1. /\ history' = Append(history, release[p][v])
        /\ userVersion' = v
        /\ opener' = [opener EXCEPT ![p].next = v + 1]
        /\ UNCHANGED <<seen, release>>
        /\ opener[p].pc = "migrate"
        /\ v \in (Len(seen[p]) + 1) .. Latest(p)
    BY <1>2 DEF ApplyMigration, Apply
  <2>2. /\ history \in Seq(STRING) /\ DOMAIN history = 1 .. Len(history)
        /\ Len(history) \in Nat
    BY DEF MigrationsInv, MigrationsTypeOK
  <2>3. release[p] \in Seq(STRING) /\ Latest(p) \in Nat BY Lengths DEF MigrationsInv
  <2>4. v \in Nat \ {0} /\ v <= Latest(p)
    BY <2>1, <2>3 DEF MigrationsInv, Passed
  <2>5. v = Len(history) + 1
    <3>1. v > Len(history) BY <1>2, <2>2, <2>4
    <3>2. CASE v = 1 BY <3>1, <3>2, <2>2
    <3>3. CASE v > 1
      <4>1. v - 1 \in 1 .. v - 1 /\ v - 1 \in 1 .. Latest(p) BY <2>3, <2>4, <3>3
      <4>2. v - 1 \in 1 .. Len(history) BY <4>1 DEF MigrationsInv, Passed
      <4> QED BY <3>1, <4>2, <2>2, <2>4
    <3> QED BY <3>2, <3>3, <2>4
  <2>6. release[p][v] \in STRING BY <2>3, <2>4 DEF Latest
  <2>7. /\ history' \in Seq(STRING) /\ Len(history') = Len(history) + 1
        /\ \A u \in 1 .. Len(history) : history'[u] = history[u]
        /\ history'[v] = release[p][v]
    BY <2>1, <2>2, <2>5, <2>6
  <2>8. MigrationsTypeOK'
    BY <2>1, <2>4, <2>7 DEF MigrationsInv, MigrationsTypeOK, OpenerState
  <2>9. userVersion' = Len(history') BY <2>1, <2>5, <2>7
  <2>10. Read'
    BY <2>1, <2>2, <2>7 DEF MigrationsInv, Read
  <2>11. Passed'
    <3> SUFFICES ASSUME NEW q \in Processes
                 PROVE  /\ opener'[q].next \in Nat \ {0}
                        /\ \A u \in 1 .. opener'[q].next - 1 : u \in 1 .. Latest(q) =>
                             u \in 1 .. Len(history') /\ history'[u] = release[q][u]
                        /\ opener'[q].pc \in {"closed", "connected", "listed"} =>
                             opener'[q].next = 1
                        /\ opener'[q].pc \in {"verify", "ready"} =>
                             opener'[q].next > Latest(q)
      BY <2>1 DEF Passed, Latest
    <3>1. CASE q # p
      <4>1. opener'[q] = opener[q] BY <2>1, <3>1 DEF MigrationsInv, MigrationsTypeOK
      <4> QED BY <4>1, <2>2, <2>7 DEF MigrationsInv, Passed
    <3>2. CASE q = p
      <4>1. opener'[p].next = v + 1 /\ opener'[p].pc = "migrate"
        BY <2>1 DEF MigrationsInv, MigrationsTypeOK, OpenerState
      <4>2. \A u \in 1 .. v - 1 : u \in 1 .. Latest(p) =>
              u \in 1 .. Len(history) /\ history[u] = release[p][u]
        BY DEF MigrationsInv, Passed
      <4> QED BY <3>2, <4>1, <4>2, <2>2, <2>4, <2>5, <2>7
    <3> QED BY <3>1, <3>2
  <2> QED BY <2>8, <2>9, <2>10, <2>11 DEF MigrationsInv
<1> QED BY <1>1, <1>2

LEMMA MigrationsStep ==
  ASSUME MigrationsInv, NEW p \in Processes,
         \/ Connect(p) \/ ListApplied(p) \/ PassApplied(p) \/ ApplyMigration(p)
         \/ VerifyHistory(p) \/ VerifyVersion(p) \/ CloseDatabase(p)
  PROVE  MigrationsInv'
<1>0. /\ seen[p] \in Seq(STRING) /\ history \in Seq(STRING)
      /\ seen = [seen EXCEPT ![p] = seen[p]]
      /\ \A v \in 1 .. Len(seen[p]) : v \in 1 .. Len(history) /\ seen[p][v] = history[v]
      /\ opener[p] \in OpenerState
  BY DEF MigrationsInv, MigrationsTypeOK, Read
<1>1. CASE Connect(p)
  <2>1. opener[p].next = 1 BY <1>1 DEF Connect, MigrationsInv, Passed
  <2> QED BY <1>0, <1>1, <2>1, PlaceStep DEF Connect
<1>2. CASE ListApplied(p)
  <2>1. CASE Len(history) <= Latest(p) /\ OpenAt(p, "migrate")
               /\ seen' = [seen EXCEPT ![p] = history]
    <3>1. \A v \in 1 .. Len(history) : v \in 1 .. Len(history) /\ history[v] = history[v]
      OBVIOUS
    <3> QED BY <1>0, <1>2, <2>1, <3>1, PlaceStep DEF ListApplied
  <2>2. CASE Quit(p) BY <1>2, <2>2, QuitStep DEF ListApplied
  <2> QED BY <1>2, <2>1, <2>2 DEF ListApplied
<1>3. CASE PassApplied(p)
  <2>1. CASE Quit(p) BY <1>3, <2>1, QuitStep DEF PassApplied
  <2>2. CASE SameMigration(p, opener[p].next)
               /\ opener' = [opener EXCEPT ![p].next = opener[p].next + 1]
               /\ UNCHANGED seen
    <3> DEFINE v == opener[p].next
               o == [opener[p] EXCEPT !.next = v + 1]
    <3>1. v \in Nat \ {0} /\ opener[p].pc = "migrate" /\ v <= Len(seen[p])
      BY <1>3 DEF PassApplied, MigrationsInv, Passed
    <3>2. o \in OpenerState /\ o.next = v + 1 /\ o.pc = "migrate"
      BY <1>0, <3>1 DEF OpenerState
    <3>3. opener' = [opener EXCEPT ![p] = o] /\ seen' = [seen EXCEPT ![p] = seen[p]]
      BY <1>0, <2>2 DEF MigrationsInv, MigrationsTypeOK
    <3>4. v \in 1 .. Len(history) /\ history[v] = release[p][v]
      BY <1>0, <2>2, <3>1 DEF SameMigration
    <3>5. \A u \in 1 .. v - 1 : u \in 1 .. Latest(p) =>
            u \in 1 .. Len(history) /\ history[u] = release[p][u]
      BY DEF MigrationsInv, Passed
    <3>6. \A u \in 1 .. o.next - 1 : u \in 1 .. Latest(p) =>
            u \in 1 .. Len(history) /\ history[u] = release[p][u]
      BY <3>1, <3>2, <3>4, <3>5
    <3>7. /\ o.next \in Nat \ {0}
          /\ o.pc \in {"closed", "connected", "listed"} => o.next = 1
          /\ o.pc \in {"verify", "ready"} => o.next > Latest(p)
      BY <3>1, <3>2
    <3>8. UNCHANGED <<history, userVersion, release>> BY <1>3 DEF PassApplied
    <3> HIDE DEF o, v
    <3> QED BY <1>0, <3>2, <3>3, <3>6, <3>7, <3>8, KeptHistory
  <2> QED BY <1>3, <2>1, <2>2 DEF PassApplied
<1>4. CASE ApplyMigration(p) BY <1>4, ApplyStep
<1>5. CASE VerifyHistory(p)
  <2>1. CASE Quit(p) BY <1>5, <2>1, QuitStep DEF VerifyHistory
  <2>2. CASE OpenAt(p, "verify") /\ UNCHANGED seen
    BY <1>0, <1>5, <2>2, PlaceStep DEF VerifyHistory
  <2> QED BY <1>5, <2>1, <2>2 DEF VerifyHistory
<1>6. CASE VerifyVersion(p)
  <2>1. CASE Quit(p) BY <1>6, <2>1, QuitStep DEF VerifyVersion
  <2>2. CASE OpenAt(p, "ready") /\ UNCHANGED seen
    <3>1. opener[p].next > Latest(p) BY <1>6 DEF VerifyVersion, MigrationsInv, Passed
    <3> QED BY <1>0, <1>6, <2>2, <3>1, PlaceStep DEF VerifyVersion
  <2> QED BY <1>6, <2>1, <2>2 DEF VerifyVersion
<1>7. CASE CloseDatabase(p) BY <1>7, QuitStep DEF CloseDatabase
<1> QED BY <1>1, <1>2, <1>3, <1>4, <1>5, <1>6, <1>7

\* MigrationsInv is inductive (infrastructure/persistence: how a process applies its
\* migrations to the file it opened).
THEOREM MigrationsInvariance == MigrationsSpec => []MigrationsInv
<1>1. MigrationsInv /\ [MigrationsNext]_migrationVars => MigrationsInv'
  <2> SUFFICES ASSUME MigrationsInv, [MigrationsNext]_migrationVars PROVE MigrationsInv'
    OBVIOUS
  <2>1. CASE MigrationsNext BY <2>1, MigrationsStep DEF MigrationsNext
  <2>2. CASE UNCHANGED migrationVars
    BY <2>2 DEF migrationVars, MigrationsInv, MigrationsTypeOK, Read, Passed, Latest
  <2> QED BY <2>1, <2>2
<1> QED BY MigrationsInitInv, <1>1, PTL DEF MigrationsSpec

\* Whichever releases race to migrate one file, and wherever they die: who has
\* opened it finds every migration it ships, and version and rows agree.
THEOREM ReadyMeansMigratedHolds == MigrationsSpec => []ReadyMeansMigrated
<1>1. MigrationsInv => ReadyMeansMigrated
  <2> SUFFICES ASSUME MigrationsInv, NEW p \in Processes, opener[p].pc = "ready",
                      NEW v \in 1 .. Latest(p)
               PROVE  v \in DOMAIN history /\ history[v] = release[p][v]
    BY DEF ReadyMeansMigrated, MigrationsInv
  <2>1. history \in Seq(STRING) /\ opener[p].next \in Nat /\ opener[p].next > Latest(p)
    BY DEF MigrationsInv, MigrationsTypeOK, Passed
  <2>2. Latest(p) \in Nat BY Lengths DEF MigrationsInv
  <2>3. v \in 1 .. opener[p].next - 1 BY <2>1, <2>2
  <2> QED BY <2>1, <2>3 DEF MigrationsInv, Passed
<1> QED BY MigrationsInvariance, <1>1, PTL

-----------------------------------------------------------------------------
(* The user store.  RestartFindsCredentials is about one instant; what makes *)
(* it inductive is who may write: a load is alone, before anything is served, *)
(* and the one caller that holds the lock is the one whose write counts.   *)

\* A file that holds no document was never written, or was damaged.
FilesAre ==
  /\ ~diverged /\ main \notin Document => main = Nothing /\ prev = Nothing
  /\ main = Unreadable => diverged = TRUE

\* The store is loaded once, before anything else.
LoadsFirst ==
  /\ serving = FALSE => \A t \in Threads : thread[t].op \in {"none", "load"}
  /\ \A t \in Threads :
       /\ thread[t].op = "load" => holder = t /\ serving = FALSE
       /\ thread[t].pc \in {"load", "previous"} => thread[t].op = "load"
       /\ thread[t].pc # "resting" => thread[t].op # "none"
       /\ holder = t => thread[t].pc # "resting"

\* What a load has found is on disk, or it began with a file that was damaged.
LoadFinds ==
  \A t \in Threads : thread[t].op = "load" =>
    /\ thread[t].pc = "done" /\ ~diverged => Reloaded = thread[t].creds
    /\ thread[t].pc \in {"serialize", "copy", "replace", "failed"} => diverged = TRUE
    /\ thread[t].pc \in {"load", "previous"} => thread[t].creds = NoOne
    /\ thread[t].pc = "previous" => main \notin Document

\* The credentials on disk are those in memory, until the write of the caller
\* that holds the lock is done; a language write carries those in memory.
DiskFollows ==
  /\ serving /\ ~diverged /\ holder = Nothing => Reloaded = credentials
  /\ \A t \in Threads : holder = t =>
       /\ serving /\ ~diverged /\ thread[t].pc = "done" => Reloaded = thread[t].creds
       /\ serving /\ ~diverged /\ thread[t].pc # "done" => Reloaded = credentials
       /\ thread[t].op = "language" => thread[t].creds = credentials

UsersInv == UserStoreTypeOK /\ FilesAre /\ LoadsFirst /\ LoadFinds /\ DiskFollows

Tasks ==
  [pc : {"resting", "load", "previous", "serialize", "copy", "replace",
         "done", "failed"},
   op : {"none", "load", "credentials", "language"},
   creds : Credentials, langs : Preferences]

LEMMA NoOneTyped == NoOne \in Credentials /\ NoOne \in Preferences
  BY DEF NoOne, Credentials, Preferences

LEMMA ReloadedIs ==
  /\ main \in Document => Reloaded = main.credentials
  /\ main \notin Document /\ prev \notin Document => Reloaded = NoOne
  BY DEF Reloaded

LEMMA UsersInitInv == UserStoreInit => UsersInv
<1> SUFFICES ASSUME UserStoreInit PROVE UsersInv
  OBVIOUS
<1>1. \A t \in Threads : /\ thread[t] \in Tasks /\ thread[t].pc = "resting"
                         /\ thread[t].op = "none"
  BY NoOneTyped DEF UserStoreInit, Resting, Tasks
<1>2. thread \in [Threads -> Tasks]
  BY <1>1 DEF UserStoreInit
<1>3. UserStoreTypeOK
  <2>1. cancelled \in 0 .. MaxCancelled /\ damage \in 0 .. MaxDamage
    BY UserStoreAssumption DEF UserStoreInit
  <2>2. credentials \in Credentials /\ languages \in Preferences
    BY NoOneTyped DEF UserStoreInit
  <2>3. /\ main \in Document \cup {Nothing, Unreadable} /\ serving \in BOOLEAN
        /\ prev \in Document \cup {Nothing, Unreadable} /\ diverged \in BOOLEAN
        /\ holder \in Threads \cup {Nothing}
    BY DEF UserStoreInit
  <2> QED
    BY <1>2, <2>1, <2>2, <2>3 DEF UserStoreTypeOK, Tasks
<1>4. Reloaded = NoOne
  BY DocumentAssumption, ReloadedIs DEF UserStoreInit
<1>5. FilesAre
  BY DocumentAssumption DEF UserStoreInit, FilesAre
<1>6. \A t \in Threads : holder # t
  BY UserStoreAssumption DEF UserStoreInit
<1>7. LoadsFirst /\ LoadFinds
  BY <1>1, <1>6 DEF LoadsFirst, LoadFinds
<1>8. DiskFollows
  BY <1>4, <1>6 DEF DiskFollows, UserStoreInit
<1> QED
  BY <1>3, <1>5, <1>7, <1>8 DEF UsersInv

\* A thread's step that leaves what is on disk, as a restart would find it.
LEMMA UsersMoves ==
  ASSUME UsersInv, NEW t \in Threads, NEW r \in Tasks,
         thread' = [thread EXCEPT ![t] = r], thread[t].pc # "resting",
         UNCHANGED <<credentials, main, holder, serving, diverged, faults>>,
         languages' \in Preferences, prev' \in Document \cup {Nothing, Unreadable},
         r.op = thread[t].op, r.pc # "resting",
         r.pc \in {"load", "previous"} => r.op = "load",
         diverged = FALSE => prev' = prev \/ main \in Document,
         diverged = FALSE => main \in Document \/ prev' = Nothing,
         r.op # "load" => r.pc # "done" /\ thread[t].pc # "done" /\ r.creds = thread[t].creds,
         r.op = "load" => /\ r.pc = "done" /\ diverged = FALSE => Reloaded = r.creds
                          /\ r.pc \in {"serialize", "copy", "replace", "failed"} => diverged = TRUE
                          /\ r.pc \in {"load", "previous"} => r.creds = NoOne
                          /\ r.pc = "previous" => main \notin Document
  PROVE  UsersInv'
<1> USE DEF UsersInv
<1>1. thread \in [Threads -> Tasks] /\ diverged \in BOOLEAN /\ serving \in BOOLEAN
  BY DEF UserStoreTypeOK, Tasks
<1>2. thread'[t] = r /\ \A s \in Threads : s # t => thread'[s] = thread[s]
  BY <1>1
<1>3. diverged = FALSE => Reloaded' = Reloaded
  BY DEF Reloaded
<1>4. UserStoreTypeOK'
  <2>1. thread' \in [Threads -> Tasks]
    BY <1>1
  <2> QED
    BY <2>1 DEF UserStoreTypeOK, Tasks, faults
<1>5. FilesAre'
  BY <1>1 DEF FilesAre
<1>6. LoadsFirst'
  BY <1>1, <1>2 DEF LoadsFirst
<1>7. LoadFinds'
  BY <1>1, <1>2, <1>3 DEF LoadFinds
<1>8. DiskFollows'
  <2>1. serving' /\ ~diverged' /\ holder' = Nothing => Reloaded' = credentials'
    BY <1>1, <1>3 DEF DiskFollows
  <2>2. ASSUME NEW s \in Threads, holder' = s
        PROVE  /\ serving' /\ ~diverged' /\ thread'[s].pc = "done" => Reloaded' = thread'[s].creds
               /\ serving' /\ ~diverged' /\ thread'[s].pc # "done" => Reloaded' = credentials'
               /\ thread'[s].op = "language" => thread'[s].creds = credentials'
    <3>1. CASE s # t
      BY <1>1, <1>2, <1>3, <2>2, <3>1 DEF DiskFollows
    <3>2. CASE s = t /\ r.op # "load"
      BY <1>1, <1>2, <1>3, <2>2, <3>2 DEF DiskFollows
    <3>3. CASE s = t /\ r.op = "load"
      BY <1>1, <1>2, <2>2, <3>3 DEF LoadsFirst
    <3> QED
      BY <3>1, <3>2, <3>3
  <2> QED
    BY <2>1, <2>2 DEF DiskFollows
<1> QED
  BY <1>4, <1>5, <1>6, <1>7, <1>8

\* A thread takes up the document of a caller that takes the lock.
LEMMA UsersEngage ==
  ASSUME UsersInv, NEW t \in Threads, NEW op \in {"load", "credentials", "language"},
         NEW creds \in Credentials, NEW langs \in Preferences,
         Engage(t, op, creds, langs),
         op = "load" => ~serving /\ creds = NoOne,
         op # "load" => serving,
         op = "language" => creds = credentials
  PROVE  UsersInv'
<1> USE DEF UsersInv
<1> DEFINE r == [pc |-> IF op = "load" THEN "load" ELSE "serialize", op |-> op,
                 creds |-> creds, langs |-> langs]
<1>1. /\ thread \in [Threads -> Tasks] /\ diverged \in BOOLEAN /\ serving \in BOOLEAN
      /\ holder \in Threads \cup {Nothing} /\ Nothing \notin Threads
  BY UserStoreAssumption DEF UserStoreTypeOK, Tasks
<1>2. /\ holder = Nothing /\ holder' = t /\ thread[t].pc = "resting"
      /\ thread' = [thread EXCEPT ![t] = r]
      /\ UNCHANGED <<credentials, languages, main, prev, serving, diverged, faults>>
  BY DEF Engage, storeMemory, storeFiles
<1>3. /\ r \in Tasks /\ r.op = op /\ r.creds = creds /\ r.pc \in {"load", "serialize"}
      /\ (r.pc = "load") = (op = "load")
  BY DEF Tasks
<1> HIDE DEF r
<1>4. thread'[t] = r /\ \A s \in Threads : s # t => thread'[s] = thread[s]
  BY <1>1, <1>2
<1>5. UserStoreTypeOK'
  <2>1. thread' \in [Threads -> Tasks]
    BY <1>1, <1>2, <1>3
  <2> QED
    BY <1>2, <2>1 DEF UserStoreTypeOK, Tasks, faults
<1>6. FilesAre'
  BY <1>2 DEF FilesAre
<1>7. LoadsFirst'
  <2>1. serving' = FALSE => \A s \in Threads : thread'[s].op \in {"none", "load"}
    BY <1>1, <1>2, <1>3, <1>4 DEF LoadsFirst
  <2>2. \A s \in Threads : s # t => holder # s /\ holder' # s
    BY <1>1, <1>2
  <2>3. ASSUME NEW s \in Threads
        PROVE  /\ thread'[s].op = "load" => holder' = s /\ serving' = FALSE
               /\ thread'[s].pc \in {"load", "previous"} => thread'[s].op = "load"
               /\ thread'[s].pc # "resting" => thread'[s].op # "none"
               /\ holder' = s => thread'[s].pc # "resting"
    <3>1. CASE s = t
      BY <1>1, <1>2, <1>3, <1>4, <3>1
    <3>2. CASE s # t
      BY <1>2, <1>4, <2>2, <3>2 DEF LoadsFirst
    <3> QED
      BY <3>1, <3>2
  <2> QED
    BY <2>1, <2>3 DEF LoadsFirst
<1>8. Reloaded' = Reloaded
  BY <1>2 DEF Reloaded
<1>9. LoadFinds'
  BY <1>2, <1>3, <1>4, <1>8 DEF LoadFinds
<1>10. DiskFollows'
  <2>1. holder' # Nothing /\ \A s \in Threads : holder' = s => s = t
    BY <1>1, <1>2
  <2>2. serving /\ ~diverged => Reloaded = credentials
    BY <1>2 DEF DiskFollows
  <2> QED
    BY <1>2, <1>3, <1>4, <1>8, <2>1, <2>2 DEF DiskFollows
<1> QED
  BY <1>5, <1>6, <1>7, <1>9, <1>10

LEMMA UsersAsk ==
  ASSUME UsersInv, NEW t \in Threads
  PROVE  /\ InitializeStore(t) => UsersInv'
         /\ \A u \in Users : RemoveCredentials(t, u) => UsersInv'
         /\ \A u \in Users, v \in Tokens : StoreCredentials(t, u, v) => UsersInv'
         /\ \A u \in Users, l \in Languages : SetLanguage(t, u, l) => UsersInv'
<1>1. credentials \in Credentials /\ languages \in Preferences
  BY DEF UsersInv, UserStoreTypeOK
<1>2. InitializeStore(t) => UsersInv'
  BY NoOneTyped, UsersEngage DEF InitializeStore
<1>3. ASSUME NEW u \in Users, RemoveCredentials(t, u) PROVE UsersInv'
  <2>1. [credentials EXCEPT ![u] = Nothing] \in Credentials
    BY <1>1 DEF Credentials
  <2> QED
    BY <1>3, <2>1, NoOneTyped, UsersEngage DEF RemoveCredentials
<1>4. ASSUME NEW u \in Users, NEW v \in Tokens, StoreCredentials(t, u, v) PROVE UsersInv'
  <2>1. [credentials EXCEPT ![u] = v] \in Credentials
    BY <1>1 DEF Credentials
  <2> QED
    BY <1>4, <2>1, NoOneTyped, UsersEngage DEF StoreCredentials
<1>5. ASSUME NEW u \in Users, NEW l \in Languages, SetLanguage(t, u, l) PROVE UsersInv'
  <2>1. [languages EXCEPT ![u] = l] \in Preferences
    BY <1>1 DEF Preferences
  <2> QED
    BY <1>1, <1>5, <2>1, UsersEngage DEF SetLanguage
<1> QED
  BY <1>2, <1>3, <1>4, <1>5

LEMMA UsersLoadMain ==
  ASSUME UsersInv, NEW t \in Threads, LoadMain(t)
  PROVE  UsersInv'
<1> USE DEF UsersInv
<1>1. /\ thread \in [Threads -> Tasks] /\ diverged \in BOOLEAN /\ serving \in BOOLEAN
      /\ holder \in Threads \cup {Nothing} /\ Nothing \notin Threads
      /\ languages \in Preferences
  BY UserStoreAssumption DEF UserStoreTypeOK, Tasks
<1>2. /\ thread[t].pc = "load" /\ UNCHANGED <<credentials, prev, holder, serving, faults>>
      /\ thread[t].op = "load" /\ holder = t /\ serving = FALSE /\ thread[t].creds = NoOne
  BY DEF LoadMain, LoadsFirst, LoadFinds
<1>3. \A s \in Threads : s # t => thread[s].op # "load" /\ holder # s
  BY <1>2 DEF LoadsFirst
<1>4. ASSUME NEW r \in Tasks, thread' = [thread EXCEPT ![t] = r], r.op = "load",
             r.pc \in {"done", "previous"},
             languages' \in Preferences, main' \in Document \cup {Nothing, Unreadable},
             diverged' \in BOOLEAN, FilesAre',
             r.pc = "done" => Reloaded' = r.creds,
             r.pc = "previous" => main' \notin Document /\ r.creds = NoOne
      PROVE  UsersInv'
  <2>1. thread'[t] = r /\ \A s \in Threads : s # t => thread'[s] = thread[s]
    BY <1>1, <1>4
  <2>2. UserStoreTypeOK'
    <3>1. thread' \in [Threads -> Tasks]
      BY <1>1, <1>4
    <3> QED
      BY <1>2, <1>4, <3>1 DEF UserStoreTypeOK, Tasks, faults
  <2>3. LoadsFirst'
    BY <1>2, <1>4, <2>1 DEF LoadsFirst
  <2>4. LoadFinds'
    BY <1>3, <1>4, <2>1 DEF LoadFinds
  <2>5. DiskFollows'
    <3>1. serving' = FALSE /\ holder' = t
      BY <1>2
    <3> QED
      BY <1>4, <2>1, <3>1 DEF DiskFollows
  <2> QED
    BY <1>4, <2>2, <2>3, <2>4, <2>5
<1>5. CASE main \in Document
  <2> DEFINE r == [thread[t] EXCEPT !.pc = "done", !.creds = main.credentials]
  <2>1. /\ languages' = main.languages /\ diverged' = FALSE /\ main' = main
        /\ thread' = [thread EXCEPT ![t] = r]
    BY <1>5, DocumentAssumption, <1>1 DEF LoadMain, Step, Tasks
  <2>2. main.credentials \in Credentials /\ main.languages \in Preferences
    BY <1>5 DEF Document
  <2>3. r \in Tasks /\ r.op = "load" /\ r.pc = "done" /\ r.creds = main.credentials
    BY <1>1, <1>2, <2>2 DEF Tasks
  <2> HIDE DEF r
  <2>4. Reloaded' = main.credentials
    BY <1>5, <2>1 DEF Reloaded
  <2>5. FilesAre'
    BY <1>5, <2>1, DocumentAssumption DEF FilesAre
  <2> QED
    BY <1>4, <1>5, <2>1, <2>2, <2>3, <2>4, <2>5
<1>6. CASE main \notin Document
  <2> DEFINE r == [thread[t] EXCEPT !.pc = "previous"]
  <2>1. /\ languages' = languages /\ diverged' = diverged
        /\ main' = main \/ (main = Unreadable /\ main' = Nothing)
        /\ thread' = [thread EXCEPT ![t] = r]
    BY <1>6, <1>1 DEF LoadMain, Step, Tasks
  <2>2. r \in Tasks /\ r.op = "load" /\ r.pc = "previous" /\ r.creds = NoOne
    BY <1>1, <1>2 DEF Tasks
  <2> HIDE DEF r
  <2>3. main' \notin Document /\ main' \in {Nothing, Unreadable}
    BY <1>6, <2>1, DocumentAssumption DEF UserStoreTypeOK
  <2>4. FilesAre'
    BY <1>2, <1>6, <2>1, DocumentAssumption DEF FilesAre
  <2> QED
    BY <1>1, <1>4, <2>1, <2>2, <2>3, <2>4
<1> QED
  BY <1>5, <1>6

LEMMA UsersLoadPrevious ==
  ASSUME UsersInv, NEW t \in Threads, LoadPrevious(t)
  PROVE  UsersInv'
<1> USE DEF UsersInv
<1>1. /\ thread \in [Threads -> Tasks] /\ diverged \in BOOLEAN /\ serving \in BOOLEAN
      /\ prev \in Document \cup {Nothing, Unreadable} /\ languages \in Preferences
  BY DEF UserStoreTypeOK, Tasks
<1>2. /\ thread[t].pc = "previous"
      /\ UNCHANGED <<credentials, main, prev, holder, serving, diverged, faults>>
      /\ thread[t].op = "load" /\ thread[t].creds = NoOne /\ main \notin Document
      /\ diverged = FALSE => prev = Nothing
  BY DEF LoadPrevious, LoadsFirst, LoadFinds, FilesAre, storeFiles
<1>3. CASE prev \in Document
  <2> DEFINE r == [thread[t] EXCEPT !.pc = "serialize", !.creds = prev.credentials]
  <2>1. languages' = prev.languages /\ thread' = [thread EXCEPT ![t] = r]
    BY <1>1, <1>3 DEF LoadPrevious, Step, Tasks
  <2>2. prev.credentials \in Credentials /\ prev.languages \in Preferences
    BY <1>3 DEF Document
  <2>3. r \in Tasks /\ r.op = "load" /\ r.pc = "serialize"
    BY <1>1, <1>2, <2>2 DEF Tasks
  <2> HIDE DEF r
  <2>4. diverged = TRUE
    BY <1>1, <1>2, <1>3, DocumentAssumption
  <2> QED
    BY <1>1, <1>2, <2>1, <2>2, <2>3, <2>4, UsersMoves
<1>4. CASE prev \notin Document
  <2> DEFINE r == [thread[t] EXCEPT !.pc = "done"]
  <2>1. languages' = languages /\ thread' = [thread EXCEPT ![t] = r]
    BY <1>1, <1>4 DEF LoadPrevious, Step, Tasks
  <2>2. r \in Tasks /\ r.op = "load" /\ r.pc = "done" /\ r.creds = NoOne
    BY <1>1, <1>2 DEF Tasks
  <2> HIDE DEF r
  <2>3. Reloaded = NoOne
    BY <1>2, <1>4, ReloadedIs
  <2> QED
    BY <1>1, <1>2, <2>1, <2>2, <2>3, UsersMoves
<1> QED
  BY <1>3, <1>4

\* A write on its way to the rename.
LEMMA UsersWrites ==
  ASSUME UsersInv, NEW t \in Threads, NEW pc \in {"copy", "replace", "failed"},
         NEW langs \in Preferences,
         thread[t].pc \in {"serialize", "copy", "replace"},
         thread' = [thread EXCEPT ![t] = [thread[t] EXCEPT !.pc = pc, !.langs = langs]],
         UNCHANGED <<credentials, main, holder, serving, diverged, faults>>,
         languages' \in Preferences,
         prev' = prev \/ (main # Nothing /\ prev' = main)
  PROVE  UsersInv'
<1> USE DEF UsersInv
<1> DEFINE r == [thread[t] EXCEPT !.pc = pc, !.langs = langs]
<1>1. /\ thread \in [Threads -> Tasks] /\ diverged \in BOOLEAN
      /\ prev \in Document \cup {Nothing, Unreadable}
      /\ main \in Document \cup {Nothing, Unreadable}
  BY DEF UserStoreTypeOK, Tasks
<1>2. /\ r \in Tasks /\ r.op = thread[t].op /\ r.pc = pc /\ r.creds = thread[t].creds
      /\ thread' = [thread EXCEPT ![t] = r]
  BY <1>1 DEF Tasks
<1> HIDE DEF r
<1>3. diverged = FALSE => prev' = prev \/ main \in Document
  BY <1>1 DEF FilesAre
<1>4. diverged = FALSE => main \in Document \/ prev' = Nothing
  BY <1>1 DEF FilesAre
<1>5. r.op = "load" => diverged = TRUE
  BY <1>2 DEF LoadFinds
<1>6. prev' \in Document \cup {Nothing, Unreadable}
  BY <1>1
<1>7. r.pc # "resting" /\ r.pc # "done" /\ r.pc \notin {"load", "previous"}
      /\ thread[t].pc # "done" /\ thread[t].pc # "resting"
  BY <1>2
<1> QED
  BY <1>1, <1>2, <1>3, <1>4, <1>5, <1>6, <1>7, UsersMoves

LEMMA UsersReplaces ==
  ASSUME UsersInv, NEW t \in Threads, thread[t].pc = "replace",
         main' = [credentials |-> thread[t].creds, languages |-> thread[t].langs],
         diverged' = (holder # t), Step(t, "done"),
         UNCHANGED <<storeMemory, prev, holder, serving, faults>>
  PROVE  UsersInv'
<1> USE DEF UsersInv
<1> DEFINE r == [thread[t] EXCEPT !.pc = "done"]
<1>1. /\ thread \in [Threads -> Tasks] /\ diverged \in BOOLEAN /\ serving \in BOOLEAN
      /\ holder \in Threads \cup {Nothing} /\ Nothing \notin Threads
      /\ thread[t].creds \in Credentials /\ thread[t].langs \in Preferences
  BY UserStoreAssumption DEF UserStoreTypeOK, Tasks
<1>2. thread' = [thread EXCEPT ![t] = r]
  BY <1>1 DEF Step
<1>3. r \in Tasks /\ r.op = thread[t].op /\ r.pc = "done" /\ r.creds = thread[t].creds
  BY <1>1 DEF Tasks
<1> HIDE DEF r
<1>4. thread'[t] = r /\ \A s \in Threads : s # t => thread'[s] = thread[s]
  BY <1>1, <1>2
<1>5. main' \in Document /\ Reloaded' = thread[t].creds
  <2>1. main' \in Document /\ main'.credentials = thread[t].creds
    BY <1>1 DEF Document
  <2> QED
    BY <2>1 DEF Reloaded
<1>6. UserStoreTypeOK'
  <2>1. thread' \in [Threads -> Tasks]
    BY <1>1, <1>2, <1>3
  <2> QED
    BY <1>5, <2>1 DEF UserStoreTypeOK, Tasks, faults, storeMemory
<1>7. FilesAre'
  BY <1>5, DocumentAssumption DEF FilesAre
<1>8. LoadsFirst'
  BY <1>3, <1>4 DEF LoadsFirst
<1>9. LoadFinds'
  <2>1. ASSUME NEW s \in Threads, thread'[s].op = "load"
        PROVE  s = t
    <3>1. thread[s].op = "load" => holder = s
      BY DEF LoadsFirst
    <3>2. thread'[s].op = thread[s].op
      BY <1>3, <1>4
    <3>3. thread[t].op = "load" => holder = t
      BY DEF LoadsFirst
    <3>4. holder = s /\ thread[s].op = "load" /\ serving = FALSE
      BY <2>1, <3>1, <3>2 DEF LoadsFirst
    <3>5. thread[t].op \in {"none", "load"} /\ thread[t].op # "none"
      BY <3>4 DEF LoadsFirst
    <3> QED
      BY <3>3, <3>4, <3>5
  <2> QED
    BY <1>3, <1>4, <1>5, <2>1 DEF LoadFinds
<1>10. DiskFollows'
  <2>1. \A s \in Threads : holder' = s /\ s # t => diverged' = TRUE
    OBVIOUS
  <2>2. holder' = Nothing => diverged' = TRUE
    BY <1>1
  <2>3. ASSUME NEW s \in Threads, holder' = s, thread'[s].op = "language"
        PROVE  thread'[s].creds = credentials'
    BY <1>3, <1>4, <2>3 DEF DiskFollows, storeMemory
  <2> QED
    BY <1>3, <1>4, <1>5, <2>1, <2>2, <2>3 DEF DiskFollows
<1> QED
  BY <1>6, <1>7, <1>8, <1>9, <1>10

LEMMA UsersEnds ==
  ASSUME UsersInv, NEW t \in Threads, EndWrite(t)
  PROVE  UsersInv'
<1> USE DEF UsersInv
<1>1. /\ thread \in [Threads -> Tasks] /\ diverged \in BOOLEAN /\ serving \in BOOLEAN
      /\ holder \in Threads \cup {Nothing} /\ Nothing \notin Threads
      /\ credentials \in Credentials /\ languages \in Preferences
      /\ thread[t].creds \in Credentials /\ thread[t].langs \in Preferences
  BY UserStoreAssumption DEF UserStoreTypeOK, Tasks
<1>2. /\ thread[t].pc \in {"done", "failed"} /\ thread' = [thread EXCEPT ![t] = Resting]
      /\ UNCHANGED <<main, prev, diverged, faults>>
  BY DEF EndWrite, storeFiles
<1>3. Resting \in Tasks /\ Resting.pc = "resting" /\ Resting.op = "none"
  BY NoOneTyped DEF Resting, Tasks
<1>4. thread'[t] = Resting /\ \A s \in Threads : s # t => thread'[s] = thread[s]
  BY <1>1, <1>2
<1>5. Reloaded' = Reloaded /\ FilesAre'
  BY <1>2 DEF Reloaded, FilesAre
<1>6. thread' \in [Threads -> Tasks]
  BY <1>1, <1>2, <1>3
<1>7. CASE holder # t
  <2>1. UNCHANGED <<holder, serving, credentials, languages>>
    BY <1>7 DEF EndWrite, storeMemory
  <2>2. UserStoreTypeOK'
    BY <1>2, <1>6, <2>1 DEF UserStoreTypeOK, Tasks, faults
  <2>3. LoadsFirst'
    BY <1>3, <1>4, <1>7, <2>1 DEF LoadsFirst
  <2>4. LoadFinds'
    BY <1>2, <1>3, <1>4, <1>5 DEF LoadFinds
  <2>5. DiskFollows'
    BY <1>2, <1>4, <1>5, <1>7, <2>1 DEF DiskFollows
  <2> QED
    BY <1>5, <2>2, <2>3, <2>4, <2>5
<1>8. CASE holder = t
  <2>1. /\ holder' = Nothing /\ serving' = TRUE
        /\ Adopted(t) /\ thread[t].op # "language" => credentials' = thread[t].creds
        /\ ~(Adopted(t) /\ thread[t].op # "language") => credentials' = credentials
        /\ languages' \in {thread[t].langs, languages}
    BY <1>8 DEF EndWrite
  <2>2. credentials' \in Credentials /\ languages' \in Preferences
    BY <1>1, <2>1
  <2>3. UserStoreTypeOK'
    BY <1>2, <1>6, <2>1, <2>2 DEF UserStoreTypeOK, Tasks, faults
  <2>4. \A s \in Threads : s # t => thread[s].op # "load"
    BY <1>8 DEF LoadsFirst
  <2>5. \A s \in Threads : thread'[s].op # "load" /\ holder' # s
    BY <1>1, <1>3, <1>4, <2>1, <2>4
  <2>6. LoadsFirst'
    <3>1. \A s \in Threads : thread'[s].pc \notin {"load", "previous"}
      BY <1>3, <1>4, <2>4 DEF LoadsFirst
    <3> QED
      BY <1>3, <1>4, <2>1, <2>5, <3>1 DEF LoadsFirst
  <2>7. LoadFinds'
    BY <2>5 DEF LoadFinds
  <2>8. ~diverged => Reloaded = credentials'
    <3>1. thread[t].op \in {"load", "credentials", "language"}
      BY <1>1, <1>2 DEF LoadsFirst, Tasks
    <3>2. CASE thread[t].op = "load"
      <4>1. ~diverged => Reloaded = thread[t].creds
        BY <1>1, <1>2, <3>2 DEF LoadFinds
      <4> QED
        BY <2>1, <3>2, <4>1 DEF Adopted
    <3>3. CASE thread[t].op = "credentials"
      <4>1. serving
        BY <1>1, <3>3 DEF LoadsFirst
      <4>2. /\ ~diverged /\ thread[t].pc = "done" => Reloaded = thread[t].creds
            /\ ~diverged /\ thread[t].pc # "done" => Reloaded = credentials
        BY <1>8, <4>1 DEF DiskFollows
      <4> QED
        BY <2>1, <3>3, <4>2 DEF Adopted
    <3>4. CASE thread[t].op = "language"
      <4>1. serving
        BY <1>1, <3>4 DEF LoadsFirst
      <4>2. thread[t].creds = credentials /\ credentials' = credentials
        BY <1>8, <2>1, <3>4 DEF DiskFollows
      <4> QED
        BY <1>8, <4>1, <4>2 DEF DiskFollows
    <3> QED
      BY <3>1, <3>2, <3>3, <3>4
  <2>9. DiskFollows'
    BY <1>2, <1>5, <2>5, <2>8 DEF DiskFollows
  <2> QED
    BY <1>5, <2>3, <2>6, <2>7, <2>9
<1> QED
  BY <1>7, <1>8

LEMMA UsersCancel ==
  ASSUME UsersInv, NEW t \in Threads, CancelWrite(t)
  PROVE  UsersInv'
<1> USE DEF UsersInv
<1>1. /\ thread \in [Threads -> Tasks] /\ diverged \in BOOLEAN /\ serving \in BOOLEAN
      /\ Nothing \notin Threads
  BY UserStoreAssumption DEF UserStoreTypeOK, Tasks
<1>2. /\ serving = TRUE /\ holder = t /\ holder' = Nothing
      /\ UNCHANGED <<credentials, languages, main, prev, serving, damage>>
      /\ diverged' = (diverged \/ thread[t].pc = "done")
      /\ cancelled' = cancelled + 1 /\ cancelled < MaxCancelled
      /\ thread' = thread \/ thread' = [thread EXCEPT ![t] = Resting]
  BY <1>1 DEF CancelWrite, storeMemory, storeFiles
<1>3. Resting \in Tasks /\ Resting.pc = "resting" /\ Resting.op = "none"
  BY NoOneTyped DEF Resting, Tasks
<1>4. \A s \in Threads : thread'[s] = thread[s] \/ thread'[s] = Resting
  BY <1>1, <1>2
<1>5. thread' \in [Threads -> Tasks]
  BY <1>1, <1>2, <1>3
<1>6. cancelled' \in 0 .. MaxCancelled
  BY <1>2, UserStoreAssumption DEF UserStoreTypeOK
<1>7. UserStoreTypeOK'
  BY <1>1, <1>2, <1>5, <1>6 DEF UserStoreTypeOK, Tasks
<1>8. Reloaded' = Reloaded
  BY <1>2 DEF Reloaded
<1>9. FilesAre'
  BY <1>1, <1>2 DEF FilesAre
<1>10. \A s \in Threads : thread'[s].op # "load" /\ holder' # s
  BY <1>1, <1>2, <1>3, <1>4 DEF LoadsFirst
<1>11. LoadsFirst'
  BY <1>2, <1>3, <1>4, <1>10 DEF LoadsFirst
<1>12. LoadFinds'
  BY <1>10 DEF LoadFinds
<1>13. DiskFollows'
  BY <1>1, <1>2, <1>8, <1>10 DEF DiskFollows
<1> QED
  BY <1>7, <1>9, <1>11, <1>12, <1>13

LEMMA UsersCrash ==
  ASSUME UsersInv, CrashStore
  PROVE  UsersInv'
<1> USE DEF UsersInv
<1>1. /\ serving' = FALSE /\ holder' = Nothing /\ thread' = [t \in Threads |-> Resting]
      /\ credentials' = NoOne /\ languages' = NoOne
      /\ UNCHANGED <<main, prev, diverged, faults>> /\ Nothing \notin Threads
  BY UserStoreAssumption DEF CrashStore, storeFiles
<1>2. Resting \in Tasks /\ Resting.pc = "resting" /\ Resting.op = "none"
  BY NoOneTyped DEF Resting, Tasks
<1>3. thread' \in [Threads -> Tasks]
  BY <1>1, <1>2
<1>4. UserStoreTypeOK'
  BY <1>1, <1>3, NoOneTyped DEF UserStoreTypeOK, Tasks, faults
<1>5. FilesAre'
  BY <1>1 DEF FilesAre
<1>6. \A s \in Threads : thread'[s] = Resting /\ holder' # s
  BY <1>1
<1>7. LoadsFirst'
  BY <1>1, <1>2, <1>6 DEF LoadsFirst
<1>8. LoadFinds'
  BY <1>2, <1>6 DEF LoadFinds
<1>9. DiskFollows'
  BY <1>1, <1>6 DEF DiskFollows
<1> QED
  BY <1>4, <1>5, <1>7, <1>8, <1>9

LEMMA UsersDamage ==
  ASSUME UsersInv, DamageMain
  PROVE  UsersInv'
<1> USE DEF UsersInv
<1>1. /\ main' = Unreadable /\ diverged' = TRUE /\ main \in Document
      /\ damage' = damage + 1 /\ damage < MaxDamage
      /\ UNCHANGED <<credentials, languages, prev, holder, thread, serving, cancelled>>
  BY DEF DamageMain, storeMemory
<1>2. UserStoreTypeOK'
  <2>1. damage' \in 0 .. MaxDamage
    BY <1>1, UserStoreAssumption DEF UserStoreTypeOK
  <2> QED
    BY <1>1, <2>1 DEF UserStoreTypeOK
<1>3. FilesAre' /\ LoadsFirst' /\ LoadFinds'
  BY <1>1, DocumentAssumption DEF FilesAre, LoadsFirst, LoadFinds
<1>4. DiskFollows'
  BY <1>1 DEF DiskFollows
<1> QED
  BY <1>2, <1>3, <1>4

LEMMA UsersStep ==
  ASSUME UsersInv, [UserStoreNext]_userStoreVars
  PROVE  UsersInv'
<1>1. thread \in [Threads -> Tasks] /\ languages \in Preferences
  BY DEF UsersInv, UserStoreTypeOK, Tasks
<1>2. ASSUME NEW t \in Threads, Serialize(t) PROVE UsersInv'
  <2>1. thread[t].langs \in Preferences
    BY <1>1 DEF Tasks
  <2>2. /\ thread[t].pc = "serialize"
        /\ UNCHANGED <<credentials, main, prev, holder, serving, diverged, faults>>
    BY <1>2 DEF Serialize, storeFiles
  <2>3. CASE Step(t, "failed") /\ UNCHANGED languages
    <3>1. thread' = [thread EXCEPT ![t] = [thread[t] EXCEPT !.pc = "failed",
                                                           !.langs = thread[t].langs]]
      BY <1>1, <2>3 DEF Step, Tasks
    <3> QED
      BY <1>1, <2>1, <2>2, <2>3, <3>1, UsersWrites
  <2>4. CASE ~(Step(t, "failed") /\ UNCHANGED languages)
    <3>1. PICK langs \in Preferences :
            /\ languages' = langs
            /\ thread' = [thread EXCEPT ![t].pc = "copy", ![t].langs = langs]
      <4>1. (IF thread[t].op = "language" THEN thread[t].langs ELSE languages) \in Preferences
        BY <1>1, <2>1
      <4> QED
        BY <1>2, <2>4, <4>1 DEF Serialize
    <3>2. thread' = [thread EXCEPT ![t] = [thread[t] EXCEPT !.pc = "copy", !.langs = langs]]
      BY <1>1, <3>1 DEF Tasks
    <3> QED
      BY <2>2, <3>1, <3>2, UsersWrites
  <2> QED
    BY <2>3, <2>4
<1>3. ASSUME NEW t \in Threads, CopyPrevious(t) PROVE UsersInv'
  <2>1. thread[t].langs \in Preferences
    BY <1>1 DEF Tasks
  <2>2. thread' = [thread EXCEPT ![t] = [thread[t] EXCEPT !.pc = "replace",
                                                         !.langs = thread[t].langs]]
    BY <1>1, <1>3 DEF CopyPrevious, Step, Tasks
  <2>3. /\ thread[t].pc = "copy" /\ (prev' = prev \/ (main # Nothing /\ prev' = main))
        /\ UNCHANGED <<credentials, languages, main, holder, serving, diverged, faults>>
    BY <1>3 DEF CopyPrevious, storeMemory
  <2> QED
    BY <1>1, <2>1, <2>2, <2>3, UsersWrites
<1>4. ASSUME NEW t \in Threads, ReplaceMain(t) PROVE UsersInv'
  <2>1. CASE Step(t, "failed") /\ UNCHANGED <<main, diverged>>
    <3>1. thread[t].langs \in Preferences
      BY <1>1 DEF Tasks
    <3>2. thread' = [thread EXCEPT ![t] = [thread[t] EXCEPT !.pc = "failed",
                                                           !.langs = thread[t].langs]]
      BY <1>1, <2>1 DEF Step, Tasks
    <3>3. /\ thread[t].pc = "replace"
          /\ UNCHANGED <<credentials, languages, main, prev, holder, serving, diverged, faults>>
      BY <1>4, <2>1 DEF ReplaceMain, storeMemory
    <3> QED
      BY <1>1, <3>1, <3>2, <3>3, UsersWrites
  <2>2. CASE ~(Step(t, "failed") /\ UNCHANGED <<main, diverged>>)
    BY <1>4, <2>2, UsersReplaces DEF ReplaceMain
  <2> QED
    BY <2>1, <2>2
<1>5. CASE UNCHANGED userStoreVars
  BY <1>5 DEF userStoreVars, storeMemory, storeFiles, faults, UsersInv, UserStoreTypeOK,
              FilesAre, LoadsFirst, LoadFinds, DiskFollows, Reloaded
<1> QED
  BY <1>2, <1>3, <1>4, <1>5, UsersAsk, UsersLoadMain, UsersLoadPrevious, UsersEnds,
     UsersCancel, UsersCrash, UsersDamage
     DEF UserStoreNext

\* The state of the user store (user_store.py) is always well typed, and what
\* a restart would read is tied to memory and to the one write under way whose
\* caller still waits, whichever threads of cancelled callers go on.
THEOREM UserStoreInvariance == UserStoreSpec => []UsersInv
<1> QED
  BY UsersInitInv, UsersStep, PTL DEF UserStoreSpec

\* Wherever the process dies in _write_store or in a load, the credentials
\* the next start reads are those memory had or a write in progress leaves,
\* unless the file was damaged or written last for a caller that had given up.
THEOREM RestartFindsCredentialsHolds == UserStoreSpec => []RestartFindsCredentials
<1>1. ASSUME UsersInv PROVE RestartFindsCredentials
  <2> SUFFICES ASSUME serving, ~diverged, NEW u \in Users
               PROVE  Reloaded[u] \in {credentials[u]} \cup InFlight(u)
    BY DEF RestartFindsCredentials
  <2>1. holder \in Threads \cup {Nothing}
    BY <1>1 DEF UsersInv, UserStoreTypeOK
  <2>2. CASE holder = Nothing
    BY <1>1, <2>2 DEF UsersInv, DiskFollows
  <2>3. CASE holder \in Threads /\ thread[holder].pc # "done"
    BY <1>1, <2>3 DEF UsersInv, DiskFollows
  <2>4. CASE holder \in Threads /\ thread[holder].pc = "done"
    <3>1. Reloaded = thread[holder].creds
      BY <1>1, <2>4 DEF UsersInv, DiskFollows
    <3>2. thread[holder].op \in {"credentials", "language"}
      <4>1. thread[holder].op \in {"none", "load", "credentials", "language"}
        BY <1>1, <2>4 DEF UsersInv, UserStoreTypeOK
      <4>2. thread[holder].op # "load" /\ thread[holder].op # "none"
        BY <1>1, <2>4 DEF UsersInv, LoadsFirst
      <4> QED
        BY <4>1, <4>2
    <3>3. CASE thread[holder].op = "credentials"
      BY <2>4, <3>1, <3>3 DEF InFlight
    <3>4. CASE thread[holder].op = "language"
      BY <1>1, <2>4, <3>1, <3>4 DEF UsersInv, DiskFollows
    <3> QED
      BY <3>2, <3>3, <3>4
  <2> QED
    BY <2>1, <2>2, <2>3, <2>4
<1> QED
  BY <1>1, UserStoreInvariance, PTL

-----------------------------------------------------------------------------
(* The runtime rules.                                                      *)

RulesCalls == {"none", "init", "init_backup", "init_restore", "stat", "read", "adopt",
               "replace", "replace_primary", "reread", "restore", "restat"}
Texts == RuleTexts \cup {NoRules}

\* initialize is the only call without rules in memory.
Starts == {"none", "init", "init_backup", "init_restore"}

Typed == /\ primary \in Texts /\ backup \in Texts /\ current \in Texts
         /\ observed \in BOOLEAN /\ missed \in BOOLEAN
         /\ call \in [op : RulesCalls, text : Texts]
         /\ call.op \in {"init_backup", "init_restore", "adopt", "replace", "replace_primary"}
              => call.text # NoRules
         /\ call.op \notin Starts => current # NoRules
         /\ call.op \in {"init", "init_backup", "init_restore"} => current = NoRules

Strays == stray \in SUBSET ({"primary", "backup"} \X RuleTexts) /\ strayed \in 0 .. MaxStray

\* Nothing is observed before there are rules; what was observed and not missed
\* is in memory, or a call is about to take it over.
Watched == /\ current = NoRules => observed = FALSE
           /\ observed = TRUE /\ missed = FALSE /\ call.op \notin {"read", "adopt"}
                => primary = current
           /\ observed = TRUE /\ call.op = "adopt" => call.text = primary

RulesInv == Typed /\ Strays /\ Watched

LEMMA RulesInitInv == RulesInit => RulesInv
<1> SUFFICES ASSUME RulesInit PROVE RulesInv
  OBVIOUS
<1>1. call = [op |-> "none", text |-> NoRules] /\ call.op = "none" /\ call.text = NoRules
  BY DEF RulesInit, Idle
<1>2. call \in [op : RulesCalls, text : Texts]
  BY <1>1 DEF RulesCalls, Texts
<1>3. Typed
  BY <1>1, <1>2 DEF RulesInit, Typed, Texts, Starts
<1>4. Strays
  BY RulesAssumption DEF RulesInit, Strays
<1> QED
  BY <1>1, <1>3, <1>4 DEF RulesInit, RulesInv, Watched

\* The text of a call that will be written is one that passed validation.
LEMMA RulesTyped ==
  ASSUME RulesInv, [RulesNext]_rulesVars
  PROVE  Typed'
<1> USE DEF RulesInv, Typed, RulesCalls, Texts, Starts, rulesFiles, WritePrimary,
            WriteBackup, Observe, Continue, Return, Idle
<1>1. CASE InitializeRules
  BY <1>1 DEF InitializeRules
<1>2. CASE ReadAtStart
  BY <1>2 DEF ReadAtStart
<1>3. CASE BackupAtStart
  BY <1>3 DEF BackupAtStart
<1>4. CASE RestoreAtStart
  BY <1>4 DEF RestoreAtStart
<1>5. CASE Restat
  BY <1>5 DEF Restat
<1>6. CASE AskForRules
  <2>1. call' = [op |-> "stat", text |-> NoRules] /\ current # NoRules
        /\ UNCHANGED <<primary, backup, current, observed, missed>>
    BY <1>6 DEF AskForRules
  <2> QED
    BY <2>1
<1>7. CASE CompareSignature
  <2>1. call.op = "stat" /\ observed' \in BOOLEAN
        /\ UNCHANGED <<primary, backup, current, missed>>
    BY <1>7 DEF CompareSignature
  <2>2. CASE call' = [op |-> "none", text |-> NoRules]
    BY <2>1, <2>2
  <2>3. CASE call' = [op |-> "read", text |-> NoRules]
    BY <2>1, <2>3
  <2> QED
    BY <1>7, <2>2, <2>3 DEF CompareSignature
<1>8. CASE ReadChanged
  <2>1. call.op = "read" /\ missed' \in BOOLEAN
        /\ UNCHANGED <<primary, backup, current, observed>>
    BY <1>8 DEF ReadChanged
  <2>2. CASE call' = [op |-> "none", text |-> NoRules]
    BY <2>1, <2>2
  <2>3. CASE primary # NoRules /\ call' = [op |-> "adopt", text |-> primary]
    BY <2>1, <2>3
  <2> QED
    BY <1>8, <2>2, <2>3 DEF ReadChanged
<1>9. CASE Adopt
  BY <1>9 DEF Adopt
<1>10. CASE BackupReplaced
  <2>1. call.op = "replace" /\ backup' \in Texts
        /\ UNCHANGED <<primary, current, observed, missed>>
    BY <1>10 DEF BackupReplaced
  <2>2. CASE call' = [op |-> "replace_primary", text |-> call.text]
    BY <2>1, <2>2
  <2>3. CASE call' = [op |-> "restore", text |-> NoRules]
    BY <2>1, <2>3
  <2> QED
    BY <1>10, <2>2, <2>3 DEF BackupReplaced
<1>11. CASE WriteReplacement
  <2>1. call.op = "replace_primary" /\ primary' \in Texts /\ observed' \in BOOLEAN
        /\ missed' \in BOOLEAN /\ UNCHANGED <<backup, current>>
    BY <1>11 DEF WriteReplacement
  <2>2. CASE call' = [op |-> "reread", text |-> NoRules]
    BY <2>1, <2>2
  <2>3. CASE call' = [op |-> "restore", text |-> NoRules]
    BY <2>1, <2>3
  <2> QED
    BY <1>11, <2>2, <2>3 DEF WriteReplacement
<1>12. CASE RereadReplacement
  BY <1>12 DEF RereadReplacement
<1>13. CASE RestorePrimary
  BY <1>13 DEF RestorePrimary
<1>14. CASE CancelRules
  BY <1>14 DEF CancelRules
<1>15. CASE StrayWriteLands
  BY <1>15 DEF StrayWriteLands, Strays
<1>16. CASE RestartRules
  BY <1>16 DEF RestartRules
<1>17. ASSUME NEW t \in RuleTexts, ReplaceRules(t) PROVE Typed'
  BY <1>17, RulesAssumption DEF ReplaceRules
<1>18. ASSUME NEW t \in RuleTexts \cup {NoRules}, EditFile(t) PROVE Typed'
  BY <1>18 DEF EditFile
<1>19. CASE UNCHANGED rulesVars
  BY <1>19 DEF rulesVars
<1> QED
  BY <1>1, <1>2, <1>3, <1>4, <1>5, <1>6, <1>7, <1>8, <1>9, <1>10, <1>11,
     <1>12, <1>13, <1>14, <1>15, <1>16, <1>17, <1>18, <1>19
     DEF RulesNext

LEMMA RulesStrays ==
  ASSUME RulesInv, [RulesNext]_rulesVars
  PROVE  Strays'
<1>1. CASE CancelRules
  <2>1. strayed' \in 0 .. MaxStray
    BY <1>1, RulesAssumption DEF CancelRules, RulesInv, Strays
  <2>2. current \in RuleTexts
    BY <1>1 DEF CancelRules, RulesInv, Typed, Texts
  <2>3. call.op \in {"adopt", "replace", "replace_primary"} => call.text \in RuleTexts
    BY DEF RulesInv, Typed, Texts
  <2>4. WriteOf \in SUBSET ({"primary", "backup"} \X RuleTexts)
    BY <2>2, <2>3 DEF WriteOf
  <2> QED
    BY <1>1, <2>1, <2>4 DEF CancelRules, RulesInv, Strays
<1>2. CASE StrayWriteLands
  BY <1>2 DEF StrayWriteLands, RulesInv, Strays
<1>3. CASE RestartRules
  BY <1>3 DEF RestartRules, RulesInv, Strays
<1>4. CASE UNCHANGED <<stray, strayed>>
  BY <1>4 DEF RulesInv, Strays
<1> QED
  BY <1>1, <1>2, <1>3, <1>4
     DEF RulesNext, rulesVars, InitializeRules, ReadAtStart, BackupAtStart, RestoreAtStart,
         Restat, AskForRules, CompareSignature, ReadChanged, Adopt, BackupReplaced,
         WriteReplacement, RereadReplacement, RestorePrimary, ReplaceRules, EditFile

LEMMA RulesWatched ==
  ASSUME RulesInv, [RulesNext]_rulesVars
  PROVE  Watched'
<1>0. /\ current = NoRules => observed = FALSE
      /\ observed = TRUE /\ missed = FALSE /\ call.op \notin {"read", "adopt"}
           => primary = current
      /\ observed = TRUE /\ call.op = "adopt" => call.text = primary
      /\ call.op \in {"init", "init_backup", "init_restore"} => current = NoRules
      /\ call.op \notin Starts => current # NoRules
      /\ call.op \in {"init_backup", "init_restore", "adopt"} => call.text # NoRules
      /\ observed \in BOOLEAN /\ missed \in BOOLEAN
  BY DEF RulesInv, Typed, Watched
<1> USE DEF Watched, Starts, rulesFiles, WritePrimary, WriteBackup, Observe, Continue,
            Return, Idle
<1>1. CASE InitializeRules
  BY <1>0, <1>1 DEF InitializeRules
<1>2. CASE ReadAtStart
  BY <1>0, <1>2 DEF ReadAtStart
<1>3. CASE BackupAtStart
  BY <1>0, <1>3 DEF BackupAtStart
<1>4. CASE RestoreAtStart
  BY <1>0, <1>4 DEF RestoreAtStart
<1>5. CASE Restat
  BY <1>0, <1>5 DEF Restat
<1>6. CASE AskForRules
  BY <1>0, <1>6 DEF AskForRules
<1>7. CASE CompareSignature
  BY <1>0, <1>7 DEF CompareSignature
<1>8. CASE ReadChanged
  BY <1>0, <1>8 DEF ReadChanged
<1>9. CASE Adopt
  BY <1>0, <1>9 DEF Adopt
<1>10. CASE BackupReplaced
  BY <1>0, <1>10 DEF BackupReplaced
<1>11. CASE WriteReplacement
  BY <1>0, <1>11 DEF WriteReplacement
<1>12. CASE RereadReplacement
  BY <1>0, <1>12 DEF RereadReplacement
<1>13. CASE RestorePrimary
  BY <1>0, <1>13 DEF RestorePrimary
<1>14. CASE CancelRules
  BY <1>0, <1>14 DEF CancelRules
<1>15. CASE StrayWriteLands
  BY <1>0, <1>15 DEF StrayWriteLands
<1>16. CASE RestartRules
  BY <1>0, <1>16 DEF RestartRules
<1>17. ASSUME NEW t \in RuleTexts, ReplaceRules(t) PROVE Watched'
  BY <1>0, <1>17 DEF ReplaceRules
<1>18. ASSUME NEW t \in RuleTexts \cup {NoRules}, EditFile(t) PROVE Watched'
  BY <1>0, <1>18 DEF EditFile
<1>19. CASE UNCHANGED rulesVars
  BY <1>0, <1>19 DEF rulesVars
<1> QED
  BY <1>1, <1>2, <1>3, <1>4, <1>5, <1>6, <1>7, <1>8, <1>9, <1>10, <1>11,
     <1>12, <1>13, <1>14, <1>15, <1>16, <1>17, <1>18, <1>19
     DEF RulesNext

\* RulesInv is inductive: whatever a call of the rules store has read, and
\* whatever writes of cancelled calls land late, rules are in memory once the
\* store is initialised and follow the signature that was observed.
THEOREM RulesInvariance == RulesSpec => []RulesInv
<1>1. RulesInv /\ [RulesNext]_rulesVars => RulesInv'
  BY RulesTyped, RulesStrays, RulesWatched DEF RulesInv
<1> QED
  BY RulesInitInv, <1>1, PTL DEF RulesSpec

\* When no call of the rules store runs, a readable file whose signature was
\* observed holds the rules in use, with the exceptions the property names:
\* an edit of the file is noticed whichever two steps it falls between.
THEOREM NoChangeIsMissedHolds == RulesSpec => []NoChangeIsMissed
<1>1. RulesInv => NoChangeIsMissed
  BY DEF RulesInv, Typed, Watched, NoChangeIsMissed, Idle
<1> QED
  BY RulesInvariance, <1>1, PTL

\* The state of the rules store is always well typed; the writes of cancelled
\* calls that are still to land stay within what can be under way.
THEOREM RulesTypeCorrect == RulesSpec => []RulesTypeOK
<1>1. RulesInv => RulesTypeOK
  BY DEF RulesInv, Typed, Strays, RulesCalls, Texts, RulesTypeOK
<1> QED
  BY RulesInvariance, <1>1, PTL

=============================================================================
