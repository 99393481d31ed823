--------------------------- MODULE PreviewButtons ---------------------------
(***************************************************************************)
(* The buttons under the preview of one draft: how their tokens are issued *)
(* and expired (services/callback_service.py), what a tap does             *)
(* (ui/handlers/callbacks.py), and the text handler that changes the same  *)
(* draft (ui/handlers/drafts.py).                                          *)
(*                                                                         *)
(* Updates are processed in lanes (__main__.py): taps on the draft's       *)
(* buttons in its workflow lane, messages in the user's collection lane,   *)
(* one at a time in each; the two lanes run concurrently.  An action is    *)
(* the code between two awaits.  What a submission does inside is          *)
(* Submission; here it moves the row to SUBMITTING and then to an outcome. *)
(***************************************************************************)
EXTENDS Naturals, Sequences, Functions, DraftFsm

CONSTANTS MaxRevision,  \* bound on the revisions of the draft
          MaxTexts,     \* bound on text messages that change the draft; 0 is
                        \* the deployment, where they reach another handler
          MaxMishaps    \* bound on errors, crashes, missing credentials,
                        \* expired tokens and taps in the wrong lane

ASSUME ButtonsAssumption ==
  MaxRevision \in Nat \ {0} /\ MaxTexts \in Nat /\ MaxMishaps \in Nat

VARIABLES row,      \* the draft: state and revision
          tokens,   \* the callback_tokens table; the index on rendered
                    \* actions makes (revision, action) a key
          shown,    \* the buttons on the card now
          known,    \* the buttons the user has ever been shown
          active,   \* user_data: the revision text messages apply to, or 0
          task,     \* the update each lane is processing
          texts, mishaps

vars == <<row, tokens, shown, known, active, task, texts, mishaps>>
limits == <<texts, mishaps>>
card == <<shown, known>>

Absent == "absent"
Lanes == {"workflow", "collection"}
Revisions == 1 .. MaxRevision

\* "toggle" stands for the two toggle buttons, which differ in the field only.
Actions == {"confirm", "toggle", "edit", "cancel", "retry", "reconcile"}
OneShot == {"confirm", "cancel", "retry", "reconcile"}
PreviewActions == <<"confirm", "toggle", "edit", "cancel">>

Button == [revision : Revisions, action : Actions]
TokenStatus == {"none", "live", "used", "invalidated", "expired"}
Row == [state : DraftState \cup {Absent}, revision : 0 .. MaxRevision]
Token == [status : TokenStatus, state : DraftState \cup {Absent}]
NoToken == [status |-> "none", state |-> Absent]

Steps == {"idle", "token", "authorise", "consume", "act", "submit", "outcome",
          "invalidate", "store", "show", "track", "clear", "wipe", "save", "drop"}

\* An update: the button tapped (set to one of revision 1 for others), the
\* draft at hand, the token as it was read, the buttons to store and to show.
Task == [kind : {"none", "create", "tap", "text"}, pc : Steps,
         button : Button, read : Row, seen : TokenStatus,
         todo : Seq(Actions), offer : Seq(Actions)]

NoRow == [state |-> Absent, revision |-> 0]
NoButton == [revision |-> 1, action |-> "edit"]
Update(kind, pc, button, read, offer) ==
  [kind |-> kind, pc |-> pc, button |-> button, read |-> read,
   seen |-> "none", todo |-> offer, offer |-> offer]
Idle == Update("none", "idle", NoButton, NoRow, <<>>)

TypeOK ==
  /\ row \in Row
  /\ tokens \in [Revisions -> [Actions -> Token]]
  /\ known \subseteq Button /\ shown \subseteq known
  /\ active \in 0 .. MaxRevision
  /\ task \in [Lanes -> Task]
  /\ texts \in 0 .. MaxTexts /\ mishaps \in 0 .. MaxMishaps

Init ==
  /\ row = NoRow
  /\ tokens = [r \in Revisions |-> [a \in Actions |-> NoToken]]
  /\ shown = {} /\ known = {} /\ active = 0
  /\ task = [l \in Lanes |-> Idle]
  /\ texts = 0 /\ mishaps = 0

-----------------------------------------------------------------------------

At(l, pc) == task[l].pc = pc
Doing(l, action, pc) == task[l].kind = "tap" /\ At(l, pc)
                          /\ task[l].button.action = action
Tapped(l) == tokens[task[l].button.revision][task[l].button.action]

End(l) == task' = [task EXCEPT ![l] = Idle]
Step(l, pc) == task' = [task EXCEPT ![l].pc = pc]

\* Mutant of SaveAccepted: a save that does not compare revisions.
SaveAnyRevision(r) ==
  row.state = "REVIEW" \/ IsTransitionAllowed(row.state, "REVIEW")

\* The save and the compare-and-swap of a draft read at revision r.
SaveAccepted(r) ==
  /\ row.revision = r
  /\ row.state = "REVIEW" \/ IsTransitionAllowed(row.state, "REVIEW")

CasAccepted(r, s) == row.revision = r /\ IsTransitionAllowed(row.state, s)
Move(s) == row' = [state |-> s, revision |-> row.revision + 1]

\* The row has moved; the handler goes on with the draft it got back, and
\* issues the buttons `offer` for it.
MoveAnd(l, s, pc, offer) ==
  /\ Move(s)
  /\ task' = [task EXCEPT ![l].pc = pc, ![l].read = row',
                          ![l].todo = offer, ![l].offer = offer]

Mishap == mishaps < MaxMishaps /\ mishaps' = mishaps + 1 /\ UNCHANGED texts

-----------------------------------------------------------------------------
(* A draft is created, by /create or a forwarded message; its card is sent *)
(* and then gets its buttons.                                              *)

CreateDraft ==
  /\ At("collection", "idle")
  /\ row.state = Absent
  /\ row' = [state |-> "REVIEW", revision |-> 1]
  /\ task' = [task EXCEPT !["collection"] =
                Update("create", "invalidate", NoButton, row', PreviewActions)]
  /\ UNCHANGED <<tokens, card, active, limits>>

-----------------------------------------------------------------------------
(* issue_preview_buttons: expire the old tokens, store the new ones one by *)
(* one; then the handler edits the card.                                   *)

Invalidated == [r \in Revisions |-> [a \in Actions |->
                 IF tokens[r][a].status = "live"
                   THEN [tokens[r][a] EXCEPT !.status = "invalidated"]
                   ELSE tokens[r][a]]]

InvalidateOld(l) ==
  /\ At(l, "invalidate")
  /\ tokens' = Invalidated
  /\ Step(l, "store")
  /\ UNCHANGED <<row, card, active, limits>>

StoreAccepted(l) ==
  /\ row = task[l].read
  /\ tokens[row.revision][Head(task[l].todo)].status = "none"

\* Mutant of StoreButton: a button whose token is already expired.
StoreExpiredButton(l) ==
  /\ At(l, "store")
  /\ StoreAccepted(l)
  /\ tokens' = [tokens EXCEPT ![row.revision][Head(task[l].todo)] =
                  [status |-> "expired", state |-> row.state]]
  /\ task' = [task EXCEPT ![l].todo = Tail(@),
                ![l].pc = IF Len(task[l].todo) = 1 THEN "show" ELSE "store"]
  /\ UNCHANGED <<row, card, active, limits>>

\* A refused store raises: the update ends, which is Fail.
StoreButton(l) ==
  /\ At(l, "store")
  /\ StoreAccepted(l)
  /\ tokens' = [tokens EXCEPT ![row.revision][Head(task[l].todo)] =
                  [status |-> "live", state |-> row.state]]
  /\ task' = [task EXCEPT ![l].todo = Tail(@),
                ![l].pc = IF Len(task[l].todo) = 1 THEN "show" ELSE "store"]
  /\ UNCHANGED <<row, card, active, limits>>

ShowButtons(l) ==
  /\ At(l, "show")
  /\ shown' = {[revision |-> task[l].read.revision, action |-> a] :
                 a \in Range(task[l].offer)}
  /\ known' = known \cup shown'
  /\ IF task[l].kind = "create" THEN Step(l, "track") ELSE End(l)
  /\ UNCHANGED <<row, tokens, active, limits>>

\* The creating handler remembers which draft and revision the user is at.
TrackDraft(l) ==
  /\ At(l, "track")
  /\ active' = task[l].read.revision
  /\ End(l)
  /\ UNCHANGED <<row, tokens, card, limits>>

\* The card is edited to one without buttons: progress, error, result.
WipeCard(l) ==
  /\ At(l, "wipe")
  /\ shown' = {}
  /\ End(l)
  /\ UNCHANGED <<row, tokens, known, active, limits>>

-----------------------------------------------------------------------------
(* A tap: read the token, authorise, consume, act.                         *)

\* The lane of a tap is found through its token; when that read fails the
\* update is processed in the collection lane.
LaneOf(l) == \/ l = "workflow" /\ UNCHANGED limits
             \/ l = "collection" /\ Mishap

\* The first conjunct is the bound: a tap moves the row twice at most.
Tap(l, b) ==
  /\ b.revision + 2 <= MaxRevision
  /\ At(l, "idle")
  /\ b \in known
  /\ LaneOf(l)
  /\ task' = [task EXCEPT ![l] = Update("tap", "token", b, NoRow, <<>>)]
  /\ UNCHANGED <<row, tokens, card, active>>

ReadToken(l) ==
  /\ At(l, "token")
  /\ task' = [task EXCEPT ![l].pc = "authorise", ![l].seen = Tapped(l).status]
  /\ UNCHANGED <<row, tokens, card, active, limits>>

\* authorize_callback judges the token as it was read, at the present time,
\* against the draft as it is now.
Authorised(l) ==
  /\ task[l].seen = "live"
  /\ Tapped(l).status # "expired"
  /\ row.revision = task[l].button.revision
  /\ row.state = Tapped(l).state

Authorise(l) ==
  /\ At(l, "authorise")
  /\ \/ /\ Authorised(l)
        /\ task' = [task EXCEPT ![l].read = row, ![l].pc =
                      IF task[l].button.action \in OneShot THEN "consume" ELSE "act"]
     \/ ~Authorised(l) /\ End(l)
  /\ UNCHANGED <<row, tokens, card, active, limits>>

\* The update of consume_callback compares the expiry with the time of the
\* authorisation.  A token that expired since is consumed; one invalidated
\* since is consumed if the invalidation took its time later.
ConsumeMay(l) == Tapped(l).status \in {"live", "expired", "invalidated"}
ConsumeMust(l) == Tapped(l).status \in {"live", "expired"}

\* Mutant of Consume: the token is not compared and set in one statement.
ConsumeBlindly(l) ==
  /\ At(l, "consume")
  /\ tokens' = [tokens EXCEPT
       ![task[l].button.revision][task[l].button.action].status = "used"]
  /\ Step(l, "act")
  /\ UNCHANGED <<row, card, active, limits>>

Consume(l) ==
  /\ At(l, "consume")
  /\ \/ /\ ConsumeMay(l)
        /\ tokens' = [tokens EXCEPT
             ![task[l].button.revision][task[l].button.action].status = "used"]
        /\ Step(l, "act")
     \/ ~ConsumeMust(l) /\ End(l) /\ UNCHANGED tokens
  /\ UNCHANGED <<row, card, active, limits>>

Toggle(l) ==
  /\ Doing(l, "toggle", "act")
  /\ \/ /\ SaveAccepted(task[l].button.revision)
        /\ MoveAnd(l, "REVIEW", "invalidate", PreviewActions)
     \/ ~SaveAccepted(task[l].button.revision) /\ End(l) /\ UNCHANGED row
  /\ UNCHANGED <<tokens, card, active, limits>>

Edit(l) ==
  /\ Doing(l, "edit", "act")
  /\ active' = task[l].read.revision
  /\ End(l)
  /\ UNCHANGED <<row, tokens, card, limits>>

Cancel(l) ==
  /\ Doing(l, "cancel", "act")
  /\ \/ /\ CasAccepted(task[l].button.revision, "CANCELLED")
        /\ MoveAnd(l, "CANCELLED", "clear", <<>>)
     \/ /\ ~CasAccepted(task[l].button.revision, "CANCELLED")
        /\ End(l)
        /\ UNCHANGED row
  /\ UNCHANGED <<tokens, card, active, limits>>

\* invalidate_preview_tokens after a cancellation; the text handler then
\* forgets the draft, the tap's handler edits the card.
Clear(l) ==
  /\ At(l, "clear")
  /\ tokens' = Invalidated
  /\ IF task[l].kind = "text" THEN End(l) /\ active' = 0
                              ELSE Step(l, "wipe") /\ UNCHANGED active
  /\ UNCHANGED <<row, card, limits>>

\* Confirm and retry need the user's credential; without it the token is
\* spent and nothing happens.  Confirm shows its progress first.
BeginSubmission(l) ==
  /\ Doing(l, "confirm", "act") \/ Doing(l, "retry", "act")
  /\ \/ /\ Step(l, "submit")
        /\ shown' = IF task[l].button.action = "confirm" THEN {} ELSE shown
        /\ UNCHANGED limits
     \/ Mishap /\ End(l) /\ UNCHANGED shown
  /\ UNCHANGED <<row, tokens, known, active>>

\* Mutant of SubmitAccepted: submit is not told which revision was confirmed.
SubmitAnyRevision(l) == CasAccepted(row.revision, "SUBMITTING")
SubmitAccepted(l) == CasAccepted(task[l].button.revision, "SUBMITTING")

Submit(l) ==
  /\ At(l, "submit")
  /\ \/ SubmitAccepted(l) /\ MoveAnd(l, "SUBMITTING", "outcome", <<>>)
     \/ /\ ~SubmitAccepted(l)
        /\ UNCHANGED row
        /\ IF task[l].button.action = "confirm" THEN Step(l, "wipe") ELSE End(l)
  /\ UNCHANGED <<tokens, card, active, limits>>

\* Mutant of Outcome: the first outcome is written two revisions on.
OutcomeSkipsRevision(l) ==
  /\ At(l, "outcome")
  /\ row' = [state |-> "CREATED", revision |-> MaxRevision + 1]
  /\ Step(l, "wipe")
  /\ UNCHANGED <<tokens, card, active, limits>>

\* Nobody else moves a row in SUBMITTING, so the move is never refused.
\* After a first submission that did not create the issue the card offers
\* what comes next; after a retry it does not.
Outcome(l) ==
  LET first == task[l].button.action = "confirm"
  IN  /\ At(l, "outcome")
      /\ row = task[l].read
      /\ \/ MoveAnd(l, "CREATED", "wipe", <<>>)
         \/ /\ first
            /\ \/ MoveAnd(l, "SUBMISSION_RETRYABLE", "invalidate", <<"retry", "cancel">>)
               \/ MoveAnd(l, "SUBMISSION_UNKNOWN", "invalidate", <<"reconcile", "cancel">>)
         \/ /\ ~first
            /\ \E s \in {"SUBMISSION_RETRYABLE", "SUBMISSION_UNKNOWN"} :
                 MoveAnd(l, s, "wipe", <<>>)
      /\ UNCHANGED <<tokens, card, active, limits>>

\* reconcile_create takes the draft as it is; no result or several leave the
\* card, its button spent.
Reconcile(l) ==
  /\ Doing(l, "reconcile", "act")
  /\ \/ /\ row.state = "SUBMISSION_UNKNOWN"
        /\ MoveAnd(l, "CREATED", "wipe", <<>>)
     \/ End(l) /\ UNCHANGED row
  /\ UNCHANGED <<tokens, card, active, limits>>

-----------------------------------------------------------------------------
(* Text messages, in the collection lane: an edit (of the summary, or a    *)
(* toggle from the reply keyboard) or a cancellation.  The new card has no *)
(* buttons.                                                                *)

Text(pc) ==
  /\ texts < MaxTexts
  /\ active # 0 /\ active < MaxRevision
  /\ At("collection", "idle")
  /\ row.revision = active
  /\ texts' = texts + 1
  /\ task' = [task EXCEPT !["collection"] =
                Update("text", pc, NoButton, row, <<>>)]
  /\ UNCHANGED <<row, tokens, card, active, mishaps>>

TextSave(l) ==
  LET r == task[l].read.revision
  IN  /\ At(l, "save")
      /\ \/ SaveAccepted(r) /\ Move("REVIEW") /\ active' = r + 1
         \/ ~SaveAccepted(r) /\ UNCHANGED <<row, active>>
      /\ End(l)
      /\ UNCHANGED <<tokens, card, limits>>

TextCancel(l) ==
  LET r == task[l].read.revision
  IN  /\ At(l, "drop")
      /\ \/ CasAccepted(r, "CANCELLED") /\ MoveAnd(l, "CANCELLED", "clear", <<>>)
         \/ ~CasAccepted(r, "CANCELLED") /\ End(l) /\ UNCHANGED row
      /\ UNCHANGED <<tokens, card, active, limits>>

-----------------------------------------------------------------------------

\* The lifetime of a token ends.
Expire(b) ==
  /\ tokens[b.revision][b.action].status = "live"
  /\ Mishap
  /\ tokens' = [tokens EXCEPT ![b.revision][b.action].status = "expired"]
  /\ UNCHANGED <<row, card, active, task>>

\* A call to Telegram or the database raises: the update ends there.
Fail(l) ==
  /\ ~At(l, "idle")
  /\ Mishap
  /\ End(l)
  /\ UNCHANGED <<row, tokens, card, active>>

\* A restart: the tasks and user_data are gone.
Crash ==
  /\ Mishap
  /\ task' = [l \in Lanes |-> Idle]
  /\ active' = 0
  /\ UNCHANGED <<row, tokens, card>>

Handle(l) ==
  \/ InvalidateOld(l) \/ StoreButton(l) \/ ShowButtons(l) \/ TrackDraft(l)
  \/ WipeCard(l) \/ ReadToken(l) \/ Authorise(l) \/ Consume(l)
  \/ Toggle(l) \/ Edit(l) \/ Cancel(l) \/ Clear(l)
  \/ BeginSubmission(l) \/ Submit(l) \/ Outcome(l) \/ Reconcile(l)
  \/ TextSave(l) \/ TextCancel(l)

Next ==
  \/ CreateDraft \/ Text("save") \/ Text("drop") \/ Crash
  \/ \E l \in Lanes : Handle(l) \/ Fail(l)
  \/ \E l \in Lanes, b \in Button : Tap(l, b)
  \/ \E b \in Button : Expire(b)

Spec == Init /\ [][Next]_vars

-----------------------------------------------------------------------------
(* Properties.                                                             *)

Quiet == \A l \in Lanes : At(l, "idle")

\* What goes to Jira is a revision whose confirm or retry button the user was
\* shown: a change that races the tap is never submitted unseen.
SubmitsWhatWasShown ==
  [][row.state # "SUBMITTING" /\ row'.state = "SUBMITTING" =>
       \E a \in {"confirm", "retry"} :
         [revision |-> row.revision, action |-> a] \in known]_vars

\* A double tap of a one-shot button acts once, in whichever lanes the two
\* taps are processed.
DoubleTapActsOnce ==
  \A l, k \in Lanes :
    /\ task[l].kind = "tap" /\ task[k].kind = "tap"
    /\ task[l].button = task[k].button
    /\ task[l].button.action \in OneShot
    /\ {task[l].pc, task[k].pc} \cap {"token", "authorise", "consume"} = {}
    => l = k

\* The row does not move under a handler that is storing its buttons: no
\* store is refused, and no card is left with its old buttons dead.
IssuingNeverConflicts == \A l \in Lanes : At(l, "store") => StoreAccepted(l)

\* As long as nothing went wrong and nobody typed, a draft in review has a
\* card with a live confirm button for the very revision it is at.
ReviewIsConfirmable ==
  row.state = "REVIEW" /\ Quiet /\ mishaps = 0 /\ texts = 0 =>
    LET b == [revision |-> row.revision, action |-> "confirm"]
    IN  b \in shown /\ tokens[b.revision][b.action] =
                         [status |-> "live", state |-> "REVIEW"]

\* "User uses in-bot reconcile control", "Retry or cancel in-bot"
\* (workflow-db-runbook.md): as long as nothing went wrong, a draft whose
\* submission failed or is of unknown outcome has a live button to go on.
UnsettledHasAButton ==
  row.state \in {"SUBMISSION_RETRYABLE", "SUBMISSION_UNKNOWN"} /\ Quiet =>
    \E b \in shown : /\ b.revision = row.revision
                     /\ b.action \in {"retry", "reconcile"}
                     /\ tokens[b.revision][b.action].status = "live"

=============================================================================
