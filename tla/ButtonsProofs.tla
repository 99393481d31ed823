---------------------------- MODULE ButtonsProofs ----------------------------
(***************************************************************************)
(* Proofs about PreviewButtons, for any number of revisions, text messages *)
(* and mishaps.                                                            *)
(*                                                                         *)
(* The argument.  A tap that goes beyond the consumption of its token has  *)
(* set the token to used (Spent), and a used token stays used and is never *)
(* consumed again; so the second of two taps stops there.  A tap carries a *)
(* button the user was shown (TapsKnown), and a submission compares the    *)
(* row's revision with the button's.  The two sections at the end show     *)
(* that issuing is undisturbed (Order) and what a calm run keeps (AtEase). *)
(***************************************************************************)
EXTENDS PreviewButtons, TLAPS

-----------------------------------------------------------------------------
(* The inductive invariant.                                                *)

\* The fields of a task, without the types that the argument does not need.
IsTask(t) ==
  /\ t = [kind |-> t.kind, pc |-> t.pc, button |-> t.button, read |-> t.read,
          seen |-> t.seen, todo |-> t.todo, offer |-> t.offer]
  /\ t.button \in Button

States == DraftState \cup {Absent}

Shape ==
  /\ task = [l \in Lanes |-> task[l]]
  /\ \A l \in Lanes : IsTask(task[l])
  /\ tokens \in [Revisions -> [Actions -> Token]]
  /\ row.state \in States

TapsKnown ==
  \A l \in Lanes :
    /\ task[l].kind = "tap" => task[l].button \in known
    /\ At(l, "submit") => /\ task[l].kind = "tap"
                          /\ task[l].button.action \in {"confirm", "retry"}

\* Lane l acts on a one-shot button.
Acts(l) == /\ task[l].kind = "tap"
           /\ task[l].button.action \in OneShot
           /\ task[l].pc \notin {"token", "authorise", "consume"}

Spent == \A l \in Lanes : Acts(l) => Tapped(l).status = "used"

ActsOnce == \A l, k \in Lanes :
              Acts(l) /\ Acts(k) /\ task[l].button = task[k].button => l = k

Inv == Shape /\ TapsKnown /\ Spent /\ ActsOnce

-----------------------------------------------------------------------------

LEMMA InitInv == Init => Inv
  BY ButtonsAssumption
     DEF Init, Inv, Shape, TapsKnown, Spent, ActsOnce, Acts, At, Tapped, Idle, Update, NoButton, IsTask, NoRow, States,
         Button, Revisions, Actions, OneShot, Token, NoToken, TokenStatus, Lanes

\* A step that leaves the tokens, or only invalidates, stores and expires
\* some, and takes one task further without changing its button or making it
\* act, keeps the invariant.
TokensKept == /\ tokens' \in [Revisions -> [Actions -> Token]]
              /\ \A r \in Revisions, a \in Actions :
                   tokens[r][a].status = "used" => tokens'[r][a].status = "used"

Continues(l) ==
  /\ task'[l].kind = task[l].kind
  /\ task'[l].button = task[l].button
  /\ Acts(l)' => Acts(l)
  /\ task'[l].pc = "submit" => task[l].pc = "submit" \/ Doing(l, "confirm", "act")
                                 \/ Doing(l, "retry", "act")

Keeps(l) ==
  /\ IsTask(task'[l])
  /\ task'[l] = task[l] \/ task'[l] = Idle \/ Continues(l)

LEMMA KeepsInv ==
  ASSUME Inv, TokensKept, known \subseteq known', row'.state \in States,
         task' = [l \in Lanes |-> task'[l]], \A l \in Lanes : Keeps(l)
  PROVE  Inv'
<1>1. Shape'
  BY DEF Shape, Keeps, TokensKept
<1>2. TapsKnown'
  BY DEF Inv, TapsKnown, Keeps, Continues, Idle, Update, At, Doing
<1>3. ASSUME NEW l \in Lanes, Acts(l)' PROVE Acts(l) /\ task'[l].button = task[l].button
  BY <1>3 DEF Keeps, Continues, Acts, Idle, Update
<1>4. Spent'
  <2> SUFFICES ASSUME NEW l \in Lanes, Acts(l)' PROVE Tapped(l)'.status = "used"
    BY DEF Spent
  <2>1. task[l].button.revision \in Revisions /\ task[l].button.action \in Actions
    BY DEF Inv, Shape, IsTask, Button
  <2> QED
    BY <1>3, <2>1 DEF Inv, Spent, Tapped, TokensKept
<1>5. ActsOnce'
  BY <1>3 DEF Inv, ActsOnce
<1> QED
  BY <1>1, <1>2, <1>4, <1>5 DEF Inv

\* The steps of a handler that only touch its own task, the row and the card.
LEMMA HandleInv ==
  ASSUME Inv, NEW l \in Lanes, Handle(l) PROVE Inv'
<1> USE DEF At, End, Step
<1>0. /\ task = [k \in Lanes |-> task[k]] /\ \A k \in Lanes : IsTask(task[k])
      /\ tokens \in [Revisions -> [Actions -> Token]]
  BY DEF Inv, Shape
<1>1. IsTask(Idle)
  BY ButtonsAssumption DEF Idle, Update, NoButton, IsTask, Button, Revisions, Actions
<1>2. Invalidated \in [Revisions -> [Actions -> Token]]
      /\ \A r \in Revisions, a \in Actions :
           tokens[r][a].status = "used" => Invalidated[r][a].status = "used"
  BY <1>0 DEF Invalidated, Token, TokenStatus
<1>r. row'.state \in States
  <2>1. row' = row => row'.state \in States
    BY DEF Inv, Shape
  <2>2. ASSUME NEW s, Move(s), s \in States PROVE row'.state \in States
    BY <2>2 DEF Move
  <2>3. {"REVIEW", "CANCELLED", "SUBMITTING", "CREATED", "SUBMISSION_RETRYABLE",
         "SUBMISSION_UNKNOWN"} \subseteq States
    BY DEF States, DraftState, CreateStates, PublishedStates, TerminalStates
  <2>4. \/ row' = row
        \/ \E s \in {"REVIEW", "CANCELLED", "SUBMITTING", "CREATED",
                     "SUBMISSION_RETRYABLE", "SUBMISSION_UNKNOWN"} : Move(s)
    <3>1. CASE \/ InvalidateOld(l) \/ StoreButton(l) \/ ShowButtons(l)
               \/ TrackDraft(l) \/ WipeCard(l) \/ ReadToken(l) \/ Authorise(l)
               \/ Consume(l) \/ Edit(l) \/ Clear(l) \/ BeginSubmission(l)
      BY <3>1 DEF InvalidateOld, StoreButton, ShowButtons, TrackDraft, WipeCard,
         ReadToken, Authorise, Consume, Edit, Clear, BeginSubmission
    <3>2. CASE Toggle(l) \/ Cancel(l) \/ Submit(l) \/ Reconcile(l)
      BY <3>2 DEF Toggle, Cancel, Submit, Reconcile, MoveAnd
    <3>3. CASE Outcome(l) \/ TextSave(l) \/ TextCancel(l)
      BY <3>3 DEF Outcome, TextSave, TextCancel, MoveAnd
    <3> QED
      BY <3>1, <3>2, <3>3 DEF Handle
  <2> QED
    BY <2>1, <2>2, <2>3, <2>4
<1>3. UNCHANGED tokens => TokensKept
  BY <1>0 DEF TokensKept
<1>4. CASE InvalidateOld(l)
  <2>1. TokensKept
    BY <1>2, <1>4 DEF InvalidateOld, TokensKept
  <2>2. \A k \in Lanes : Keeps(k)
    BY <1>0, <1>4 DEF InvalidateOld, Keeps, IsTask, Continues, Acts
  <2> QED
    BY <1>0, <1>4, <2>1, <2>2, <1>r, KeepsInv DEF InvalidateOld, card
<1>5. CASE StoreButton(l)
  <2> DEFINE a == Head(task[l].todo)
             new == [status |-> "live", state |-> row.state]
             pc == IF Len(task[l].todo) = 1 THEN "show" ELSE "store"
             rest == Tail(task[l].todo)
  <2>0. tokens[row.revision][a].status = "none"
        /\ tokens' = [tokens EXCEPT ![row.revision][a] = new]
        /\ task' = [task EXCEPT ![l].todo = rest, ![l].pc = pc]
    BY <1>0, <1>5 DEF StoreButton, StoreAccepted
  <2>1. TokensKept
    <3>1. new \in Token
      BY DEF Inv, Shape, Token, TokenStatus, States
    <3> QED
      BY <1>0, <2>0, <3>1 DEF TokensKept
  <2>2. \A k \in Lanes : Keeps(k)
    <3>1. pc \in {"show", "store"}
      OBVIOUS
    <3> HIDE DEF pc, rest
    <3>2. task[l].pc = "store"
      BY <1>5 DEF StoreButton
    <3>3. task'[l] = [task[l] EXCEPT !.todo = rest, !.pc = pc]
          /\ \A k \in Lanes : k # l => task'[k] = task[k]
      BY <1>0, <2>0
    <3>4. /\ IsTask(task'[l]) /\ task'[l].kind = task[l].kind
          /\ task'[l].button = task[l].button /\ task'[l].pc = pc
      BY <1>0, <3>3 DEF IsTask
    <3>5. Continues(l)
      BY <3>1, <3>2, <3>4 DEF Continues, Acts
    <3> QED
      BY <1>0, <3>3, <3>4, <3>5 DEF Keeps
  <2> QED
    BY <1>0, <1>5, <2>1, <2>2, <1>r, KeepsInv DEF StoreButton, card
<1>6. CASE ShowButtons(l)
  <2>2. \A k \in Lanes : Keeps(k)
    BY <1>0, <1>1, <1>6 DEF ShowButtons, Keeps, IsTask, Continues, Acts
  <2> QED
    BY <1>0, <1>3, <1>6, <2>2, <1>r, KeepsInv DEF ShowButtons
<1>7. CASE TrackDraft(l) \/ WipeCard(l)
  <2>2. \A k \in Lanes : Keeps(k)
    BY <1>0, <1>1, <1>7 DEF TrackDraft, WipeCard, Keeps
  <2> QED
    BY <1>0, <1>3, <1>7, <2>2, <1>r, KeepsInv DEF TrackDraft, WipeCard, card
<1>8. CASE ReadToken(l) \/ Authorise(l)
  <2>2. \A k \in Lanes : Keeps(k)
    BY <1>0, <1>1, <1>8 DEF ReadToken, Authorise, Keeps, IsTask, Continues, Acts
  <2> QED
    BY <1>0, <1>3, <1>8, <2>2, <1>r, KeepsInv DEF ReadToken, Authorise, card
<1>9. CASE Consume(l)
  <2> DEFINE b == task[l].button
  <2>0. b.revision \in Revisions /\ b.action \in Actions
    BY <1>0 DEF IsTask, Button
  <2>1. CASE End(l) /\ UNCHANGED tokens
    <3>1. \A k \in Lanes : Keeps(k)
      BY <1>0, <1>1, <2>1 DEF Keeps
    <3> QED
      BY <1>0, <1>3, <1>9, <2>1, <3>1, <1>r, KeepsInv DEF Consume, card
  <2>2. CASE /\ ConsumeMay(l) /\ Step(l, "act")
             /\ tokens' = [tokens EXCEPT ![b.revision][b.action].status = "used"]
    <3>1. tokens' \in [Revisions -> [Actions -> Token]]
          /\ tokens'[b.revision][b.action].status = "used"
          /\ \A r \in Revisions, a \in Actions :
               tokens[r][a].status = "used" => tokens'[r][a].status = "used"
      <4> DEFINE spent == [tokens[b.revision][b.action] EXCEPT !.status = "used"]
      <4>1. spent \in Token /\ spent.status = "used"
        <5>1. tokens[b.revision][b.action] \in Token /\ "used" \in TokenStatus
          BY <1>0, <2>0 DEF TokenStatus
        <5> QED
          BY <5>1 DEF Token
      <4>2. tokens' = [tokens EXCEPT ![b.revision] = [@ EXCEPT ![b.action] = spent]]
        BY <2>2
      <4> HIDE DEF spent, b
      <4> QED
        BY <1>0, <2>0, <4>1, <4>2
    <3>2. /\ task' = [k \in Lanes |-> task'[k]]
          /\ \A k \in Lanes : /\ IsTask(task'[k])
                              /\ task'[k].button = task[k].button
                              /\ task'[k].kind = task[k].kind
                              /\ k # l => task'[k] = task[k]
                              /\ task'[k].pc = "submit" => k # l
      <4>1. task' = [task EXCEPT ![l].pc = "act"]
        BY <2>2
      <4> QED
        BY <1>0, <4>1 DEF IsTask
    <3>3. ASSUME NEW k \in Lanes, Acts(k)', k # l PROVE Acts(k)
      BY <3>2, <3>3 DEF Acts
    <3>4. ASSUME NEW k \in Lanes, Acts(k) PROVE task[k].button # b
      BY <2>2, <3>4 DEF Inv, Spent, Tapped, ConsumeMay
    <3>5. Spent'
      <4> SUFFICES ASSUME NEW k \in Lanes, Acts(k)' PROVE Tapped(k)'.status = "used"
        BY DEF Spent
      <4>1. task[k].button.revision \in Revisions /\ task[k].button.action \in Actions
        BY <1>0 DEF IsTask, Button
      <4> QED
        BY <3>1, <3>2, <3>3, <4>1 DEF Inv, Spent, Tapped
    <3>6. ActsOnce'
      BY <3>2, <3>3, <3>4 DEF Inv, ActsOnce
    <3>7. Shape' /\ TapsKnown'
      BY <1>9, <1>r, <3>1, <3>2 DEF Consume, card, Inv, Shape, TapsKnown
    <3> QED
      BY <3>5, <3>6, <3>7 DEF Inv
  <2> QED
    BY <1>9, <2>1, <2>2 DEF Consume
<1>10. CASE Toggle(l) \/ Cancel(l)
  <2>2. \A k \in Lanes : Keeps(k)
    BY <1>0, <1>1, <1>10 DEF Toggle, Cancel, MoveAnd, Keeps, IsTask, Continues, Acts, Doing
  <2> QED
    BY <1>0, <1>3, <1>10, <2>2, <1>r, KeepsInv DEF Toggle, Cancel, MoveAnd, card
<1>11. CASE Edit(l)
  BY <1>0, <1>1, <1>3, <1>11, <1>r, KeepsInv DEF Edit, Keeps, card
<1>12. CASE Clear(l)
  <2>1. TokensKept
    BY <1>2, <1>12 DEF Clear, TokensKept
  <2>2. \A k \in Lanes : Keeps(k)
    BY <1>0, <1>1, <1>12 DEF Clear, Keeps, IsTask, Continues, Acts
  <2> QED
    BY <1>0, <1>12, <2>1, <2>2, <1>r, KeepsInv DEF Clear, card
<1>13. CASE BeginSubmission(l)
  <2>2. \A k \in Lanes : Keeps(k)
    BY <1>0, <1>1, <1>13 DEF BeginSubmission, Keeps, IsTask, Continues, Acts, Doing
  <2> QED
    BY <1>0, <1>3, <1>13, <2>2, <1>r, KeepsInv DEF BeginSubmission
<1>14. CASE Submit(l) \/ Outcome(l) \/ Reconcile(l)
  <2>2. \A k \in Lanes : Keeps(k)
    BY <1>0, <1>1, <1>14
       DEF Submit, Outcome, Reconcile, MoveAnd, Keeps, IsTask, Continues, Acts, Doing
  <2> QED
    BY <1>0, <1>3, <1>14, <2>2, <1>r, KeepsInv DEF Submit, Outcome, Reconcile, MoveAnd, card
<1>15. CASE TextSave(l) \/ TextCancel(l)
  <2>2. \A k \in Lanes : Keeps(k)
    BY <1>0, <1>1, <1>15 DEF TextSave, TextCancel, MoveAnd, Keeps, IsTask, Continues, Acts
  <2> QED
    BY <1>0, <1>3, <1>15, <2>2, <1>r, KeepsInv DEF TextSave, TextCancel, MoveAnd, card
<1> QED
  BY <1>4, <1>5, <1>6, <1>7, <1>8, <1>9, <1>10, <1>11, <1>12, <1>13, <1>14, <1>15
     DEF Handle

\* The steps that begin, end or fail an update, and the expiry of a token.
LEMMA OtherInv ==
  ASSUME Inv,
         \/ CreateDraft \/ Text("save") \/ Text("drop") \/ Crash
         \/ \E l \in Lanes : Fail(l)
         \/ \E b \in Button : Expire(b)
  PROVE  Inv'
<1> USE DEF At, End, card
<1>0. /\ task = [k \in Lanes |-> task[k]] /\ \A k \in Lanes : IsTask(task[k])
      /\ tokens \in [Revisions -> [Actions -> Token]] /\ row.state \in States
  BY DEF Inv, Shape
<1>1. IsTask(Idle)
  BY ButtonsAssumption DEF Idle, Update, NoButton, IsTask, Button, Revisions, Actions
<1>2. UNCHANGED tokens => TokensKept
  BY <1>0 DEF TokensKept
<1>4. CASE CreateDraft
  <2>1. "collection" \in Lanes /\ row'.state \in States
    BY <1>4 DEF CreateDraft, Lanes, States, DraftState, CreateStates
  <2>2. UNCHANGED <<tokens, known>>
    BY <1>4 DEF CreateDraft
  <2>3. /\ task'["collection"].kind = "create" /\ task'["collection"].pc = "invalidate"
        /\ IsTask(task'["collection"])
        /\ task' = [k \in Lanes |-> task'[k]]
        /\ \A k \in Lanes : k # "collection" => task'[k] = task[k]
    <3> DEFINE new == Update("create", "invalidate", NoButton, row', PreviewActions)
    <3>1. task' = [task EXCEPT !["collection"] = new]
      BY <1>4 DEF CreateDraft
    <3>3. new.kind = "create" /\ new.pc = "invalidate" /\ IsTask(new)
      BY <1>1 DEF Update, Idle, IsTask
    <3> HIDE DEF new
    <3> QED
      BY <1>0, <2>1, <3>1, <3>3
  <2> QED
    BY <1>0, <2>1, <2>2, <2>3 DEF Inv, Shape, TapsKnown, Spent, ActsOnce, Acts, Tapped
<1>5. CASE Text("save") \/ Text("drop")
  <2>1. "collection" \in Lanes
    BY DEF Lanes
  <2>2. UNCHANGED <<row, tokens, known>>
    BY <1>5 DEF Text
  <2>3. /\ task'["collection"].kind = "text" /\ task'["collection"].pc \in {"save", "drop"}
        /\ IsTask(task'["collection"])
        /\ task' = [k \in Lanes |-> task'[k]]
        /\ \A k \in Lanes : k # "collection" => task'[k] = task[k]
    <3>1. PICK pc \in {"save", "drop"} : Text(pc)
      BY <1>5
    <3> DEFINE new == Update("text", pc, NoButton, row, <<>>)
    <3>2. task' = [task EXCEPT !["collection"] = new]
      BY <3>1 DEF Text
    <3>4. new.kind = "text" /\ new.pc = pc /\ IsTask(new)
      BY <1>1 DEF Update, Idle, IsTask
    <3> HIDE DEF new
    <3> QED
      BY <1>0, <2>1, <3>1, <3>2, <3>4
  <2> QED
    BY <1>0, <2>1, <2>2, <2>3 DEF Inv, Shape, TapsKnown, Spent, ActsOnce, Acts, Tapped
<1>6. CASE Crash \/ \E l \in Lanes : Fail(l)
  <2>1. \A k \in Lanes : Keeps(k)
    BY <1>0, <1>1, <1>6 DEF Crash, Fail, Keeps
  <2>2. task' = [k \in Lanes |-> task'[k]] /\ UNCHANGED <<row, tokens, known>>
    BY <1>0, <1>6 DEF Crash, Fail
  <2> QED
    BY <1>0, <1>2, <2>1, <2>2, KeepsInv
<1>7. ASSUME NEW b \in Button, Expire(b) PROVE Inv'
  <2>1. b.revision \in Revisions /\ b.action \in Actions
    BY DEF Button
  <2>2. TokensKept
    <3> DEFINE gone == [tokens[b.revision][b.action] EXCEPT !.status = "expired"]
    <3>1. gone \in Token /\ tokens[b.revision][b.action].status = "live"
      <4>1. tokens[b.revision][b.action] \in Token /\ "expired" \in TokenStatus
        BY <1>0, <2>1 DEF TokenStatus
      <4> QED
        BY <1>7, <4>1 DEF Token, Expire
    <3>2. tokens' = [tokens EXCEPT ![b.revision] = [@ EXCEPT ![b.action] = gone]]
      BY <1>7 DEF Expire
    <3> HIDE DEF gone
    <3> QED
      BY <1>0, <2>1, <3>1, <3>2 DEF TokensKept
  <2>3. \A k \in Lanes : Keeps(k)
    BY <1>0, <1>7 DEF Expire, Keeps
  <2> QED
    BY <1>0, <1>7, <2>2, <2>3, KeepsInv DEF Expire
<1> QED
  BY <1>4, <1>5, <1>6, <1>7

LEMMA TapInv ==
  ASSUME Inv, NEW l \in Lanes, NEW b \in Button, Tap(l, b) PROVE Inv'
<1>1. /\ task' = [k \in Lanes |-> task'[k]]
      /\ \A k \in Lanes : k # l => task'[k] = task[k]
      /\ task'[l].kind = "tap" /\ task'[l].pc = "token" /\ task'[l].button = b
      /\ IsTask(task'[l])
  BY DEF Tap, Inv, Shape, IsTask, Update, NoRow
<1>2. b \in known /\ UNCHANGED <<row, tokens, known>>
  BY DEF Tap, card
<1> QED
  BY <1>1, <1>2 DEF Inv, Shape, TapsKnown, Spent, ActsOnce, Acts, Tapped, At

\* Taps carry buttons the user was shown, and what acts on a one-shot button
\* has its token marked as used: kept by every step.
THEOREM ButtonsInvariance == Spec => []Inv
<1>1. ASSUME Inv, [Next]_vars PROVE Inv'
  <2>1. CASE UNCHANGED vars
    BY <1>1, <2>1 DEF vars, card, Inv, Shape, TapsKnown, Spent, ActsOnce, Acts, Tapped, At
  <2>2. CASE Next
    BY <1>1, <2>2, HandleInv, OtherInv, TapInv DEF Next
  <2> QED
    BY <1>1, <2>1, <2>2
<1> QED
  BY <1>1, InitInv, PTL DEF Spec

\* However often and in whichever lane a one-shot button is tapped, at most one
\* update acts on it.
THEOREM DoubleTapActsOnceHolds == Spec => []DoubleTapActsOnce
<1>1. Inv => DoubleTapActsOnce
  BY DEF Inv, ActsOnce, Acts, DoubleTapActsOnce
<1> QED
  BY <1>1, ButtonsInvariance, PTL

\* Only a revision whose confirm or retry button was shown is ever submitted.
THEOREM SubmitsWhatWasShownHolds == Spec => SubmitsWhatWasShown
<1> DEFINE Shown == row.state # "SUBMITTING" /\ row'.state = "SUBMITTING" =>
                      \E a \in {"confirm", "retry"} :
                        [revision |-> row.revision, action |-> a] \in known
<1>1. ASSUME Inv, [Next]_vars PROVE Shown
  <2> SUFFICES ASSUME row.state # "SUBMITTING", row'.state = "SUBMITTING"
               PROVE  \E a \in {"confirm", "retry"} :
                        [revision |-> row.revision, action |-> a] \in known
    OBVIOUS
  <2>1. row' # row /\ Next
    BY <1>1 DEF vars
  <2>2. PICK l \in Lanes : Handle(l)
    <3>1. ~CreateDraft
      BY DEF CreateDraft
    <3>2. ~Text("save") /\ ~Text("drop") /\ ~Crash
      BY <2>1 DEF Text, Crash
    <3>3. /\ \A k \in Lanes : ~Fail(k)
          /\ \A k \in Lanes, b \in Button : ~Tap(k, b)
          /\ \A b \in Button : ~Expire(b)
      BY <2>1 DEF Fail, Tap, Expire
    <3> QED
      BY <2>1, <3>1, <3>2, <3>3 DEF Next
  <2>3. Submit(l) /\ SubmitAccepted(l)
    <3>1. ~InvalidateOld(l) /\ ~ShowButtons(l) /\ ~TrackDraft(l)
      BY <2>1 DEF InvalidateOld, ShowButtons, TrackDraft
    <3>s. ~StoreButton(l)
      BY <2>1 DEF StoreButton
    <3>a. ~WipeCard(l) /\ ~ReadToken(l) /\ ~Authorise(l) /\ ~Consume(l)
      BY <2>1 DEF WipeCard, ReadToken, Authorise, Consume
    <3>b. ~Edit(l) /\ ~Clear(l) /\ ~BeginSubmission(l)
      BY <2>1 DEF Edit, Clear, BeginSubmission
    <3>2. /\ Toggle(l) => Move("REVIEW") \/ row' = row
          /\ Cancel(l) => Move("CANCELLED") \/ row' = row
          /\ Reconcile(l) => Move("CREATED") \/ row' = row
      BY DEF Toggle, Cancel, Reconcile, MoveAnd
    <3>m. ~Move("REVIEW") /\ ~Move("CANCELLED") /\ ~Move("CREATED")
      BY DEF Move
    <3>o. ~Outcome(l)
      <4>1. Outcome(l) => \E s \in {"CREATED", "SUBMISSION_RETRYABLE",
                                     "SUBMISSION_UNKNOWN"} : Move(s)
        BY DEF Outcome, MoveAnd
      <4>2. ASSUME NEW s \in {"CREATED", "SUBMISSION_RETRYABLE", "SUBMISSION_UNKNOWN"},
                   Move(s)
            PROVE  FALSE
        BY <4>2 DEF Move
      <4> QED
        BY <4>1, <4>2
    <3>3. ~TextSave(l) /\ ~TextCancel(l)
      BY <2>1 DEF TextSave, TextCancel, MoveAnd, Move
    <3>4. Submit(l)
      BY <2>1, <2>2, <3>1, <3>s, <3>a, <3>b, <3>2, <3>m, <3>3, <3>o DEF Handle
    <3> QED
      BY <2>1, <3>4 DEF Submit
  <2>4. /\ task[l].button \in known /\ task[l].button \in Button
        /\ task[l].button.action \in {"confirm", "retry"}
    BY <1>1, <2>3 DEF Inv, Shape, IsTask, TapsKnown, Submit, At
  <2>5. row.revision = task[l].button.revision
    BY <2>3 DEF SubmitAccepted, CasAccepted
  <2>6. task[l].button = [revision |-> row.revision, action |-> task[l].button.action]
    BY <2>4, <2>5 DEF Button
  <2> QED
    BY <2>4, <2>6
<1>2. [][Shown]_vars => SubmitsWhatWasShown
  BY PTL DEF SubmitsWhatWasShown
<1> QED
  BY <1>1, ButtonsInvariance, PTL DEF Spec, SubmitsWhatWasShown

-----------------------------------------------------------------------------
(* Issuing is undisturbed.  Whoever has moved the row and issues buttons   *)
(* for it is alone with the new revision: no button of it has been shown,  *)
(* no text applies to it, no other update has read it (Alone).  Every move *)
(* compares the revision with one of the three, except that of             *)
(* reconcile, which is safe because SUBMISSION_UNKNOWN is entered once     *)
(* (Reconciling).                                                          *)

Reached == {Absent, "REVIEW", "CANCELLED", "SUBMITTING", "CREATED",
            "SUBMISSION_RETRYABLE", "SUBMISSION_UNKNOWN"}

\* The states for which a button with action a is issued.
Origin(a) ==
  {s \in Reached : \/ s = "REVIEW" /\ a \in {"confirm", "toggle", "edit", "cancel"}
                   \/ s = "SUBMISSION_RETRYABLE" /\ a \in {"retry", "cancel"}
                   \/ s = "SUBMISSION_UNKNOWN" /\ a \in {"reconcile", "cancel"}}

OfferFor(s) == CASE s = "REVIEW" -> PreviewActions
                 [] s = "SUBMISSION_RETRYABLE" -> <<"retry", "cancel">>
                 [] s = "SUBMISSION_UNKNOWN" -> <<"reconcile", "cancel">>
Offering == {"REVIEW", "SUBMISSION_RETRYABLE", "SUBMISSION_UNKNOWN"}

TapSteps == {"token", "authorise", "consume", "act", "submit", "outcome"}
IssuingSteps == {"invalidate", "store", "show"}
OwningSteps == IssuingSteps \cup {"outcome"}
Issuing(l) == task[l].pc \in IssuingSteps
Owning(l) == task[l].pc \in OwningSteps

Past ==
  /\ row.state \in Reached
  /\ row.state = Absent <=> row.revision = 0
  /\ row.state = Absent => Quiet
  /\ active <= row.revision
  /\ \A b \in known : b.revision <= row.revision
  /\ \A l \in Lanes : task[l].read.revision <= row.revision

TokensPast == \A r \in Revisions, a \in Actions :
                /\ tokens[r][a].status # "none" => r <= row.revision
                /\ tokens[r][a].state \in Origin(a) \cup {Absent}

Place(l) ==
  /\ task[l].pc \in TapSteps => task[l].kind = "tap"
  /\ task[l].kind = "tap" => task[l].button.revision + 2 <= MaxRevision
  /\ task[l].pc \in {"save", "drop"} => task[l].read.revision < MaxRevision
  /\ At(l, "outcome") => /\ row.state = "SUBMITTING"
                         /\ row.revision = task[l].button.revision + 1
  /\ At(l, "clear") => row.state = "CANCELLED"

Reconciling(l) ==
  Doing(l, "reconcile", "consume") \/ Doing(l, "reconcile", "act") =>
    \/ row.state = "SUBMISSION_UNKNOWN" /\ row.revision = task[l].button.revision
    \/ row.state = "CREATED"

Alone(l) ==
  /\ row = task[l].read
  /\ active < row.revision
  /\ \A b \in known : b.revision < row.revision
  /\ \A k \in Lanes : k # l => task[k].read.revision < row.revision

\* The number of buttons stored so far.
Stored(l) == Len(task[l].offer) - Len(task[l].todo)

Progress(l) ==
  /\ row.state \in Offering /\ task[l].offer = OfferFor(row.state)
  /\ At(l, "invalidate") => task[l].todo = task[l].offer
  /\ At(l, "store") => Len(task[l].todo) # 0
  /\ At(l, "show") => Len(task[l].todo) = 0
  /\ Len(task[l].todo) <= Len(task[l].offer)
  /\ \A i \in 1 .. Len(task[l].todo) :
       /\ task[l].todo[i] = task[l].offer[Stored(l) + i]
       /\ tokens[row.revision][task[l].todo[i]].status = "none"

Fits(l) == /\ Place(l) /\ Reconciling(l)
           /\ Owning(l) => Alone(l)
           /\ Issuing(l) => Progress(l)

Order == Past /\ TokensPast /\ \A l \in Lanes : Fits(l)


\* A token changes its status only, and never to or from none.
TokensSame == /\ tokens' \in [Revisions -> [Actions -> Token]]
              /\ \A r \in Revisions, a \in Actions :
                   /\ tokens'[r][a].status = "none" <=> tokens[r][a].status = "none"
                   /\ tokens'[r][a].state = tokens[r][a].state

LimitsType == texts' \in 0 .. MaxTexts /\ mishaps' \in 0 .. MaxMishaps

\* An update ends, or goes on as t without taking the row.
Goes(l, t) ==
  \/ t = Idle
  \/ /\ row.state # Absent
     /\ t.pc \notin OwningSteps
     /\ \/ t.read = task[l].read \/ t.read = NoRow
        \/ t.read = row /\ \A k \in Lanes : ~Owning(k)
     /\ Place(l)' /\ Reconciling(l)'

LEMMA IdleTask == Idle \in Task
  BY ButtonsAssumption
     DEF Idle, Update, NoButton, NoRow, Task, Steps, Button, Revisions, Actions, Row,
         TokenStatus

LEMMA StaysOrder ==
  ASSUME TypeOK, Order, NEW l \in Lanes, NEW t \in Task,
         task' = [task EXCEPT ![l] = t], Goes(l, t),
         row' = row, known' = known, shown' \subseteq known',
         TokensSame, LimitsType, active' \in {0, active, task[l].read.revision}
  PROVE  TypeOK' /\ Order'
<1>0. /\ task \in [Lanes -> Task] /\ task' \in [Lanes -> Task] /\ task'[l] = t
      /\ \A k \in Lanes : k # l => task'[k] = task[k]
  BY DEF TypeOK
<1>1. row \in Row /\ row.revision \in 0 .. MaxRevision /\ active \in 0 .. MaxRevision
      /\ \A k \in Lanes : task[k].read.revision \in 0 .. MaxRevision
  BY <1>0 DEF TypeOK, Row, Task
<1>2. Idle.pc = "idle" /\ Idle.read.revision = 0 /\ Idle.kind = "none" /\ NoRow.revision = 0
  BY DEF Idle, Update, NoRow
<1>3. t.read.revision <= row.revision
  BY <1>0, <1>1, <1>2 DEF Goes, Order, Past
<1>4. TypeOK'
  BY <1>0, <1>1, ButtonsAssumption DEF TypeOK, TokensSame, LimitsType
<1>5. Past'
  <2>1. row.state = Absent => Quiet'
    BY <1>0, <1>2 DEF Order, Past, Quiet, At, Goes
  <2>2. active' <= row.revision
    BY <1>1 DEF Order, Past
  <2> QED
    BY <1>0, <1>3, <2>1, <2>2 DEF Order, Past
<1>6. TokensPast'
  BY DEF Order, TokensPast, TokensSame
<1>7. ASSUME NEW k \in Lanes PROVE Fits(k)'
  <2>1. CASE k = l
    <3>1. t.pc \notin OwningSteps
      BY <1>2 DEF Goes, OwningSteps, IssuingSteps
    <3>2. Place(l)' /\ Reconciling(l)'
      BY <1>0, <1>2 DEF Goes, Place, Reconciling, At, Doing, TapSteps
    <3> QED
      BY <1>0, <2>1, <3>1, <3>2 DEF Fits, Owning, Issuing, OwningSteps
  <2>2. CASE k # l
    <3>1. Fits(k) /\ task'[k] = task[k]
      BY <1>0, <2>2 DEF Order
    <3>2. Place(k)' /\ Reconciling(k)'
      BY <3>1 DEF Fits, Place, Reconciling, At, Doing
    <3>3. ASSUME Owning(k) PROVE Alone(k)'
      <4>1. Alone(k) /\ task[l].read.revision < row.revision
        BY <2>2, <3>1, <3>3 DEF Fits, Alone
      <4>2. t.read.revision < row.revision
        BY <1>0, <1>1, <1>2, <3>3, <4>1 DEF Goes
      <4>3. active' < row.revision
        BY <1>1, <4>1 DEF Alone
      <4> QED
        BY <1>0, <3>1, <4>1, <4>2, <4>3 DEF Alone
    <3>4. ASSUME Issuing(k) PROVE Progress(k)'
      <4>1. Progress(k) /\ row.revision \in Revisions /\ task[k].todo \in Seq(Actions)
        <5>1. row.revision # 0
          BY <3>1, <3>4 DEF Order, Past, Fits, Progress, Offering, Absent
        <5> QED
          BY <1>0, <1>1, <3>1, <3>4, <5>1 DEF Revisions, Fits, Task
      <4>2. \A i \in 1 .. Len(task[k].todo) : task[k].todo[i] \in Actions
        BY <4>1
      <4>3. \A i \in 1 .. Len(task[k].todo) :
              tokens'[row.revision][task[k].todo[i]].status = "none"
        BY <4>1, <4>2 DEF Progress, TokensSame
      <4>4. Stored(k)' = Stored(k) /\ At(k, "invalidate")' = At(k, "invalidate")
            /\ At(k, "store")' = At(k, "store") /\ At(k, "show")' = At(k, "show")
        BY <3>1 DEF Stored, At
      <4>5. Progress(k)
        BY <4>1
      <4> QED
        BY <3>1, <4>3, <4>4, <4>5 DEF Progress
    <3> QED
      BY <3>1, <3>2, <3>3, <3>4 DEF Fits, Owning, Issuing
  <2> QED
    BY <2>1, <2>2
<1> QED
  BY <1>4, <1>5, <1>6, <1>7 DEF Order

\* The row is moved to s, and the update ends or goes on as t.
MovesTo(l, t, s) ==
  /\ row' = [state |-> s, revision |-> row.revision + 1]
  /\ \/ t = Idle /\ active' \in {active, row.revision + 1}
     \/ /\ active' = active
        /\ t.read = row' /\ t.todo = t.offer
        /\ t.kind = "tap" => t.button.revision + 2 <= MaxRevision
        /\ \/ t.pc = "wipe"
           \/ t.pc = "clear" /\ s = "CANCELLED"
           \/ t.pc = "invalidate" /\ s \in Offering /\ t.offer = OfferFor(s)
           \/ /\ t.pc = "outcome" /\ s = "SUBMITTING" /\ t.kind = "tap"
              /\ row.revision = t.button.revision

LEMMA MovesOrder ==
  ASSUME TypeOK, Order, NEW l \in Lanes, NEW t \in Task, NEW s \in Reached \ {Absent},
         task' = [task EXCEPT ![l] = t], MovesTo(l, t, s),
         row.revision < MaxRevision, row.state \notin {"CANCELLED", "CREATED"},
         row.state = "SUBMISSION_UNKNOWN" => s = "CREATED",
         \A k \in Lanes : k # l => ~Owning(k),
         tokens' = tokens, shown' = shown, known' = known, LimitsType
  PROVE  TypeOK' /\ Order'
<1>0. /\ task \in [Lanes -> Task] /\ task' \in [Lanes -> Task] /\ task'[l] = t
      /\ \A k \in Lanes : k # l => task'[k] = task[k]
  BY DEF TypeOK
<1>1. row \in Row /\ row.revision \in 0 .. MaxRevision /\ active \in 0 .. MaxRevision
      /\ MaxRevision \in Nat
      /\ \A k \in Lanes : task[k].read.revision \in 0 .. MaxRevision
      /\ \A b \in known : b.revision \in 1 .. MaxRevision
  BY <1>0, ButtonsAssumption DEF TypeOK, Row, Task, Button, Revisions
<1>2. Idle.pc = "idle" /\ Idle.read.revision = 0 /\ Idle.kind = "none"
  BY DEF Idle, Update, NoRow
<1>3. row' \in Row /\ row'.state = s /\ row'.revision = row.revision + 1
  <2>1. s \in DraftState
    BY DEF Reached, DraftState, CreateStates, PublishedStates, TerminalStates
  <2> QED
    BY <1>1, <2>1 DEF MovesTo, Row
<1>4. TypeOK'
  BY <1>0, <1>1, <1>3 DEF TypeOK, LimitsType, MovesTo
<1>5. Past'
  <2>1. t.read.revision <= row'.revision /\ active' <= row'.revision
    BY <1>1, <1>2, <1>3 DEF MovesTo, Order, Past
  <2>2. \A k \in Lanes : task'[k].read.revision <= row'.revision
    BY <1>0, <1>1, <1>3, <2>1 DEF Order, Past
  <2>3. \A b \in known : b.revision <= row'.revision
    BY <1>1, <1>3 DEF Order, Past
  <2> QED
    BY <1>1, <1>3, <2>1, <2>2, <2>3 DEF Past
<1>6. TokensPast' /\ \A a \in Actions : tokens[row'.revision][a].status = "none"
  BY <1>1, <1>3 DEF Order, TokensPast, Revisions
<1>7. ASSUME NEW k \in Lanes PROVE Fits(k)'
  <2>1. CASE k = l
    <3>1. Place(l)' /\ Reconciling(l)'
      BY <1>0, <1>1, <1>2, <1>3 DEF MovesTo, Place, Reconciling, At, Doing, TapSteps
    <3>2. ASSUME t # Idle PROVE Alone(l)'
      <4>1. active' < row'.revision /\ t.read = row'
        BY <1>1, <1>3, <3>2 DEF MovesTo, Order, Past
      <4>2. \A b \in known : b.revision < row'.revision
        BY <1>1, <1>3 DEF Order, Past
      <4>3. \A j \in Lanes : j # l => task[j].read.revision < row'.revision
        BY <1>1, <1>3 DEF Order, Past
      <4> QED
        BY <1>0, <4>1, <4>2, <4>3 DEF Alone
    <3>3. ASSUME t.pc \in IssuingSteps PROVE Progress(l)'
      <4>1. t.pc = "invalidate" /\ s \in Offering /\ t.offer = OfferFor(s) /\ t.todo = t.offer
        BY <1>2, <3>3 DEF MovesTo, IssuingSteps
      <4>2. t.todo \in Seq(Actions)
        BY DEF Task
      <4>3. Len(t.todo) = Len(t.offer) /\ Stored(l)' = 0
        BY <1>0, <4>1, <4>2 DEF Stored
      <4>4. \A i \in 1 .. Len(t.todo) : t.todo[i] = t.offer[0 + i] /\ t.todo[i] \in Actions
        BY <4>1, <4>2
      <4>5. \A i \in 1 .. Len(t.todo) : tokens[row'.revision][t.todo[i]].status = "none"
        BY <1>6, <4>4
      <4> QED
        BY <1>0, <1>3, <4>1, <4>2, <4>3, <4>4, <4>5 DEF Progress, At
    <3> QED
      BY <1>0, <1>2, <2>1, <3>1, <3>2, <3>3 DEF Fits, Owning, Issuing, OwningSteps, IssuingSteps
  <2>2. CASE k # l
    <3>1. Fits(k) /\ task'[k] = task[k] /\ ~Owning(k)
      BY <1>0, <2>2 DEF Order
    <3>2. Place(k)'
      BY <1>3, <3>1 DEF Fits, Place, At, Owning, OwningSteps
    <3>3. Reconciling(k)'
      BY <1>3, <3>1 DEF Fits, Reconciling, At, Doing
    <3> QED
      BY <3>1, <3>2, <3>3 DEF Fits, Owning, Issuing, OwningSteps
  <2> QED
    BY <2>1, <2>2
<1> QED
  BY <1>4, <1>5, <1>6, <1>7 DEF Order

LEMMA OfferFacts ==
  ASSUME NEW s \in Offering
  PROVE  /\ OfferFor(s) \in Seq(Actions) /\ Len(OfferFor(s)) # 0
         /\ \A i \in 1 .. Len(OfferFor(s)) : s \in Origin(OfferFor(s)[i])
         /\ \A i, j \in 1 .. Len(OfferFor(s)) :
              OfferFor(s)[i] = OfferFor(s)[j] => i = j
<1>1. CASE s = "REVIEW"
  BY <1>1 DEF OfferFor, PreviewActions, Actions, Origin, Reached
<1>2. CASE s = "SUBMISSION_RETRYABLE"
  BY <1>2 DEF OfferFor, Actions, Origin, Reached
<1>3. CASE s = "SUBMISSION_UNKNOWN"
  BY <1>3 DEF OfferFor, Actions, Origin, Reached
<1> QED
  BY <1>1, <1>2, <1>3 DEF Offering

\* The update that issues is alone with the row, so what it stores and shows
\* disturbs nobody.
LEMMA IssuesOrder ==
  ASSUME TypeOK, Order, NEW l \in Lanes, NEW t \in Task, Issuing(l),
         task' = [task EXCEPT ![l] = t], t.read = task[l].read \/ t = Idle,
         t.kind = "tap" => t.kind = task[l].kind /\ t.button = task[l].button,
         t.pc \in {"store", "show", "track", "idle"},
         t.pc \in {"store", "show"} => known' = known /\ Progress(l)',
         row' = row, active' = active, LimitsType,
         known' \subseteq Button, shown' \subseteq known',
         \A b \in known' : b \in known \/ b.revision = row.revision,
         tokens' \in [Revisions -> [Actions -> Token]], TokensPast'
  PROVE  TypeOK' /\ Order'
<1>0. /\ task \in [Lanes -> Task] /\ task' \in [Lanes -> Task] /\ task'[l] = t
      /\ \A k \in Lanes : k # l => task'[k] = task[k]
  BY DEF TypeOK
<1>1. row \in Row /\ row.revision \in 0 .. MaxRevision /\ active \in 0 .. MaxRevision
      /\ \A k \in Lanes : task[k].read.revision \in 0 .. MaxRevision
  BY <1>0 DEF TypeOK, Row, Task
<1>2. Idle.pc = "idle" /\ Idle.read.revision = 0 /\ Idle.kind = "none"
  BY DEF Idle, Update, NoRow
<1>3. Fits(l) /\ Alone(l) /\ row.state # Absent
  BY DEF Order, Fits, Owning, Issuing, OwningSteps, Progress, Offering, Absent
<1>4. TypeOK'
  BY <1>0 DEF TypeOK, LimitsType
<1>5. Past'
  BY <1>0, <1>1, <1>2, <1>3 DEF Order, Past
<1>6. ASSUME NEW k \in Lanes PROVE Fits(k)'
  <2>1. CASE k = l
    <3>1. Place(l)' /\ Reconciling(l)'
      BY <1>0, <1>2, <1>3 DEF Fits, Place, Reconciling, At, Doing, TapSteps
    <3>2. ASSUME t.pc \in {"store", "show"} PROVE Alone(l)'
      BY <1>0, <1>2, <1>3, <3>2 DEF Alone
    <3> QED
      BY <1>0, <1>2, <2>1, <3>1, <3>2 DEF Fits, Owning, Issuing, OwningSteps, IssuingSteps
  <2>2. CASE k # l
    <3>1. Fits(k) /\ task'[k] = task[k]
      BY <1>0, <2>2 DEF Order
    <3>2. ~Owning(k)
      <4>1. Owning(k) => task[l].read.revision < row.revision
        BY <2>2, <3>1 DEF Fits, Alone
      <4> QED
        BY <1>1, <1>3, <4>1 DEF Alone
    <3> QED
      BY <3>1, <3>2 DEF Fits, Place, Reconciling, At, Doing, Owning, Issuing, OwningSteps
  <2> QED
    BY <2>1, <2>2
<1> QED
  BY <1>4, <1>5, <1>6 DEF Order

LEMMA InvalidatedSame ==
  ASSUME TypeOK, tokens' = Invalidated PROVE TokensSame
<1>1. ASSUME NEW r \in Revisions, NEW a \in Actions
      PROVE  /\ Invalidated[r][a] \in Token /\ Invalidated[r][a].state = tokens[r][a].state
             /\ Invalidated[r][a].status = "none" <=> tokens[r][a].status = "none"
  <2>1. tokens[r][a] \in Token
    BY DEF TypeOK
  <2>2. Invalidated[r][a] = IF tokens[r][a].status = "live"
                              THEN [tokens[r][a] EXCEPT !.status = "invalidated"]
                              ELSE tokens[r][a]
    BY DEF Invalidated
  <2> QED
    BY <2>1, <2>2 DEF Token, TokenStatus
<1> QED
  BY <1>1 DEF TokensSame, Invalidated

LEMMA InvalidateOldOrder ==
  ASSUME TypeOK, Order, NEW l \in Lanes, InvalidateOld(l) PROVE TypeOK' /\ Order'
<1> DEFINE t == [task[l] EXCEPT !.pc = "store"]
<1>0. task[l] \in Task /\ At(l, "invalidate")
  BY DEF TypeOK, InvalidateOld
<1>1. /\ t \in Task /\ t.read = task[l].read /\ t.kind = task[l].kind
      /\ t.button = task[l].button /\ t.pc = "store" /\ t.todo = task[l].todo
      /\ t.offer = task[l].offer
  BY <1>0 DEF Task, Steps
<1>2. task' = [task EXCEPT ![l] = t] /\ task'[l] = t
  BY DEF InvalidateOld, Step, TypeOK
<1>3. TokensSame /\ TokensPast'
  BY InvalidatedSame DEF InvalidateOld, Order, TokensPast, TokensSame
<1> HIDE DEF t
<1>4. UNCHANGED <<row, shown, known, active, texts, mishaps>>
  BY DEF InvalidateOld, card, limits
<1>5. Issuing(l) /\ Progress(l)
  BY <1>0 DEF Issuing, IssuingSteps, At, Order, Fits
<1>6. row.revision \in Revisions /\ task[l].todo \in Seq(Actions)
      /\ row.state \in Offering /\ task[l].todo = OfferFor(row.state)
  BY <1>0, <1>5 DEF TypeOK, Row, Task, Order, Past, Progress, Offering, Absent, Revisions
<1>7. Progress(l)'
  <2>1. \A i \in 1 .. Len(task[l].todo) : task[l].todo[i] \in Actions
    BY <1>6
  <2>2. \A i \in 1 .. Len(task[l].todo) :
          tokens'[row.revision][task[l].todo[i]].status = "none"
    BY <1>3, <1>5, <1>6, <2>1 DEF Progress, TokensSame
  <2>3. Stored(l)' = Stored(l) /\ Len(task[l].todo) # 0
    <3>1. Len(task[l].todo) # 0
      BY <1>6, OfferFacts
    <3>2. Stored(l)' = Len(task[l].offer) - Len(task[l].todo)
      BY <1>1, <1>2 DEF Stored
    <3> QED
      BY <3>1, <3>2 DEF Stored
  <2> QED
    BY <1>1, <1>2, <1>4, <1>5, <2>2, <2>3 DEF Progress, At
<1> QED
  BY <1>1, <1>2, <1>3, <1>4, <1>5, <1>7, IssuesOrder DEF TypeOK, LimitsType, TokensSame

\* Storing a button: the first of those left, which is the next of the offer.
LEMMA StoreEffect ==
  ASSUME TypeOK, Order, NEW l \in Lanes, StoreButton(l)
  PROVE  LET todo == task[l].todo
             a    == task[l].offer[Stored(l) + 1]
             new  == [status |-> "live", state |-> row.state]
         IN  /\ Issuing(l) /\ Progress(l) /\ row.revision \in Revisions
             /\ a \in Actions /\ row.state \in Origin(a)
             /\ new \in Token
             /\ tokens' \in [Revisions -> [Actions -> Token]]
             /\ tokens'[row.revision][a] = new
             /\ \A r \in Revisions, b \in Actions :
                  ~(r = row.revision /\ b = a) => tokens'[r][b] = tokens[r][b]
             /\ Stored(l) \in Nat /\ Len(todo) \in Nat /\ Len(todo) # 0
             /\ Len(task[l].offer) = Stored(l) + Len(todo)
             /\ UNCHANGED <<row, shown, known, active, texts, mishaps>>
             /\ \E t \in Task :
                  /\ task' = [task EXCEPT ![l] = t] /\ task'[l] = t
                  /\ t.read = task[l].read /\ t.kind = task[l].kind
                  /\ t.button = task[l].button /\ t.offer = task[l].offer
                  /\ t.pc \in {"store", "show"} /\ (t.pc = "show" <=> Len(t.todo) = 0)
                  /\ Len(t.todo) = Len(todo) - 1
                  /\ \A i \in 1 .. Len(t.todo) : t.todo[i] = todo[i + 1]
<1> DEFINE todo == task[l].todo
           h == Head(todo)
           a == task[l].offer[Stored(l) + 1]
           rest == Tail(todo)
           pc == IF Len(todo) = 1 THEN "show" ELSE "store"
           t == [task[l] EXCEPT !.todo = rest, !.pc = pc]
           new == [status |-> "live", state |-> row.state]
<1>0. task[l] \in Task /\ At(l, "store") /\ row.revision \in 0 .. MaxRevision
      /\ task \in [Lanes -> Task] /\ tokens \in [Revisions -> [Actions -> Token]]
      /\ UNCHANGED <<row, shown, known, active, texts, mishaps>>
  BY DEF TypeOK, StoreButton, Row, card, limits
<1>1. Issuing(l) /\ Progress(l)
  BY <1>0 DEF Issuing, IssuingSteps, At, Order, Fits
<1>2. row.revision \in Revisions /\ todo \in Seq(Actions) /\ Len(todo) # 0
      /\ task[l].offer \in Seq(Actions)
      /\ row.state \in Offering /\ task[l].offer = OfferFor(row.state)
  BY <1>0, <1>1 DEF Task, Order, Past, Progress, Offering, Absent, Revisions
<1>3. /\ Len(todo) \in Nat /\ h = todo[1] /\ rest \in Seq(Actions) /\ h \in Actions
      /\ Len(rest) = Len(todo) - 1 /\ \A i \in 1 .. Len(rest) : rest[i] = todo[i + 1]
  BY <1>2
<1>4. pc \in {"show", "store"} /\ (pc = "show" <=> Len(rest) = 0)
  BY <1>2, <1>3
<1>5. /\ task' = [task EXCEPT ![l].todo = rest, ![l].pc = pc]
      /\ tokens' = [tokens EXCEPT ![row.revision][h] = new]
  BY DEF StoreButton
<1> HIDE DEF pc, rest
<1>6. /\ t \in Task /\ t.read = task[l].read /\ t.kind = task[l].kind
      /\ t.button = task[l].button /\ t.pc = pc /\ t.todo = rest
      /\ t.offer = task[l].offer
  BY <1>0, <1>3, <1>4 DEF Task, Steps
<1>7. task' = [task EXCEPT ![l] = t] /\ task'[l] = t
  BY <1>0, <1>5
<1> HIDE DEF t
<1>8. new \in Token
  BY <1>2 DEF Token, TokenStatus, Offering, DraftState, CreateStates
<1>9. /\ Len(task[l].offer) = Stored(l) + Len(todo) /\ Stored(l) \in Nat
      /\ Stored(l) + 1 \in 1 .. Len(task[l].offer) /\ a = h
  <2>1. Len(task[l].offer) \in Nat /\ Len(todo) <= Len(task[l].offer)
    BY <1>1, <1>2 DEF Progress
  <2>2. Stored(l) = Len(task[l].offer) - Len(todo)
    BY DEF Stored
  <2>3. 1 \in 1 .. Len(todo)
    BY <1>2, <1>3
  <2>4. todo[1] = task[l].offer[Stored(l) + 1]
    BY <1>1, <2>3 DEF Progress
  <2> HIDE DEF todo
  <2> QED
    BY <1>2, <1>3, <2>1, <2>2, <2>4
<1>10. row.state \in Origin(a)
  BY <1>2, <1>9, OfferFacts
<1> HIDE DEF todo, h, a, new
<1>11. /\ tokens' \in [Revisions -> [Actions -> Token]] /\ tokens'[row.revision][a] = new
       /\ \A r \in Revisions, b \in Actions :
            ~(r = row.revision /\ b = a) => tokens'[r][b] = tokens[r][b]
  BY <1>0, <1>2, <1>3, <1>5, <1>8, <1>9
<1> QED
  BY <1>0, <1>1, <1>2, <1>3, <1>4, <1>6, <1>7, <1>8, <1>9, <1>10, <1>11 DEF todo, a, new

LEMMA StoreButtonOrder ==
  ASSUME TypeOK, Order, NEW l \in Lanes, StoreButton(l) PROVE TypeOK' /\ Order'
<1> DEFINE todo == task[l].todo
           a == task[l].offer[Stored(l) + 1]
           n == Len(todo)
           k == Stored(l)
<1>1. /\ Issuing(l) /\ Progress(l) /\ row.revision \in Revisions
      /\ a \in Actions /\ row.state \in Origin(a)
      /\ tokens' \in [Revisions -> [Actions -> Token]]
      /\ tokens'[row.revision][a] = [status |-> "live", state |-> row.state]
      /\ \A r \in Revisions, b \in Actions :
           ~(r = row.revision /\ b = a) => tokens'[r][b] = tokens[r][b]
      /\ UNCHANGED <<row, shown, known, active, texts, mishaps>>
      /\ k \in Nat /\ n \in Nat /\ n # 0 /\ Len(task[l].offer) = k + n
  BY StoreEffect
<1>2. PICK t \in Task :
        /\ task' = [task EXCEPT ![l] = t] /\ task'[l] = t
        /\ t.read = task[l].read /\ t.kind = task[l].kind
        /\ t.button = task[l].button /\ t.offer = task[l].offer
        /\ t.pc \in {"store", "show"} /\ (t.pc = "show" <=> Len(t.todo) = 0)
        /\ Len(t.todo) = n - 1
        /\ \A i \in 1 .. Len(t.todo) : t.todo[i] = todo[i + 1]
  BY StoreEffect
<1>3. TokensPast'
  BY <1>1 DEF Order, TokensPast, Revisions
<1>4. Stored(l)' = k + 1
  <2>1. Stored(l)' = Len(task[l].offer) - Len(t.todo)
    BY <1>2 DEF Stored
  <2> HIDE DEF k, n
  <2> QED
    BY <1>1, <1>2, <2>1
<1>5. Progress(l)'
  <2>1. row.state \in Offering /\ task[l].offer = OfferFor(row.state) /\ todo \in Seq(Actions)
    BY <1>1 DEF Progress, TypeOK, Task
  <2>2. ASSUME NEW i \in 1 .. Len(t.todo)
        PROVE  /\ t.todo[i] = task[l].offer[Stored(l)' + i]
               /\ tokens'[row.revision][t.todo[i]].status = "none"
    <3> HIDE DEF k, n
    <3>1. i + 1 \in 1 .. n /\ i \in Nat /\ i # 0
      BY <1>1, <1>2
    <3>2. /\ todo[i + 1] = task[l].offer[k + (i + 1)]
          /\ tokens[row.revision][todo[i + 1]].status = "none"
          /\ todo[i + 1] \in Actions
      <4>1. i + 1 \in 1 .. Len(todo)
        BY <3>1 DEF n
      <4>2. /\ todo[i + 1] = task[l].offer[Stored(l) + (i + 1)]
            /\ tokens[row.revision][todo[i + 1]].status = "none"
        BY <1>1, <4>1 DEF Progress
      <4> QED
        BY <2>1, <4>1, <4>2 DEF k
    <3>3. k + (i + 1) \in 1 .. (k + n) /\ k + 1 \in 1 .. (k + n) /\ k + (i + 1) # k + 1
      BY <1>1, <3>1
    <3>4. todo[i + 1] # a
      BY <1>1, <2>1, <3>2, <3>3, OfferFacts DEF k
    <3>5. t.todo[i] = todo[i + 1]
      BY <1>2
    <3>6. k + (i + 1) = (k + 1) + i
      BY <1>1, <3>1
    <3> QED
      BY <1>1, <1>4, <3>2, <3>4, <3>5, <3>6
  <2>3. Len(t.todo) <= Len(task[l].offer)
    <3> HIDE DEF k, n
    <3> QED
      BY <1>1, <1>2
  <2>4. /\ task'[l] = t /\ row' = row /\ t.offer = task[l].offer
        /\ t.pc \in {"store", "show"} /\ (t.pc = "show" <=> Len(t.todo) = 0)
    BY <1>1, <1>2
  <2> QED
    BY <2>1, <2>2, <2>3, <2>4 DEF Progress, At
<1> QED
  BY <1>1, <1>2, <1>3, <1>5, IssuesOrder DEF TypeOK, LimitsType

LEMMA ShowButtonsOrder ==
  ASSUME TypeOK, Order, NEW l \in Lanes, ShowButtons(l) PROVE TypeOK' /\ Order'
<1> DEFINE t == IF task[l].kind = "create" THEN [task[l] EXCEPT !.pc = "track"] ELSE Idle
<1>0. task[l] \in Task /\ At(l, "show") /\ task \in [Lanes -> Task]
  BY DEF TypeOK, ShowButtons
<1>1. t \in Task /\ (t.read = task[l].read \/ t = Idle) /\ t.pc \in {"track", "idle"}
      /\ (t.kind = "tap" => t.kind = task[l].kind /\ t.button = task[l].button)
  <2>1. CASE task[l].kind = "create"
    BY <1>0, <2>1 DEF Task, Steps
  <2>2. CASE task[l].kind # "create"
    BY <2>2, IdleTask DEF Idle, Update
  <2> QED
    BY <2>1, <2>2
<1>2. task' = [task EXCEPT ![l] = t]
  BY <1>0 DEF ShowButtons, Step, End
<1> HIDE DEF t
<1>3. Issuing(l) /\ Progress(l) /\ row = task[l].read
  BY <1>0 DEF Issuing, Owning, OwningSteps, IssuingSteps, At, Order, Fits, Alone
<1>4. row.revision \in Revisions /\ task[l].offer \in Seq(Actions)
  BY <1>0, <1>3 DEF TypeOK, Row, Task, Order, Past, Progress, Offering, Absent, Revisions
<1>5. shown' \subseteq Button /\ \A b \in shown' : b.revision = row.revision
  <2>1. shown' = {[revision |-> row.revision, action |-> a] : a \in Range(task[l].offer)}
    BY <1>3 DEF ShowButtons
  <2>2. Range(task[l].offer) \subseteq Actions
    BY <1>4 DEF Range
  <2> QED
    BY <1>4, <2>1, <2>2 DEF Button
<1>6. /\ UNCHANGED <<row, tokens, active, texts, mishaps>> /\ known' = known \cup shown'
  BY DEF ShowButtons, limits
<1>7. TokensPast'
  BY <1>6 DEF Order, TokensPast
<1>8. /\ known' \subseteq Button /\ shown' \subseteq known'
      /\ \A b \in known' : b \in known \/ b.revision = row.revision
      /\ tokens' \in [Revisions -> [Actions -> Token]] /\ LimitsType
  BY <1>5, <1>6 DEF TypeOK, LimitsType
<1> QED
  BY <1>1, <1>2, <1>3, <1>6, <1>7, <1>8, IssuesOrder

\* An update that ends without moving the row.
LEMMA EndOrder ==
  ASSUME TypeOK, Order, NEW l \in Lanes, End(l), row' = row, known' = known,
         shown' \subseteq known', TokensSame, LimitsType,
         active' \in {0, active, task[l].read.revision}
  PROVE  TypeOK' /\ Order'
BY StaysOrder, IdleTask DEF End, Goes

LEMMA SameTokens ==
  ASSUME TypeOK, tokens' = tokens PROVE TokensSame
BY DEF TypeOK, TokensSame

\* One token that there is changes its status.
LEMMA OneToken ==
  ASSUME TypeOK, NEW r \in Revisions, NEW a \in Actions, NEW new \in Token,
         new.status # "none", tokens[r][a].status # "none", new.state = tokens[r][a].state,
         tokens' = [tokens EXCEPT ![r] = [@ EXCEPT ![a] = new]]
  PROVE  TokensSame
<1>1. tokens \in [Revisions -> [Actions -> Token]]
  BY DEF TypeOK
<1>2. tokens' \in [Revisions -> [Actions -> Token]]
  BY <1>1
<1>3. \A q \in Revisions, b \in Actions :
        tokens'[q][b] = IF q = r /\ b = a THEN new ELSE tokens[q][b]
  BY <1>1
<1> QED
  BY <1>2, <1>3 DEF TokensSame

LEMMA LimitsKept ==
  ASSUME TypeOK, UNCHANGED limits \/ Mishap PROVE LimitsType
BY ButtonsAssumption DEF TypeOK, LimitsType, limits, Mishap

\* A tap that goes on to the step pc.
LEMMA TapGoesOn ==
  ASSUME TypeOK, Order, NEW l \in Lanes, task[l].kind = "tap",
         NEW pc \in {"authorise", "consume", "act", "submit"},
         NEW seen \in TokenStatus, NEW read \in Row,
         task' = [task EXCEPT ![l].pc = pc, ![l].seen = seen, ![l].read = read],
         read = task[l].read \/ (read = row /\ \A k \in Lanes : ~Owning(k)),
         ~At(l, "idle"),
         pc \in {"consume", "act"} /\ task[l].button.action = "reconcile" =>
           \/ row.state = "SUBMISSION_UNKNOWN" /\ row.revision = task[l].button.revision
           \/ row.state = "CREATED",
         row' = row, known' = known, shown' \subseteq known', active' = active,
         TokensSame, LimitsType
  PROVE  TypeOK' /\ Order'
<1> DEFINE t == [task[l] EXCEPT !.pc = pc, !.seen = seen, !.read = read]
<1>0. task[l] \in Task /\ task \in [Lanes -> Task]
  BY DEF TypeOK
<1>1. /\ t \in Task /\ t.kind = "tap" /\ t.pc = pc /\ t.button = task[l].button
      /\ t.read = read
  <2>1. pc \in Steps
    BY DEF Steps
  <2> QED
    BY <1>0, <2>1 DEF Task
<1>2. task' = [task EXCEPT ![l] = t] /\ task'[l] = t
  BY <1>0
<1> HIDE DEF t
<1>3. Place(l)
  BY DEF Order, Fits
<1>4. Place(l)' /\ Reconciling(l)'
  BY <1>1, <1>2, <1>3 DEF Place, Reconciling, At, Doing
<1>5. Goes(l, t)
  <2>1. row.state # Absent
    BY DEF Order, Past, Quiet
  <2> QED
    BY <1>1, <1>4, <2>1 DEF Goes, OwningSteps, IssuingSteps
<1> QED
  BY <1>1, <1>2, <1>5, StaysOrder

\* Nobody has moved the row whose button is still the latest.
LEMMA ShownNotOwned ==
  ASSUME TypeOK, Inv, Order, NEW l \in Lanes, task[l].kind = "tap",
         row.revision = task[l].button.revision
  PROVE  \A k \in Lanes : ~Owning(k)
<1>1. task[l].button \in known /\ row.revision \in Nat
  BY DEF Inv, TapsKnown, TypeOK, Row
<1> QED
  BY <1>1 DEF Order, Fits, Alone

LEMMA TapStepsOrder ==
  ASSUME TypeOK, Inv, Order, NEW l \in Lanes,
         ReadToken(l) \/ Authorise(l) \/ Consume(l) \/ BeginSubmission(l)
  PROVE  TypeOK' /\ Order'
<1> USE DEF At, Doing
<1>0. task[l] \in Task /\ task \in [Lanes -> Task] /\ shown \subseteq known /\ Fits(l)
      /\ row \in Row /\ tokens \in [Revisions -> [Actions -> Token]]
  BY DEF TypeOK, Order
<1>1. task[l].button.revision \in Revisions /\ task[l].button.action \in Actions
      /\ task[l].seen \in TokenStatus /\ task[l].read \in Row
  BY <1>0 DEF Task, Button
<1>2. Tapped(l) \in Token
  BY <1>0, <1>1 DEF Tapped
<1>3. task[l].kind = "tap"
  BY <1>0 DEF Fits, Place, TapSteps, ReadToken, Authorise, Consume, BeginSubmission
<1>4. CASE ReadToken(l)
  <2>1. Tapped(l).status \in TokenStatus
    BY <1>2 DEF Token
  <2>2. task' = [task EXCEPT ![l].pc = "authorise", ![l].seen = Tapped(l).status,
                             ![l].read = task[l].read]
    BY <1>0, <1>4 DEF ReadToken, Task
  <2>3. ~At(l, "idle") /\ UNCHANGED <<row, known, shown, active, tokens>> /\ UNCHANGED limits
    BY <1>4 DEF ReadToken, card
  <2> QED
    BY <1>0, <1>1, <1>3, <2>1, <2>2, <2>3, TapGoesOn, SameTokens, LimitsKept
<1>5. CASE Authorise(l)
  <2>0. At(l, "authorise") /\ UNCHANGED <<row, known, shown, active, tokens>> /\ UNCHANGED limits
    BY <1>5 DEF Authorise, card
  <2>1. CASE End(l)
    BY <1>0, <2>0, <2>1, EndOrder, SameTokens, LimitsKept
  <2>2. CASE Authorised(l) /\ ~End(l)
    <3> DEFINE pc == IF task[l].button.action \in OneShot THEN "consume" ELSE "act"
    <3>1. pc \in {"authorise", "consume", "act", "submit"}
      OBVIOUS
    <3>2. task' = [task EXCEPT ![l].read = row, ![l].pc = pc]
      BY <1>5, <2>2 DEF Authorise
    <3> HIDE DEF pc
    <3>3. task' = [task EXCEPT ![l].pc = pc, ![l].seen = task[l].seen, ![l].read = row]
      BY <1>0, <3>2 DEF Task
    <3>4. row.revision = task[l].button.revision /\ row.state = Tapped(l).state
      BY <2>2 DEF Authorised
    <3>5. task[l].button.action = "reconcile" => row.state = "SUBMISSION_UNKNOWN"
      <4>1. row.state # Absent /\ row.state \in Origin(task[l].button.action) \cup {Absent}
        BY <1>1, <2>0, <3>4 DEF Order, Past, Quiet, TokensPast, Tapped
      <4> QED
        BY <4>1 DEF Origin
    <3> QED
      BY <1>0, <1>1, <1>3, <2>0, <3>1, <3>3, <3>4, <3>5, ShownNotOwned, TapGoesOn,
         SameTokens, LimitsKept
  <2> QED
    BY <1>5, <2>1, <2>2 DEF Authorise
<1>6. CASE Consume(l)
  <2>0. At(l, "consume") /\ UNCHANGED <<row, known, shown, active>> /\ UNCHANGED limits
    BY <1>6 DEF Consume, card
  <2>1. CASE End(l) /\ UNCHANGED tokens
    BY <1>0, <2>0, <2>1, EndOrder, SameTokens, LimitsKept
  <2>2. CASE /\ ConsumeMay(l) /\ Step(l, "act")
             /\ tokens' = [tokens EXCEPT
                  ![task[l].button.revision][task[l].button.action].status = "used"]
    <3>1. task' = [task EXCEPT ![l].pc = "act", ![l].seen = task[l].seen,
                               ![l].read = task[l].read]
      BY <1>0, <2>2 DEF Step, Task
    <3>2. TokensSame
      <4> DEFINE r == task[l].button.revision
                 a == task[l].button.action
                 spent == [Tapped(l) EXCEPT !.status = "used"]
      <4>1. /\ spent \in Token /\ spent.status # "none" /\ spent.state = tokens[r][a].state
            /\ tokens[r][a].status # "none"
        BY <1>2, <2>2 DEF Token, TokenStatus, ConsumeMay, Tapped
      <4>2. tokens' = [tokens EXCEPT ![r] = [@ EXCEPT ![a] = spent]]
        BY <2>2 DEF Tapped
      <4>3. r \in Revisions /\ a \in Actions
        BY <1>1
      <4> HIDE DEF spent, r, a
      <4> QED
        BY <4>1, <4>2, <4>3, OneToken
    <3> QED
      BY <1>0, <1>1, <1>3, <2>0, <3>1, <3>2, TapGoesOn, LimitsKept DEF Fits, Reconciling
  <2> QED
    BY <1>6, <2>1, <2>2 DEF Consume
<1>7. CASE BeginSubmission(l)
  <2>0. /\ task[l].pc = "act" /\ task[l].button.action \in {"confirm", "retry"}
        /\ UNCHANGED <<row, known, active, tokens>>
    BY <1>7 DEF BeginSubmission
  <2>1. CASE Mishap /\ End(l) /\ UNCHANGED shown
    BY <1>0, <2>0, <2>1, EndOrder, SameTokens, LimitsKept
  <2>2. CASE /\ Step(l, "submit") /\ UNCHANGED limits
             /\ shown' = IF task[l].button.action = "confirm" THEN {} ELSE shown
    <3>1. task' = [task EXCEPT ![l].pc = "submit", ![l].seen = task[l].seen,
                               ![l].read = task[l].read]
      BY <1>0, <2>2 DEF Step, Task
    <3>2. shown' \subseteq known'
      BY <1>0, <2>0, <2>2
    <3> QED
      BY <1>0, <1>1, <1>3, <2>0, <2>2, <3>1, <3>2, TapGoesOn, SameTokens, LimitsKept
  <2> QED
    BY <1>7, <2>1, <2>2 DEF BeginSubmission
<1> QED
  BY <1>4, <1>5, <1>6, <1>7

\* From the states a draft reaches here, a save succeeds in REVIEW only, and a
\* move to SUBMITTING or CANCELLED from REVIEW or SUBMISSION_RETRYABLE only.
LEMMA MovesAllowed ==
  ASSUME row.state \in Reached
  PROVE  /\ IsTransitionAllowed(row.state, "REVIEW") => FALSE
         /\ \A s \in {"SUBMITTING", "CANCELLED"} :
              IsTransitionAllowed(row.state, s) <=>
                row.state \in {"REVIEW", "SUBMISSION_RETRYABLE"}
BY DEF IsTransitionAllowed, LegalTransitions, Reached, Absent

LEMMA MoveAndOrder ==
  ASSUME TypeOK, Order, NEW l \in Lanes, NEW s \in Reached \ {Absent},
         NEW pc \in {"invalidate", "outcome", "clear", "wipe"},
         NEW offer \in Seq(Actions), MoveAnd(l, s, pc, offer),
         pc = "invalidate" => s \in Offering /\ offer = OfferFor(s),
         pc = "clear" => s = "CANCELLED",
         pc = "outcome" => /\ s = "SUBMITTING" /\ task[l].kind = "tap"
                           /\ row.revision = task[l].button.revision,
         row.revision < MaxRevision, row.state \notin {"CANCELLED", "CREATED"},
         row.state = "SUBMISSION_UNKNOWN" => s = "CREATED",
         \A k \in Lanes : k # l => ~Owning(k),
         UNCHANGED <<tokens, card, active, limits>>
  PROVE  TypeOK' /\ Order'
<1> DEFINE t == [task[l] EXCEPT !.pc = pc, !.read = row', !.todo = offer, !.offer = offer]
<1>0. task[l] \in Task /\ task \in [Lanes -> Task] /\ Place(l) /\ row.revision \in 0 .. MaxRevision
  BY DEF TypeOK, Order, Fits, Row
<1>1. row' = [state |-> s, revision |-> row.revision + 1] /\ row' \in Row
  <2>1. s \in DraftState
    BY DEF Reached, DraftState, CreateStates, PublishedStates, TerminalStates
  <2>2. row.revision + 1 \in 0 .. MaxRevision
    BY <1>0, ButtonsAssumption
  <2> QED
    BY <2>1, <2>2 DEF MoveAnd, Move, Row
<1>2. /\ t \in Task /\ t.kind = task[l].kind /\ t.pc = pc /\ t.button = task[l].button
      /\ t.read = row' /\ t.todo = offer /\ t.offer = offer
  <2>1. pc \in Steps
    BY DEF Steps
  <2> DEFINE new == row'
  <2>2. new \in Row
    BY <1>1
  <2> HIDE DEF new
  <2>3. [task[l] EXCEPT !.pc = pc, !.read = new, !.todo = offer, !.offer = offer] \in Task
    BY <1>0, <2>1, <2>2 DEF Task
  <2> QED
    BY <1>0, <2>3 DEF new, Task
<1>3. task' = [task EXCEPT ![l] = t]
  BY <1>0 DEF MoveAnd
<1> HIDE DEF t
<1>4. MovesTo(l, t, s)
  BY <1>0, <1>1, <1>2 DEF MovesTo, Place
<1> QED
  BY <1>2, <1>3, <1>4, MovesOrder, LimitsKept DEF card

\* A tap moves the row only at the revision of its button.
LEMMA TapMovesOrder ==
  ASSUME TypeOK, Inv, Order, NEW l \in Lanes,
         Toggle(l) \/ Cancel(l) \/ Submit(l) \/ Outcome(l) \/ Reconcile(l)
  PROVE  TypeOK' /\ Order'
<1> USE DEF At, Doing
<1>0. task[l] \in Task /\ task \in [Lanes -> Task] /\ Place(l) /\ row \in Row
      /\ row.revision \in Nat /\ shown \subseteq known
  BY DEF TypeOK, Order, Fits, Row
<1>1. task[l].kind = "tap" /\ ~At(l, "idle") /\ task[l].button.revision + 2 <= MaxRevision
      /\ MaxRevision \in Nat /\ task[l].button.revision \in Nat
  BY <1>0, ButtonsAssumption
     DEF Place, TapSteps, Toggle, Cancel, Submit, Outcome, Reconcile, Task, Button, Revisions
<1>2. row.state \in Reached
  BY DEF Order, Past
<1>3. row.revision = task[l].button.revision =>
        row.revision < MaxRevision /\ \A k \in Lanes : ~Owning(k)
  BY <1>0, <1>1, ShownNotOwned
<1>4. /\ <<>> \in Seq(Actions) /\ PreviewActions \in Seq(Actions)
      /\ <<"retry", "cancel">> \in Seq(Actions) /\ <<"reconcile", "cancel">> \in Seq(Actions)
  BY DEF Actions, PreviewActions
<1>5. ASSUME row' = row, UNCHANGED <<tokens, card, active, limits>>, End(l)
      PROVE  TypeOK' /\ Order'
  BY <1>0, <1>5, EndOrder, SameTokens, LimitsKept DEF card
<1>6. CASE Toggle(l)
  <2>1. CASE End(l) /\ UNCHANGED row
    BY <1>5, <1>6, <2>1 DEF Toggle
  <2>2. CASE SaveAccepted(task[l].button.revision)
             /\ MoveAnd(l, "REVIEW", "invalidate", PreviewActions)
    <3>1. row.revision = task[l].button.revision /\ row.state = "REVIEW"
      BY <1>2, <2>2, MovesAllowed DEF SaveAccepted
    <3>2. "REVIEW" \in Reached \ {Absent} /\ "REVIEW" \in Offering
          /\ OfferFor("REVIEW") = PreviewActions
      BY DEF Reached, Absent, Offering, OfferFor
    <3> QED
      BY <1>3, <1>4, <1>6, <2>2, <3>1, <3>2, MoveAndOrder DEF Toggle
  <2> QED
    BY <1>6, <2>1, <2>2 DEF Toggle
<1>7. CASE Cancel(l)
  <2>1. CASE End(l) /\ UNCHANGED row
    BY <1>5, <1>7, <2>1 DEF Cancel
  <2>2. CASE CasAccepted(task[l].button.revision, "CANCELLED")
             /\ MoveAnd(l, "CANCELLED", "clear", <<>>)
    <3>1. row.revision = task[l].button.revision
          /\ row.state \in {"REVIEW", "SUBMISSION_RETRYABLE"}
      BY <1>2, <2>2, MovesAllowed DEF CasAccepted
    <3>2. "CANCELLED" \in Reached \ {Absent}
      BY DEF Reached, Absent
    <3> QED
      BY <1>3, <1>4, <1>7, <2>2, <3>1, <3>2, MoveAndOrder DEF Cancel
  <2> QED
    BY <1>7, <2>1, <2>2 DEF Cancel
<1>8. CASE Submit(l)
  <2>1. CASE End(l) /\ UNCHANGED row
    BY <1>5, <1>8, <2>1 DEF Submit
  <2>2. CASE SubmitAccepted(l) /\ MoveAnd(l, "SUBMITTING", "outcome", <<>>)
    <3>1. row.revision = task[l].button.revision
          /\ row.state \in {"REVIEW", "SUBMISSION_RETRYABLE"}
      BY <1>2, <2>2, MovesAllowed DEF SubmitAccepted, CasAccepted
    <3>2. "SUBMITTING" \in Reached \ {Absent}
      BY DEF Reached, Absent
    <3> QED
      BY <1>1, <1>3, <1>4, <1>8, <2>2, <3>1, <3>2, MoveAndOrder DEF Submit
  <2>3. CASE Step(l, "wipe") /\ UNCHANGED row
    <3> DEFINE t == [task[l] EXCEPT !.pc = "wipe"]
    <3>1. /\ t \in Task /\ t.pc = "wipe" /\ t.read = task[l].read /\ t.kind = task[l].kind
          /\ t.button = task[l].button
      BY <1>0 DEF Task, Steps
    <3>2. task' = [task EXCEPT ![l] = t] /\ task'[l] = t
      BY <1>0, <2>3 DEF Step
    <3> HIDE DEF t
    <3>3. Place(l)' /\ Reconciling(l)' /\ row.state # Absent
      BY <1>0, <1>1, <3>1, <3>2 DEF Place, Reconciling, TapSteps, Order, Past, Quiet
    <3>4. Goes(l, t)
      BY <3>1, <3>3 DEF Goes, OwningSteps, IssuingSteps
    <3> QED
      BY <1>0, <1>8, <2>3, <3>1, <3>2, <3>4, StaysOrder, SameTokens, LimitsKept DEF Submit, card
  <2> QED
    BY <1>8, <2>1, <2>2, <2>3 DEF Submit
<1>9. CASE Outcome(l)
  <2>1. row.state = "SUBMITTING" /\ row.revision < MaxRevision
    BY <1>0, <1>1, <1>9 DEF Outcome, Place
  <2>2. \A k \in Lanes : k # l => ~Owning(k)
    BY <1>0, <1>9 DEF Outcome, Order, Fits, Alone
  <2>3. \/ MoveAnd(l, "CREATED", "wipe", <<>>)
        \/ MoveAnd(l, "SUBMISSION_RETRYABLE", "wipe", <<>>)
        \/ MoveAnd(l, "SUBMISSION_UNKNOWN", "wipe", <<>>)
        \/ MoveAnd(l, "SUBMISSION_RETRYABLE", "invalidate", <<"retry", "cancel">>)
        \/ MoveAnd(l, "SUBMISSION_UNKNOWN", "invalidate", <<"reconcile", "cancel">>)
    BY <1>9 DEF Outcome
  <2>4. /\ {"CREATED", "SUBMISSION_RETRYABLE", "SUBMISSION_UNKNOWN"} \subseteq Reached \ {Absent}
        /\ {"SUBMISSION_RETRYABLE", "SUBMISSION_UNKNOWN"} \subseteq Offering
        /\ OfferFor("SUBMISSION_RETRYABLE") = <<"retry", "cancel">>
        /\ OfferFor("SUBMISSION_UNKNOWN") = <<"reconcile", "cancel">>
    BY DEF Reached, Absent, Offering, OfferFor
  <2>5. UNCHANGED <<tokens, card, active, limits>>
    BY <1>9 DEF Outcome
  <2>6. ASSUME NEW s \in {"CREATED", "SUBMISSION_RETRYABLE", "SUBMISSION_UNKNOWN"},
               MoveAnd(l, s, "wipe", <<>>)
        PROVE  TypeOK' /\ Order'
    BY <1>4, <2>1, <2>2, <2>4, <2>5, <2>6, MoveAndOrder
  <2>7. ASSUME NEW s \in {"SUBMISSION_RETRYABLE", "SUBMISSION_UNKNOWN"},
               MoveAnd(l, s, "invalidate", OfferFor(s))
        PROVE  TypeOK' /\ Order'
    <3>1. OfferFor(s) \in Seq(Actions) /\ s \in Offering /\ s \in Reached \ {Absent}
      BY <2>4, OfferFacts
    <3> QED
      BY <2>1, <2>2, <2>5, <2>7, <3>1, MoveAndOrder
  <2> QED
    BY <2>3, <2>4, <2>6, <2>7
<1>10. CASE Reconcile(l)
  <2>1. CASE End(l) /\ UNCHANGED row
    BY <1>5, <1>10, <2>1 DEF Reconcile
  <2>2. CASE row.state = "SUBMISSION_UNKNOWN" /\ MoveAnd(l, "CREATED", "wipe", <<>>)
    <3>1. row.revision = task[l].button.revision
      BY <1>10, <2>2 DEF Reconcile, Order, Fits, Reconciling
    <3>2. "CREATED" \in Reached \ {Absent}
      BY DEF Reached, Absent
    <3> QED
      BY <1>3, <1>4, <1>10, <2>2, <3>1, <3>2, MoveAndOrder DEF Reconcile
  <2> QED
    BY <1>10, <2>1, <2>2 DEF Reconcile
<1> QED
  BY <1>6, <1>7, <1>8, <1>9, <1>10

LEMMA EndsOrder ==
  ASSUME TypeOK, Order, NEW l \in Lanes,
         WipeCard(l) \/ TrackDraft(l) \/ Edit(l) \/ Clear(l) \/ Fail(l)
  PROVE  TypeOK' /\ Order'
<1> USE DEF At, Doing
<1>0. task[l] \in Task /\ task \in [Lanes -> Task] /\ shown \subseteq known /\ Fits(l)
  BY DEF TypeOK, Order
<1>1. CASE WipeCard(l) \/ TrackDraft(l) \/ Edit(l) \/ Fail(l)
  <2>1. /\ End(l) /\ row' = row /\ known' = known /\ shown' \subseteq known'
        /\ tokens' = tokens /\ active' \in {0, active, task[l].read.revision}
        /\ UNCHANGED limits \/ Mishap
    BY <1>0, <1>1 DEF WipeCard, TrackDraft, Edit, Fail, card, limits
  <2> QED
    BY <2>1, EndOrder, SameTokens, LimitsKept
<1>2. CASE Clear(l)
  <2>0. /\ UNCHANGED <<row, shown, known, limits>> /\ task[l].pc = "clear"
        /\ active' \in {0, active}
    BY <1>2 DEF Clear, card
  <2>1. TokensSame /\ LimitsType
    BY <1>2, <2>0, InvalidatedSame, LimitsKept DEF Clear
  <2>2. CASE End(l)
    BY <1>0, <2>0, <2>1, <2>2, EndOrder
  <2>3. CASE Step(l, "wipe")
    <3> DEFINE t == [task[l] EXCEPT !.pc = "wipe"]
    <3>1. /\ t \in Task /\ t.pc = "wipe" /\ t.read = task[l].read /\ t.kind = task[l].kind
          /\ t.button = task[l].button
      BY <1>0 DEF Task, Steps
    <3>2. task' = [task EXCEPT ![l] = t] /\ task'[l] = t
      BY <1>0, <2>3 DEF Step
    <3> HIDE DEF t
    <3>3. Place(l)' /\ Reconciling(l)' /\ row.state # Absent
      BY <1>0, <2>0, <3>1, <3>2 DEF Fits, Place, Reconciling, TapSteps, Absent
    <3>4. Goes(l, t)
      BY <3>1, <3>3 DEF Goes, OwningSteps, IssuingSteps
    <3> QED
      BY <1>0, <2>0, <2>1, <3>1, <3>2, <3>4, StaysOrder
  <2> QED
    BY <1>2, <2>2, <2>3 DEF Clear
<1> QED
  BY <1>1, <1>2

\* A text message moves the row only at the revision it read.
LEMMA TextMovesOrder ==
  ASSUME TypeOK, Order, NEW l \in Lanes, TextSave(l) \/ TextCancel(l)
  PROVE  TypeOK' /\ Order'
<1> DEFINE r == task[l].read.revision
<1>0. /\ task[l] \in Task /\ task \in [Lanes -> Task] /\ Place(l) /\ row.revision \in Nat
      /\ shown \subseteq known /\ task[l].pc \in {"save", "drop"} /\ r < MaxRevision
      /\ UNCHANGED <<tokens, shown, known, limits>>
  BY DEF TypeOK, Order, Fits, Row, TextSave, TextCancel, At, Place, card
<1>1. row.state \in Reached
  BY DEF Order, Past
<1>2. row.revision = r => \A k \in Lanes : k # l => ~Owning(k)
  BY <1>0 DEF Order, Fits, Alone
<1>3. ASSUME End(l), row' = row, active' = active PROVE TypeOK' /\ Order'
  BY <1>0, <1>3, EndOrder, SameTokens, LimitsKept
<1>4. CASE TextSave(l)
  <2>1. CASE SaveAccepted(r) /\ Move("REVIEW") /\ active' = r + 1
    <3>1. row.revision = r /\ row.state = "REVIEW"
      BY <1>1, <2>1, MovesAllowed DEF SaveAccepted
    <3>2. "REVIEW" \in Reached \ {Absent}
      BY DEF Reached, Absent
    <3>3. MovesTo(l, Idle, "REVIEW") /\ task' = [task EXCEPT ![l] = Idle]
      BY <1>4, <2>1, <3>1 DEF MovesTo, Move, TextSave, End
    <3> QED
      BY <1>0, <1>2, <3>1, <3>2, <3>3, MovesOrder, IdleTask, LimitsKept
  <2> QED
    BY <1>3, <1>4, <2>1 DEF TextSave
<1>5. CASE TextCancel(l)
  <2>1. CASE CasAccepted(r, "CANCELLED") /\ MoveAnd(l, "CANCELLED", "clear", <<>>)
    <3>1. row.revision = r /\ row.state \in {"REVIEW", "SUBMISSION_RETRYABLE"}
      BY <1>1, <2>1, MovesAllowed DEF CasAccepted
    <3>2. "CANCELLED" \in Reached \ {Absent} /\ <<>> \in Seq(Actions)
      BY DEF Reached, Absent
    <3>3. UNCHANGED <<tokens, card, active, limits>>
      BY <1>5 DEF TextCancel
    <3> QED
      BY <1>0, <1>2, <2>1, <3>1, <3>2, <3>3, MoveAndOrder
  <2> QED
    BY <1>3, <1>5, <2>1 DEF TextCancel
<1> QED
  BY <1>4, <1>5

LEMMA CreateOrder ==
  ASSUME TypeOK, Order, CreateDraft PROVE TypeOK' /\ Order'
<1> DEFINE first == [state |-> "REVIEW", revision |-> 1]
           t == Update("create", "invalidate", NoButton, first, PreviewActions)
           l == "collection"
<1>0. row' = first /\ task' = [task EXCEPT ![l] = t] /\ l \in Lanes /\ row.state = Absent
      /\ UNCHANGED <<tokens, card, active, limits>>
  BY DEF CreateDraft, Lanes
<1>1. row.revision = 0 /\ 0 < MaxRevision /\ \A k \in Lanes : ~Owning(k)
  BY <1>0, ButtonsAssumption DEF Order, Past, Quiet, At, Owning, OwningSteps, IssuingSteps
<1>2. "REVIEW" \in Reached \ {Absent} /\ "REVIEW" \in Offering
      /\ OfferFor("REVIEW") = PreviewActions
  BY DEF Reached, Absent, Offering, OfferFor
<1>3. t \in Task
  <2>1. NoButton \in Button
    BY ButtonsAssumption DEF NoButton, Button, Revisions, Actions
  <2>2. first \in Row
    BY ButtonsAssumption DEF Row, DraftState, CreateStates
  <2>3. PreviewActions \in Seq(Actions)
    BY DEF PreviewActions, Actions
  <2> QED
    BY <2>1, <2>2, <2>3 DEF Task, Update, Steps, TokenStatus
<1>4. MovesTo(l, t, "REVIEW")
  BY <1>0, <1>1, <1>2 DEF MovesTo, Update
<1> HIDE DEF t, l
<1> QED
  BY <1>0, <1>1, <1>2, <1>3, <1>4, MovesOrder, LimitsKept DEF card, Absent

LEMMA TextOrder ==
  ASSUME TypeOK, Order, NEW pc \in {"save", "drop"}, Text(pc) PROVE TypeOK' /\ Order'
<1> DEFINE t == Update("text", pc, NoButton, row, <<>>)
           l == "collection"
<1>0. /\ task \in [Lanes -> Task] /\ task' = [task EXCEPT ![l] = t] /\ l \in Lanes
      /\ row \in Row /\ row.revision = active /\ active # 0 /\ active < MaxRevision
      /\ UNCHANGED <<row, tokens, shown, known, active>> /\ shown \subseteq known
      /\ LimitsType
  BY ButtonsAssumption DEF Text, Lanes, TypeOK, card, LimitsType
<1>1. t \in Task
  <2>1. NoButton \in Button /\ pc \in Steps
    BY ButtonsAssumption DEF NoButton, Button, Revisions, Actions, Steps
  <2> QED
    BY <1>0, <2>1 DEF Task, Update, TokenStatus
<1>2. t.pc = pc /\ t.kind = "text" /\ t.read = row
  BY DEF Update
<1> HIDE DEF t, l
<1>3. row.state # Absent /\ \A k \in Lanes : ~Owning(k)
  BY <1>0 DEF Order, Past, Fits, Alone, Row
<1>4. Place(l)' /\ Reconciling(l)'
  BY <1>0, <1>2 DEF Place, Reconciling, At, Doing, TapSteps
<1>5. Goes(l, t)
  BY <1>2, <1>3, <1>4 DEF Goes, OwningSteps, IssuingSteps
<1> QED
  BY <1>0, <1>1, <1>5, StaysOrder, SameTokens

LEMMA TapOrder ==
  ASSUME TypeOK, Order, NEW l \in Lanes, NEW b \in Button, Tap(l, b)
  PROVE  TypeOK' /\ Order'
<1> DEFINE t == Update("tap", "token", b, NoRow, <<>>)
<1>0. /\ task \in [Lanes -> Task] /\ task' = [task EXCEPT ![l] = t]
      /\ b \in known /\ b.revision + 2 <= MaxRevision
      /\ UNCHANGED <<row, tokens, shown, known, active>> /\ shown \subseteq known
      /\ UNCHANGED limits \/ Mishap
  BY DEF Tap, TypeOK, card, LaneOf
<1>1. t \in Task
  <2>1. NoRow \in Row
    BY ButtonsAssumption DEF NoRow, Row
  <2> QED
    BY <2>1 DEF Task, Update, TokenStatus, Steps
<1>2. t.pc = "token" /\ t.kind = "tap" /\ t.read = NoRow /\ t.button = b
  BY DEF Update
<1> HIDE DEF t
<1>3. row.state # Absent
  <2>1. b.revision \in Nat \ {0} /\ b.revision <= row.revision
    BY <1>0 DEF Order, Past, Button, Revisions
  <2> QED
    BY <2>1 DEF Order, Past, TypeOK, Row
<1>4. Place(l)' /\ Reconciling(l)'
  BY <1>0, <1>2 DEF Place, Reconciling, At, Doing, TapSteps
<1>5. Goes(l, t)
  BY <1>2, <1>3, <1>4 DEF Goes, OwningSteps, IssuingSteps
<1> QED
  BY <1>0, <1>1, <1>5, StaysOrder, SameTokens, LimitsKept

\* A step that changes nothing but the status of a token.
LEMMA TokensOrder ==
  ASSUME TypeOK, Order, UNCHANGED <<row, shown, known, active, task>>, TokensSame, LimitsType
  PROVE  TypeOK' /\ Order'
<1>1. TypeOK' /\ Past' /\ TokensPast'
  BY DEF TypeOK, TokensSame, LimitsType, Order, Past, TokensPast, Quiet, At
<1>2. ASSUME NEW k \in Lanes PROVE Fits(k)'
  <2>1. Fits(k) /\ task[k] \in Task
    BY DEF Order, TypeOK
  <2>2. Place(k)' /\ Reconciling(k)' /\ (Owning(k)' => Alone(k)')
    BY <2>1 DEF Fits, Place, Reconciling, At, Doing, Owning, Alone
  <2>3. ASSUME Issuing(k) PROVE Progress(k)'
    <3>1. Progress(k) /\ task[k].todo \in Seq(Actions) /\ row.revision \in Revisions
      <4>1. Progress(k) /\ task[k].todo \in Seq(Actions)
        BY <2>1, <2>3 DEF Fits, Task
      <4>2. row.state # Absent /\ row.revision \in 0 .. MaxRevision
        BY <4>1 DEF Progress, Offering, Absent, TypeOK, Row
      <4> QED
        BY <4>1, <4>2 DEF Order, Past, Revisions
    <3>2. \A i \in 1 .. Len(task[k].todo) : task[k].todo[i] \in Actions
      BY <3>1
    <3>3. \A i \in 1 .. Len(task[k].todo) :
            tokens'[row.revision][task[k].todo[i]].status = "none"
      BY <3>1, <3>2 DEF Progress, TokensSame
    <3>4. Stored(k)' = Stored(k) /\ Progress(k)
      BY <3>1 DEF Stored
    <3> QED
      BY <3>3, <3>4 DEF Progress, At
  <2> QED
    BY <2>2, <2>3 DEF Fits, Issuing
<1> QED
  BY <1>1, <1>2 DEF Order

LEMMA ExpireOrder ==
  ASSUME TypeOK, Order, NEW b \in Button, Expire(b) PROVE TypeOK' /\ Order'
<1> DEFINE r == b.revision
           a == b.action
           gone == [tokens[r][a] EXCEPT !.status = "expired"]
<1>1. r \in Revisions /\ a \in Actions /\ tokens \in [Revisions -> [Actions -> Token]]
  BY DEF Button, TypeOK
<1>2. /\ gone \in Token /\ gone.status # "none" /\ gone.state = tokens[r][a].state
      /\ tokens[r][a].status # "none"
  <2>1. tokens[r][a] \in Token /\ tokens[r][a].status = "live"
    BY <1>1 DEF Expire
  <2> QED
    BY <2>1 DEF Token, TokenStatus
<1>3. tokens' = [tokens EXCEPT ![r] = [@ EXCEPT ![a] = gone]]
  BY DEF Expire
<1> HIDE DEF r, a, gone
<1>4. TokensSame
  BY <1>1, <1>2, <1>3, OneToken
<1> QED
  BY <1>4, TokensOrder, LimitsKept DEF Expire, card

LEMMA CrashOrder ==
  ASSUME TypeOK, Order, Crash PROVE TypeOK' /\ Order'
<1>1. /\ UNCHANGED <<row, tokens, shown, known>> /\ active' = 0 /\ task' = [l \in Lanes |-> Idle]
  BY DEF Crash, card
<1>2. Idle.pc = "idle" /\ Idle.read.revision = 0 /\ Idle.kind = "none"
  BY DEF Idle, Update, NoRow
<1>3. TypeOK'
  BY <1>1, IdleTask, LimitsKept, ButtonsAssumption DEF TypeOK, LimitsType, Crash
<1>4. Past' /\ TokensPast'
  BY <1>1, <1>2 DEF Order, Past, TokensPast, Quiet, At, TypeOK, Row
<1>5. \A l \in Lanes : Fits(l)'
  BY <1>1, <1>2 DEF Fits, Place, Reconciling, Owning, Issuing, OwningSteps, IssuingSteps,
     TapSteps, At, Doing
<1> QED
  BY <1>3, <1>4, <1>5 DEF Order

LEMMA InitOrder == Init => TypeOK /\ Order
<1> SUFFICES ASSUME Init PROVE TypeOK /\ Order
  OBVIOUS
<1>2. Idle.pc = "idle" /\ Idle.read.revision = 0 /\ Idle.kind = "none"
      /\ NoRow.revision = 0 /\ NoRow.state = Absent
      /\ NoToken.status = "none" /\ NoToken.state = Absent /\ Absent \in Reached
  BY DEF Idle, Update, NoRow, NoToken, Reached
<1>3. TypeOK
  <2>1. NoRow \in Row /\ NoToken \in Token
    BY ButtonsAssumption DEF NoRow, Row, NoToken, Token, TokenStatus
  <2> QED
    BY <2>1, IdleTask, ButtonsAssumption DEF Init, TypeOK
<1>4. Past /\ TokensPast
  BY <1>2 DEF Init, Past, TokensPast, Quiet, At
<1>5. \A l \in Lanes : Fits(l)
  BY <1>2 DEF Init, Fits, Place, Reconciling, Owning, Issuing, OwningSteps, IssuingSteps,
     TapSteps, At, Doing
<1> QED
  BY <1>3, <1>4, <1>5 DEF Order

\* The table of tokens, the row and what each update has read of it agree; who
\* issues buttons is alone with the revision they are for.
THEOREM ButtonsOrder == Spec => [](TypeOK /\ Order)
<1>1. ASSUME TypeOK, Inv, Order, [Next]_vars PROVE TypeOK' /\ Order'
  <2>1. CASE UNCHANGED vars
    <3>1. /\ UNCHANGED <<row, shown, known, active, task>> /\ tokens' = tokens
          /\ UNCHANGED limits
      BY <2>1 DEF vars, limits
    <3> QED
      BY <1>1, <3>1, TokensOrder, SameTokens, LimitsKept
  <2>2. ASSUME NEW l \in Lanes, Handle(l) PROVE TypeOK' /\ Order'
    BY <1>1, <2>2, InvalidateOldOrder, StoreButtonOrder, ShowButtonsOrder, EndsOrder,
       TapStepsOrder, TapMovesOrder, TextMovesOrder DEF Handle
  <2>3. CASE CreateDraft \/ Text("save") \/ Text("drop") \/ Crash
    BY <1>1, <2>3, CreateOrder, TextOrder, CrashOrder
  <2> QED
    BY <1>1, <2>1, <2>2, <2>3, EndsOrder, TapOrder, ExpireOrder DEF Next
<1> QED
  BY <1>1, InitOrder, ButtonsInvariance, PTL DEF Spec

\* Every variable has its type: the row never leaves the bound on revisions,
\* and the tokens are those of revisions there are.
THEOREM ButtonsTypeCorrect == Spec => []TypeOK
  BY ButtonsOrder, PTL

\* While a handler stores the buttons of a revision, neither a tap, a text
\* message nor an outcome moves the row from under it or takes its place in
\* the index: no store is ever refused.
THEOREM IssuingNeverConflictsHolds == Spec => []IssuingNeverConflicts
<1>1. TypeOK /\ Order => IssuingNeverConflicts
  <2> SUFFICES ASSUME TypeOK, Order, NEW l \in Lanes, At(l, "store") PROVE StoreAccepted(l)
    BY DEF IssuingNeverConflicts
  <2>1. Alone(l) /\ Progress(l) /\ task[l].todo \in Seq(Actions)
    BY DEF Order, Fits, Owning, Issuing, OwningSteps, IssuingSteps, At, TypeOK, Task
  <2>2. Len(task[l].todo) # 0
    BY <2>1 DEF Progress
  <2>3. Head(task[l].todo) = task[l].todo[1] /\ 1 \in 1 .. Len(task[l].todo)
    BY <2>1, <2>2
  <2> QED
    BY <2>1, <2>3 DEF Alone, Progress, StoreAccepted
<1> QED
  BY <1>1, ButtonsOrder, PTL

-----------------------------------------------------------------------------
(* A calm run, without mishaps and text messages.  Taps are then processed *)
(* in the workflow lane only, one after the other, so what a tap was       *)
(* authorised for still holds when it acts; and a draft in review has its  *)
(* confirm button, or is about to get it, or the button is being obeyed.   *)

Calm == mishaps = 0 /\ texts = 0

CollectionCalm == \/ At("collection", "idle")
                  \/ /\ task["collection"].kind = "create"
                     /\ task["collection"].pc \in IssuingSteps \cup {"track"}

WorkflowCalm ==
  /\ At("workflow", "idle") \/ task["workflow"].kind = "tap"
  /\ task["workflow"].pc \notin {"track", "save", "drop"}
  /\ task["workflow"].pc \in {"consume", "act", "submit"} =>
       /\ row.revision = task["workflow"].button.revision
       /\ row.state \in Origin(task["workflow"].button.action)
  /\ At("workflow", "wipe") => row.state # "REVIEW"

StoredLive(l) ==
  \A i \in 1 .. Stored(l) :
    tokens[row.revision][task[l].offer[i]] = [status |-> "live", state |-> row.state]

Good == /\ [revision |-> row.revision, action |-> "confirm"] \in shown
        /\ tokens[row.revision]["confirm"] = [status |-> "live", state |-> "REVIEW"]

Confirming == /\ task["workflow"].button.action = "confirm"
              /\ task["workflow"].pc \in {"act", "submit"}

Confirmable == row.state = "REVIEW" => Good \/ Confirming \/ \E l \in Lanes : Issuing(l)

AtEase == /\ CollectionCalm /\ WorkflowCalm /\ Confirmable
          /\ \A l \in Lanes : Issuing(l) => StoredLive(l)

CalmInv == Calm => AtEase

LEMMA InitCalm == Init => CalmInv
<1> SUFFICES ASSUME Init PROVE AtEase
  BY DEF CalmInv
<1>1. Idle.pc = "idle" /\ NoRow.state = Absent
  BY DEF Idle, Update, NoRow
<1> QED
  BY <1>1 DEF Init, AtEase, CollectionCalm, WorkflowCalm, Confirmable, Issuing, IssuingSteps,
     At, Lanes, Absent

\* What a step of a calm run can be.
LEMMA CalmSteps ==
  ASSUME TypeOK, Next, Calm'
  PROVE  /\ Calm
         /\ \/ CreateDraft
            \/ \E b \in Button : Tap("workflow", b) /\ UNCHANGED limits
            \/ \E l \in Lanes : Handle(l) /\ UNCHANGED limits
<1>0. mishaps \in Nat /\ texts \in Nat
  BY ButtonsAssumption DEF TypeOK
<1>1. ~Mishap
  BY <1>0 DEF Mishap, Calm
<1>2. ~Text("save") /\ ~Text("drop")
  BY <1>0 DEF Text, Calm
<1>3. ~Crash /\ (\A l \in Lanes : ~Fail(l)) /\ \A b \in Button : ~Expire(b)
  BY <1>1 DEF Crash, Fail, Expire
<1>4. ASSUME NEW l \in Lanes, NEW b \in Button, Tap(l, b)
      PROVE  l = "workflow" /\ UNCHANGED limits
  BY <1>1, <1>4 DEF Tap, LaneOf
<1>5. ASSUME NEW l \in Lanes, Handle(l) PROVE UNCHANGED limits
  <2>1. InvalidateOld(l) \/ StoreButton(l) \/ ShowButtons(l) \/ TrackDraft(l)
          \/ WipeCard(l) \/ ReadToken(l) \/ Authorise(l) \/ Consume(l) => UNCHANGED limits
    BY DEF InvalidateOld, StoreButton, ShowButtons, TrackDraft, WipeCard, ReadToken,
       Authorise, Consume
  <2>2. Toggle(l) \/ Edit(l) \/ Cancel(l) \/ Clear(l) \/ Submit(l) \/ Reconcile(l)
          \/ TextSave(l) \/ TextCancel(l) => UNCHANGED limits
    BY DEF Toggle, Edit, Cancel, Clear, Submit, Reconcile, TextSave, TextCancel
  <2>3. Outcome(l) => UNCHANGED limits
    BY DEF Outcome
  <2>4. BeginSubmission(l) => UNCHANGED limits
    BY <1>1 DEF BeginSubmission
  <2> QED
    BY <1>5, <2>1, <2>2, <2>3, <2>4 DEF Handle
<1>6. CreateDraft => UNCHANGED limits
  BY DEF CreateDraft
<1>7. UNCHANGED limits /\ \/ CreateDraft
                          \/ \E b \in Button : Tap("workflow", b)
                          \/ \E l \in Lanes : Handle(l)
  BY <1>2, <1>3, <1>4, <1>5, <1>6 DEF Next
<1> QED
  BY <1>7 DEF Calm, limits

\* Issuing: the other lane is unaffected, and the buttons stored so far are live.
LEMMA AloneIssues ==
  ASSUME TypeOK, Order, NEW l \in Lanes, Issuing(l)
  PROVE  \A k \in Lanes : k # l => ~Owning(k)
<1>1. Alone(l) /\ row.revision \in Nat
  BY DEF Order, Fits, Owning, Issuing, OwningSteps, TypeOK, Row
<1> QED
  BY <1>1 DEF Order, Fits, Alone

LEMMA CalmIssues ==
  ASSUME TypeOK, Order, AtEase, NEW l \in Lanes, Issuing(l),
         NEW t \in Task, task' = [task EXCEPT ![l] = t], row' = row,
         \/ t = Idle
         \/ /\ t.kind = task[l].kind /\ t.button = task[l].button
            /\ \/ t.pc \in {"store", "show"}
               \/ t.pc = "track" /\ t.kind = "create",
         t.pc \in {"store", "show"} => StoredLive(l)',
         t.pc \notin {"store", "show"} /\ row.state = "REVIEW" => Good'
  PROVE  AtEase'
<1>0. /\ task'[l] = t /\ \A k \in Lanes : k # l => task'[k] = task[k] /\ ~Owning(k)
      /\ "workflow" \in Lanes /\ "collection" \in Lanes
  BY AloneIssues DEF TypeOK, Lanes
<1>1. Idle.pc = "idle"
  BY DEF Idle, Update
<1>2. task[l].pc # "idle" /\ (l = "workflow" => task[l].kind = "tap")
      /\ (l = "collection" => task[l].kind = "create")
  BY DEF AtEase, CollectionCalm, WorkflowCalm, Issuing, IssuingSteps, At
<1>3. CollectionCalm'
  BY <1>0, <1>1, <1>2 DEF AtEase, CollectionCalm, At, IssuingSteps
<1>4. WorkflowCalm'
  <2>1. CASE l = "workflow"
    BY <1>0, <1>1, <1>2, <2>1 DEF WorkflowCalm, At
  <2>2. CASE l # "workflow"
    BY <1>0, <2>2 DEF AtEase, WorkflowCalm, At
  <2> QED
    BY <2>1, <2>2
<1>5. Confirmable'
  BY <1>0, <1>1 DEF Confirmable, Issuing, IssuingSteps
<1>6. \A k \in Lanes : Issuing(k)' => StoredLive(k)'
  BY <1>0, <1>1 DEF Issuing, IssuingSteps, Owning, OwningSteps
<1> QED
  BY <1>3, <1>4, <1>5, <1>6 DEF AtEase

LEMMA InvalidateOldCalm ==
  ASSUME TypeOK, Order, AtEase, NEW l \in Lanes, InvalidateOld(l) PROVE AtEase'
<1> DEFINE t == [task[l] EXCEPT !.pc = "store"]
<1>0. task[l] \in Task /\ task[l].pc = "invalidate"
  BY DEF TypeOK, InvalidateOld, At
<1>1. /\ t \in Task /\ t.kind = task[l].kind /\ t.button = task[l].button /\ t.pc = "store"
      /\ t.todo = task[l].todo /\ t.offer = task[l].offer
  BY <1>0 DEF Task, Steps
<1>2. task' = [task EXCEPT ![l] = t] /\ task'[l] = t /\ row' = row
  BY DEF InvalidateOld, Step, TypeOK
<1> HIDE DEF t
<1>3. Issuing(l) /\ task[l].todo = task[l].offer /\ task[l].offer \in Seq(Actions)
  BY <1>0 DEF Issuing, IssuingSteps, Order, Fits, Progress, At, Task
<1>4. Stored(l)' = 0
  BY <1>1, <1>2, <1>3 DEF Stored
<1>5. StoredLive(l)'
  BY <1>4 DEF StoredLive
<1> QED
  BY <1>1, <1>2, <1>3, <1>5, CalmIssues

LEMMA StoreButtonCalm ==
  ASSUME TypeOK, Order, AtEase, NEW l \in Lanes, StoreButton(l) PROVE AtEase'
<1> DEFINE todo == task[l].todo
           a == task[l].offer[Stored(l) + 1]
           n == Len(todo)
           k == Stored(l)
<1>1. /\ Issuing(l) /\ Progress(l) /\ row.revision \in Revisions /\ row' = row
      /\ a \in Actions
      /\ tokens'[row.revision][a] = [status |-> "live", state |-> row.state]
      /\ \A r \in Revisions, b \in Actions :
           ~(r = row.revision /\ b = a) => tokens'[r][b] = tokens[r][b]
      /\ k \in Nat /\ n \in Nat /\ n # 0 /\ Len(task[l].offer) = k + n
  BY StoreEffect
<1>2. PICK t \in Task :
        /\ task' = [task EXCEPT ![l] = t] /\ task'[l] = t
        /\ t.read = task[l].read /\ t.kind = task[l].kind
        /\ t.button = task[l].button /\ t.offer = task[l].offer
        /\ t.pc \in {"store", "show"} /\ (t.pc = "show" <=> Len(t.todo) = 0)
        /\ Len(t.todo) = n - 1
        /\ \A i \in 1 .. Len(t.todo) : t.todo[i] = todo[i + 1]
  BY StoreEffect
<1>3. Stored(l)' = k + 1
  <2>1. Stored(l)' = Len(task[l].offer) - Len(t.todo)
    BY <1>2 DEF Stored
  <2> HIDE DEF k, n
  <2> QED
    BY <1>1, <1>2, <2>1
<1>4. row.state \in Offering /\ task[l].offer = OfferFor(row.state)
  BY <1>1 DEF Progress
<1>5. ASSUME NEW i \in 1 .. (k + 1)
      PROVE  tokens'[row.revision][task[l].offer[i]] = [status |-> "live", state |-> row.state]
  <2>1. CASE i = k + 1
    BY <1>1, <2>1
  <2>2. CASE i # k + 1
    <3> HIDE DEF n, k
    <3>1. i \in 1 .. k /\ i \in 1 .. (k + n) /\ k + 1 \in 1 .. (k + n)
      BY <1>1, <2>2
    <3>2. task[l].offer[i] # a /\ task[l].offer[i] \in Actions
      <4>1. OfferFor(row.state) \in Seq(Actions)
        BY <1>4, OfferFacts
      <4>2. task[l].offer[i] \in Actions
        BY <1>1, <1>4, <3>1, <4>1
      <4> QED
        BY <1>1, <1>4, <2>2, <3>1, <4>2, OfferFacts DEF k
    <3>3. StoredLive(l)
      BY <1>1 DEF AtEase
    <3> QED
      BY <1>1, <3>1, <3>2, <3>3 DEF StoredLive, k
  <2> QED
    BY <2>1, <2>2
<1>6. StoredLive(l)'
  BY <1>1, <1>2, <1>3, <1>5 DEF StoredLive
<1> QED
  BY <1>1, <1>2, <1>6, CalmIssues

LEMMA ShowButtonsCalm ==
  ASSUME TypeOK, Order, AtEase, NEW l \in Lanes, ShowButtons(l) PROVE AtEase'
<1> DEFINE t == IF task[l].kind = "create" THEN [task[l] EXCEPT !.pc = "track"] ELSE Idle
<1>0. task[l] \in Task /\ task \in [Lanes -> Task] /\ task[l].pc = "show"
      /\ UNCHANGED <<row, tokens>>
  BY DEF TypeOK, ShowButtons, At
<1>1. /\ t \in Task
      /\ \/ t = Idle
         \/ /\ t.kind = task[l].kind /\ t.button = task[l].button
            /\ t.pc = "track" /\ t.kind = "create"
      /\ t.pc \notin {"store", "show"}
  <2>1. CASE task[l].kind = "create"
    BY <1>0, <2>1 DEF Task, Steps
  <2>2. CASE task[l].kind # "create"
    BY <2>2, IdleTask DEF Idle, Update
  <2> QED
    BY <2>1, <2>2
<1>2. task' = [task EXCEPT ![l] = t]
  BY <1>0 DEF ShowButtons, Step, End
<1> HIDE DEF t
<1>3. Issuing(l) /\ Progress(l) /\ Alone(l) /\ StoredLive(l)
  BY <1>0 DEF Issuing, Owning, OwningSteps, IssuingSteps, Order, Fits, AtEase
<1>4. ASSUME row.state = "REVIEW" PROVE Good'
  <2>1. task[l].offer = PreviewActions /\ Len(task[l].todo) = 0
    BY <1>0, <1>3, <1>4 DEF Progress, OfferFor, At
  <2>2. Len(PreviewActions) = 4 /\ PreviewActions[1] = "confirm"
    BY DEF PreviewActions
  <2>3. Stored(l) = 4
    BY <2>1, <2>2 DEF Stored
  <2>4. tokens[row.revision]["confirm"] = [status |-> "live", state |-> "REVIEW"]
    BY <1>3, <1>4, <2>1, <2>2, <2>3 DEF StoredLive
  <2>5. "confirm" \in Range(task[l].offer)
    <3>1. 1 \in DOMAIN PreviewActions
      BY DEF PreviewActions
    <3> QED
      BY <2>1, <2>2, <3>1 DEF Range
  <2>6. [revision |-> row.revision, action |-> "confirm"] \in shown'
    <3>1. shown' = {[revision |-> row.revision, action |-> a] : a \in Range(task[l].offer)}
      BY <1>3 DEF ShowButtons, Alone
    <3> QED
      BY <2>5, <3>1
  <2> QED
    BY <1>0, <2>4, <2>6 DEF Good
<1> QED
  BY <1>0, <1>1, <1>2, <1>3, <1>4, CalmIssues

\* The steps of the collection lane in a calm run: it creates the draft.
LEMMA TrackDraftCalm ==
  ASSUME TypeOK, Order, AtEase, NEW l \in Lanes, TrackDraft(l) PROVE AtEase'
<1>1. l = "collection"
  BY DEF AtEase, WorkflowCalm, TrackDraft, At, Lanes
<1>2. /\ task'["collection"] = Idle /\ task'["workflow"] = task["workflow"]
      /\ task["collection"].pc = "track" /\ UNCHANGED <<row, tokens, shown>>
  BY <1>1 DEF TrackDraft, End, TypeOK, Lanes, At, card
<1>3. Idle.pc = "idle" /\ Lanes = {"workflow", "collection"}
  BY DEF Idle, Update, Lanes
<1>4. CollectionCalm' /\ WorkflowCalm'
  BY <1>2, <1>3 DEF AtEase, CollectionCalm, WorkflowCalm, At
<1>5. Confirmable'
  BY <1>2, <1>3 DEF AtEase, Confirmable, Good, Confirming, Issuing, IssuingSteps
<1>6. \A k \in Lanes : Issuing(k)' => StoredLive(k)'
  <2>1. ~Issuing("collection")'
    BY <1>2, <1>3 DEF Issuing, IssuingSteps
  <2>2. Issuing("workflow")' => StoredLive("workflow")'
    BY <1>2, <1>3 DEF AtEase, Issuing, StoredLive, Stored
  <2> QED
    BY <1>3, <2>1, <2>2
<1> QED
  BY <1>4, <1>5, <1>6 DEF AtEase

\* A step of the workflow lane, from t to u, that leaves the row where it is.
LEMMA WorkflowStays ==
  ASSUME TypeOK, Order, AtEase, NEW t, t = task["workflow"], NEW u,
         task' = [task EXCEPT !["workflow"] = u],
         row' = row, t.pc \notin IssuingSteps, u.pc \notin IssuingSteps,
         WorkflowCalm',
         \A l \in Lanes : Issuing(l) => \A a \in Actions :
           tokens'[row.revision][a] = tokens[row.revision][a],
         row.state = "REVIEW" /\ Good => Good' \/ Confirming',
         row.state = "REVIEW" /\ Confirming => Confirming'
  PROVE  AtEase'
<1>1. /\ task'["collection"] = task["collection"] /\ task'["workflow"] = u
      /\ Lanes = {"workflow", "collection"}
  BY DEF TypeOK, Lanes
<1>2. CollectionCalm'
  BY <1>1 DEF AtEase, CollectionCalm, At
<1>3. \A l \in Lanes : Issuing(l)' <=> Issuing(l)
  BY <1>1 DEF Issuing
<1>4. Confirmable'
  BY <1>3 DEF AtEase, Confirmable
<1>5. ASSUME NEW l \in Lanes, Issuing(l)' PROVE StoredLive(l)'
  <2>1. Issuing(l) /\ l = "collection" /\ task'[l] = task[l]
    BY <1>1, <1>5 DEF Issuing
  <2>2. StoredLive(l) /\ Progress(l) /\ Stored(l)' = Stored(l)
    BY <2>1 DEF AtEase, Order, Fits, Stored
  <2>3. \A i \in 1 .. Stored(l) : task[l].offer[i] \in Actions
    <3>1. task[l].offer \in Seq(Actions) /\ task[l].todo \in Seq(Actions)
      BY DEF TypeOK, Task
    <3>2. Len(task[l].offer) \in Nat /\ Len(task[l].todo) \in Nat
      BY <3>1
    <3>3. \A i \in 1 .. Stored(l) : i \in 1 .. Len(task[l].offer)
      BY <3>2 DEF Stored
    <3> QED
      BY <3>1, <3>3
  <2> QED
    BY <2>1, <2>2, <2>3 DEF StoredLive
<1> QED
  BY <1>2, <1>4, <1>5 DEF AtEase

LEMMA WorkflowTask ==
  ASSUME TypeOK
  PROVE  /\ "workflow" \in Lanes /\ task["workflow"] \in Task /\ task \in [Lanes -> Task]
         /\ task["workflow"].button \in Button
         /\ task["workflow"].button.revision \in Revisions
         /\ task["workflow"].button.action \in Actions
BY DEF TypeOK, Lanes, Task, Button

\* What a tap does before it moves the row.
LEMMA TapStepsCalm ==
  ASSUME TypeOK, Inv, Order, AtEase, UNCHANGED limits,
         \/ ReadToken("workflow") \/ Authorise("workflow") \/ Consume("workflow")
         \/ BeginSubmission("workflow") \/ Edit("workflow") \/ WipeCard("workflow")
         \/ Clear("workflow")
  PROVE  AtEase'
<1> USE DEF At, Doing
<1> DEFINE t == task["workflow"]
           b == t.button
<1>0. "workflow" \in Lanes /\ task \in [Lanes -> Task] /\ WorkflowCalm
      /\ b.revision \in Revisions /\ b.action \in Actions
  BY WorkflowTask DEF AtEase
<1>1. Idle.pc = "idle" /\ Idle.button.action = "edit"
  BY DEF Idle, Update, NoButton
<1>2. ~Mishap
  BY ButtonsAssumption DEF Mishap, limits, TypeOK
<1>3. CASE ReadToken("workflow")
  <2>1. t.pc = "token" /\ UNCHANGED <<row, tokens, shown>>
    BY <1>3 DEF ReadToken, card
  <2> DEFINE u == [t EXCEPT !.pc = "authorise", !.seen = Tapped("workflow").status]
  <2>2. task' = [task EXCEPT !["workflow"] = u]
    BY <1>0, <1>3 DEF ReadToken
  <2>3. u.pc = "authorise" /\ u.kind = t.kind
    BY WorkflowTask DEF Task
  <2> HIDE DEF u
  <2>4. WorkflowCalm'
    BY <1>0, <2>1, <2>2, <2>3 DEF WorkflowCalm
  <2> QED
    BY <2>1, <2>2, <2>3, <2>4, WorkflowStays DEF IssuingSteps, Good, Confirming
<1>4. CASE Authorise("workflow")
  <2>1. t.pc = "authorise" /\ UNCHANGED <<row, tokens, shown>>
    BY <1>4 DEF Authorise, card
  <2>2. CASE End("workflow")
    <3>1. WorkflowCalm'
      BY <1>0, <1>1, <2>2 DEF WorkflowCalm, End
    <3> QED
      BY <1>1, <2>1, <2>2, <3>1, WorkflowStays DEF IssuingSteps, Good, Confirming, End
  <2>3. CASE Authorised("workflow") /\ ~End("workflow")
    <3> DEFINE pc == IF b.action \in OneShot THEN "consume" ELSE "act"
               u == [t EXCEPT !.read = row, !.pc = pc]
    <3>1. pc \in {"consume", "act"} /\ (pc = "act" => b.action # "confirm")
      BY DEF OneShot
    <3>2. task' = [task EXCEPT !["workflow"] = u]
      BY <1>0, <1>4, <2>3 DEF Authorise
    <3> HIDE DEF pc
    <3>3. u.pc = pc /\ u.kind = t.kind /\ u.button = b
      BY WorkflowTask DEF Task
    <3> HIDE DEF u
    <3>4. row.revision = b.revision /\ row.state \in Origin(b.action)
      <4>1. row.state # Absent /\ row.state = Tapped("workflow").state
            /\ row.revision = b.revision
        BY <1>0, <2>1, <2>3 DEF Authorised, Order, Past, Quiet
      <4>2. Tapped("workflow").state \in Origin(b.action) \cup {Absent}
        BY <1>0 DEF Order, TokensPast, Tapped
      <4> QED
        BY <4>1, <4>2
    <3>5. WorkflowCalm'
      BY <1>0, <2>1, <3>1, <3>2, <3>3, <3>4 DEF WorkflowCalm
    <3> QED
      BY <2>1, <3>1, <3>2, <3>3, <3>5, WorkflowStays DEF IssuingSteps, Good, Confirming
  <2> QED
    BY <1>4, <2>2, <2>3 DEF Authorise
<1>5. CASE Consume("workflow")
  <2>1. t.pc = "consume" /\ UNCHANGED <<row, shown>> /\ t.kind = "tap"
    BY <1>0, <1>5 DEF Consume, card, WorkflowCalm
  <2>2. CASE End("workflow") /\ UNCHANGED tokens
    <3>1. WorkflowCalm'
      BY <1>0, <1>1, <2>2 DEF WorkflowCalm, End
    <3> QED
      BY <1>1, <2>1, <2>2, <3>1, WorkflowStays DEF IssuingSteps, Good, Confirming, End
  <2>3. CASE /\ ConsumeMay("workflow") /\ Step("workflow", "act")
             /\ tokens' = [tokens EXCEPT ![b.revision][b.action].status = "used"]
    <3> DEFINE u == [t EXCEPT !.pc = "act"]
    <3>1. task' = [task EXCEPT !["workflow"] = u]
      BY <1>0, <2>3 DEF Step
    <3>2. u.pc = "act" /\ u.kind = t.kind /\ u.button = b
      BY WorkflowTask DEF Task
    <3> HIDE DEF u
    <3>3. row.revision = b.revision /\ \A k \in Lanes : ~Issuing(k)
      <4>1. row.revision = b.revision
        BY <1>0, <2>1 DEF WorkflowCalm
      <4> QED
        BY <1>0, <2>1, <4>1, ShownNotOwned DEF Owning, Issuing, OwningSteps
    <3>4. WorkflowCalm'
      BY <1>0, <2>1, <3>1, <3>2 DEF WorkflowCalm
    <3>5. row.state = "REVIEW" /\ Good => Good' \/ Confirming'
      <4>1. b.action = "confirm" => Confirming'
        BY <1>0, <3>1, <3>2 DEF Confirming
      <4>2. b.action # "confirm" => tokens'[row.revision]["confirm"] = tokens[row.revision]["confirm"]
        <5>1. tokens \in [Revisions -> [Actions -> Token]] /\ "confirm" \in Actions
          BY DEF TypeOK, Actions
        <5> QED
          BY <1>0, <2>3, <3>3, <5>1
      <4> QED
        BY <2>1, <4>1, <4>2 DEF Good
    <3>6. ~Confirming
      BY <2>1 DEF Confirming
    <3> QED
      BY <2>1, <3>1, <3>2, <3>3, <3>4, <3>5, <3>6, WorkflowStays DEF IssuingSteps
  <2> QED
    BY <1>5, <2>2, <2>3 DEF Consume
<1>6. CASE BeginSubmission("workflow")
  <2> DEFINE u == [t EXCEPT !.pc = "submit"]
  <2>1. /\ t.pc = "act" /\ UNCHANGED <<row, tokens>> /\ b.action \in {"confirm", "retry"}
        /\ t.kind = "tap"
        /\ shown' = IF b.action = "confirm" THEN {} ELSE shown
    BY <1>2, <1>6 DEF BeginSubmission
  <2>2. task' = [task EXCEPT !["workflow"] = u]
    BY <1>0, <1>2, <1>6 DEF BeginSubmission, Step
  <2>3. u.pc = "submit" /\ u.kind = t.kind /\ u.button = b
    BY WorkflowTask DEF Task
  <2> HIDE DEF u
  <2>4. WorkflowCalm'
    BY <1>0, <2>1, <2>2, <2>3 DEF WorkflowCalm
  <2>5. /\ b.action = "confirm" => Confirming'
        /\ b.action # "confirm" => ~Confirming /\ (Good => Good')
    BY <1>0, <2>1, <2>2, <2>3 DEF Confirming, Good
  <2> QED
    BY <2>1, <2>2, <2>3, <2>4, <2>5, WorkflowStays DEF IssuingSteps
<1>7. CASE Edit("workflow")
  <2>1. t.pc = "act" /\ UNCHANGED <<row, tokens, shown>> /\ End("workflow") /\ b.action = "edit"
    BY <1>7 DEF Edit, card
  <2>2. WorkflowCalm'
    BY <1>0, <1>1, <2>1 DEF WorkflowCalm, End
  <2> QED
    BY <1>1, <2>1, <2>2, WorkflowStays DEF IssuingSteps, Good, Confirming, End
<1>8. CASE WipeCard("workflow")
  <2>1. t.pc = "wipe" /\ UNCHANGED <<row, tokens>> /\ End("workflow")
    BY <1>8 DEF WipeCard
  <2>2. WorkflowCalm' /\ row.state # "REVIEW"
    BY <1>0, <1>1, <2>1 DEF WorkflowCalm, End
  <2> QED
    BY <1>1, <2>1, <2>2, WorkflowStays DEF IssuingSteps, End
<1>9. CASE Clear("workflow")
  <2>1. t.pc = "clear" /\ UNCHANGED row /\ row.state = "CANCELLED"
    BY <1>0, <1>9 DEF Clear, Order, Fits, Place
  <2>2. \A l \in Lanes : ~Issuing(l)
    BY <2>1 DEF Order, Fits, Progress, Offering
  <2>3. CASE End("workflow")
    <3>1. WorkflowCalm'
      BY <1>0, <1>1, <2>3 DEF WorkflowCalm, End
    <3> QED
      BY <1>1, <2>1, <2>2, <2>3, <3>1, WorkflowStays DEF IssuingSteps, End
  <2>4. CASE Step("workflow", "wipe")
    <3> DEFINE u == [t EXCEPT !.pc = "wipe"]
    <3>1. task' = [task EXCEPT !["workflow"] = u]
      BY <1>0, <2>4 DEF Step
    <3>2. u.pc = "wipe" /\ u.kind = t.kind
      BY WorkflowTask DEF Task
    <3> HIDE DEF u
    <3>3. WorkflowCalm'
      BY <1>0, <2>1, <3>1, <3>2 DEF WorkflowCalm
    <3> QED
      BY <2>1, <2>2, <3>1, <3>2, <3>3, WorkflowStays DEF IssuingSteps
  <2> QED
    BY <1>9, <2>3, <2>4 DEF Clear
<1> QED
  BY <1>3, <1>4, <1>5, <1>6, <1>7, <1>8, <1>9

\* A move of the row: by a tap in the workflow lane, or by the creation.
LEMMA MovesCalm ==
  ASSUME TypeOK, AtEase, NEW l \in Lanes, NEW s, NEW t,
         t.offer \in Seq(Actions), t.todo = t.offer,
         task' = [task EXCEPT ![l] = t], row'.state = s,
         \A k \in Lanes : k # l => ~Owning(k),
         t.pc \in {"invalidate", "outcome", "clear", "wipe"},
         s = "REVIEW" => t.pc = "invalidate",
         \/ l = "workflow" /\ t.kind = "tap"
         \/ l = "collection" /\ t.kind = "create" /\ t.pc = "invalidate" /\ At("workflow", "idle")
  PROVE  AtEase'
<1>0. /\ task'[l] = t /\ \A k \in Lanes : k # l => task'[k] = task[k]
      /\ Lanes = {"workflow", "collection"}
  BY DEF TypeOK, Lanes
<1>1. CollectionCalm'
  BY <1>0 DEF AtEase, CollectionCalm, At, IssuingSteps
<1>2. WorkflowCalm'
  <2>1. CASE l = "workflow"
    BY <1>0, <2>1 DEF WorkflowCalm, At
  <2>2. CASE l = "collection"
    BY <1>0, <2>2 DEF WorkflowCalm, At
  <2> QED
    BY <2>1, <2>2
<1>3. Confirmable'
  BY <1>0 DEF Confirmable, Issuing, IssuingSteps
<1>4. ASSUME NEW k \in Lanes, Issuing(k)' PROVE StoredLive(k)'
  <2>1. k = l
    BY <1>0, <1>4 DEF Issuing, Owning, OwningSteps
  <2>2. Len(t.offer) \in Nat
    OBVIOUS
  <2>3. Stored(l)' = 0
    BY <1>0, <2>2 DEF Stored
  <2> QED
    BY <2>1, <2>3 DEF StoredLive
<1> QED
  BY <1>1, <1>2, <1>3, <1>4 DEF AtEase

LEMMA MoveAndCalm ==
  ASSUME TypeOK, AtEase, NEW s, NEW pc \in {"invalidate", "outcome", "clear", "wipe"},
         NEW offer \in Seq(Actions), MoveAnd("workflow", s, pc, offer),
         task["workflow"].kind = "tap",
         s = "REVIEW" => pc = "invalidate",
         \A k \in Lanes : k # "workflow" => ~Owning(k)
  PROVE  AtEase'
<1> DEFINE new == row'
           t == [task["workflow"] EXCEPT !.pc = pc, !.read = new, !.todo = offer,
                                         !.offer = offer]
<1>0. "workflow" \in Lanes /\ task["workflow"] \in Task /\ task \in [Lanes -> Task]
  BY WorkflowTask
<1>1. task' = [task EXCEPT !["workflow"] = t] /\ row'.state = s
  BY <1>0 DEF MoveAnd, Move
<1> HIDE DEF new
<1>2. t.pc = pc /\ t.todo = offer /\ t.offer = offer /\ t.kind = task["workflow"].kind
  BY <1>0 DEF Task
<1> HIDE DEF t
<1> QED
  BY <1>0, <1>1, <1>2, MovesCalm

\* In a calm run no tap is refused once it was authorised.
LEMMA TapMovesCalm ==
  ASSUME TypeOK, Inv, Order, AtEase,
         \/ Toggle("workflow") \/ Cancel("workflow") \/ Submit("workflow")
         \/ Outcome("workflow") \/ Reconcile("workflow")
  PROVE  AtEase'
<1> USE DEF At, Doing
<1> DEFINE t == task["workflow"]
           b == t.button
<1>0. /\ "workflow" \in Lanes /\ task \in [Lanes -> Task] /\ WorkflowCalm
      /\ b.revision \in Revisions /\ b.action \in Actions /\ t \in Task
  BY WorkflowTask DEF AtEase
<1>1. t.kind = "tap" /\ t.pc \in {"act", "submit", "outcome"}
  BY <1>0 DEF WorkflowCalm, Toggle, Cancel, Submit, Outcome, Reconcile
<1>2. /\ <<>> \in Seq(Actions) /\ PreviewActions \in Seq(Actions)
      /\ <<"retry", "cancel">> \in Seq(Actions) /\ <<"reconcile", "cancel">> \in Seq(Actions)
  BY DEF Actions, PreviewActions
<1>3. t.pc \in {"act", "submit"} =>
        /\ row.revision = b.revision /\ row.state \in Origin(b.action)
        /\ \A k \in Lanes : ~Owning(k)
  <2> SUFFICES ASSUME t.pc \in {"act", "submit"}
               PROVE  /\ row.revision = b.revision /\ row.state \in Origin(b.action)
                      /\ \A k \in Lanes : ~Owning(k)
    OBVIOUS
  <2>1. row.revision = b.revision /\ row.state \in Origin(b.action)
    BY <1>0 DEF WorkflowCalm
  <2> QED
    BY <1>0, <1>1, <2>1, ShownNotOwned
<1>4. Idle.pc = "idle" /\ row.state \in Reached
  BY DEF Idle, Update, Order, Past
<1>5. ASSUME End("workflow"), UNCHANGED <<row, tokens, card>>, b.action # "confirm",
             t.pc \in {"act", "submit"}
      PROVE  AtEase'
  <2>1. WorkflowCalm'
    BY <1>0, <1>4, <1>5 DEF WorkflowCalm, End
  <2> QED
    BY <1>4, <1>5, <2>1, WorkflowStays DEF IssuingSteps, Good, Confirming, End, card
<1>6. CASE Toggle("workflow")
  <2>1. SaveAccepted(b.revision)
    BY <1>3, <1>6 DEF Toggle, SaveAccepted, Origin
  <2> QED
    BY <1>1, <1>2, <1>3, <1>6, <2>1, MoveAndCalm DEF Toggle
<1>7. CASE Cancel("workflow")
  <2>1. CASE MoveAnd("workflow", "CANCELLED", "clear", <<>>)
    BY <1>1, <1>2, <1>3, <1>7, <2>1, MoveAndCalm DEF Cancel
  <2>2. CASE End("workflow") /\ UNCHANGED row
    BY <1>5, <1>7, <2>2 DEF Cancel
  <2> QED
    BY <1>7, <2>1, <2>2 DEF Cancel
<1>8. CASE Submit("workflow")
  <2>1. b.action \in {"confirm", "retry"}
    BY <1>0, <1>8 DEF Submit, Inv, TapsKnown
  <2>2. row.revision = b.revision /\ row.state \in {"REVIEW", "SUBMISSION_RETRYABLE"}
    BY <1>3, <1>8, <2>1 DEF Submit, Origin
  <2>3. SubmitAccepted("workflow")
    BY <1>4, <2>2, MovesAllowed DEF SubmitAccepted, CasAccepted
  <2>4. MoveAnd("workflow", "SUBMITTING", "outcome", <<>>)
    BY <1>8, <2>3 DEF Submit
  <2> QED
    BY <1>1, <1>2, <1>3, <1>8, <2>4, MoveAndCalm DEF Submit
<1>9. CASE Outcome("workflow")
  <2>1. \A k \in Lanes : k # "workflow" => ~Owning(k)
    BY <1>0, <1>9 DEF Outcome, Order, Fits, Alone, TypeOK, Row
  <2>2. \/ MoveAnd("workflow", "CREATED", "wipe", <<>>)
        \/ MoveAnd("workflow", "SUBMISSION_RETRYABLE", "wipe", <<>>)
        \/ MoveAnd("workflow", "SUBMISSION_UNKNOWN", "wipe", <<>>)
        \/ MoveAnd("workflow", "SUBMISSION_RETRYABLE", "invalidate", <<"retry", "cancel">>)
        \/ MoveAnd("workflow", "SUBMISSION_UNKNOWN", "invalidate", <<"reconcile", "cancel">>)
    BY <1>9 DEF Outcome
  <2> QED
    BY <1>1, <1>2, <2>1, <2>2, MoveAndCalm
<1>10. CASE Reconcile("workflow")
  <2>1. CASE MoveAnd("workflow", "CREATED", "wipe", <<>>)
    BY <1>1, <1>2, <1>3, <1>10, <2>1, MoveAndCalm DEF Reconcile
  <2>2. CASE End("workflow") /\ UNCHANGED row
    BY <1>5, <1>10, <2>2 DEF Reconcile
  <2> QED
    BY <1>10, <2>1, <2>2 DEF Reconcile
<1> QED
  BY <1>6, <1>7, <1>8, <1>9, <1>10

LEMMA CreateCalm ==
  ASSUME TypeOK, Order, AtEase, CreateDraft PROVE AtEase'
<1> DEFINE t == Update("create", "invalidate", NoButton, row', PreviewActions)
<1>1. /\ task' = [task EXCEPT !["collection"] = t] /\ row'.state = "REVIEW"
      /\ row.state = Absent /\ "collection" \in Lanes
  BY DEF CreateDraft, Lanes
<1>2. /\ t.pc = "invalidate" /\ t.kind = "create" /\ t.todo = t.offer
      /\ t.offer = PreviewActions /\ PreviewActions \in Seq(Actions)
  BY DEF Update, PreviewActions, Actions
<1> HIDE DEF t
<1>3. At("workflow", "idle") /\ \A k \in Lanes : ~Owning(k)
  BY <1>1 DEF Order, Past, Quiet, At, Owning, OwningSteps, IssuingSteps, Lanes
<1> QED
  BY <1>1, <1>2, <1>3, MovesCalm

LEMMA TapCalm ==
  ASSUME TypeOK, Order, AtEase, NEW b \in Button, Tap("workflow", b) PROVE AtEase'
<1> DEFINE u == Update("tap", "token", b, NoRow, <<>>)
<1>1. /\ task' = [task EXCEPT !["workflow"] = u] /\ task["workflow"].pc = "idle"
      /\ UNCHANGED <<row, tokens, shown>>
  BY DEF Tap, At, card
<1>2. u.pc = "token" /\ u.kind = "tap"
  BY DEF Update
<1> HIDE DEF u
<1>3. WorkflowCalm'
  BY <1>1, <1>2, WorkflowTask DEF WorkflowCalm, At
<1> QED
  BY <1>1, <1>2, <1>3, WorkflowStays DEF IssuingSteps, Good, Confirming

LEMMA HandleCalm ==
  ASSUME TypeOK, Inv, Order, AtEase, NEW l \in Lanes, Handle(l), UNCHANGED limits
  PROVE  AtEase'
<1>1. CASE InvalidateOld(l) \/ StoreButton(l) \/ ShowButtons(l) \/ TrackDraft(l)
  BY <1>1, InvalidateOldCalm, StoreButtonCalm, ShowButtonsCalm, TrackDraftCalm
<1>2. CASE l = "workflow" /\ ~(InvalidateOld(l) \/ StoreButton(l) \/ ShowButtons(l) \/ TrackDraft(l))
  <2>1. ~TextSave(l) /\ ~TextCancel(l)
    BY <1>2 DEF AtEase, WorkflowCalm, TextSave, TextCancel, At
  <2> QED
    BY <1>2, <2>1, TapStepsCalm, TapMovesCalm DEF Handle
<1>3. CASE l = "collection" /\ ~(InvalidateOld(l) \/ StoreButton(l) \/ ShowButtons(l) \/ TrackDraft(l))
  <2>1. task[l].pc \in {"idle", "invalidate", "store", "show", "track"}
    BY <1>3 DEF AtEase, CollectionCalm, At, IssuingSteps
  <2>2. task[l].pc \in {"wipe", "token", "authorise", "consume", "act", "clear", "submit",
                        "outcome", "save", "drop"}
    BY <1>3 DEF Handle, WipeCard, ReadToken, Authorise, Consume, Toggle, Edit, Cancel,
       Clear, BeginSubmission, Submit, Outcome, Reconcile, TextSave, TextCancel, At, Doing
  <2> QED
    BY <2>1, <2>2
<1> QED
  BY <1>1, <1>2, <1>3 DEF Lanes

\* In a run without mishaps and text messages a draft in review always gets,
\* and keeps until it is obeyed, a card with a live confirm button for the
\* revision the draft is at.
THEOREM ReviewIsConfirmableHolds == Spec => []ReviewIsConfirmable
<1>1. ASSUME TypeOK, Inv, Order, CalmInv, [Next]_vars PROVE CalmInv'
  <2>1. CASE UNCHANGED vars
    BY <1>1, <2>1 DEF vars, card, CalmInv, Calm, AtEase, CollectionCalm, WorkflowCalm,
       Confirmable, Good, Confirming, Issuing, StoredLive, Stored, At
  <2>2. CASE Next
    <3> SUFFICES ASSUME Calm' PROVE AtEase'
      BY DEF CalmInv
    <3>1. /\ Calm
          /\ \/ CreateDraft
             \/ \E b \in Button : Tap("workflow", b) /\ UNCHANGED limits
             \/ \E l \in Lanes : Handle(l) /\ UNCHANGED limits
      BY <1>1, <2>2, CalmSteps
    <3>2. AtEase
      BY <1>1, <3>1 DEF CalmInv
    <3> QED
      BY <1>1, <3>1, <3>2, CreateCalm, TapCalm, HandleCalm
  <2> QED
    BY <1>1, <2>1, <2>2
<1>2. CalmInv => ReviewIsConfirmable
  <2> SUFFICES ASSUME AtEase, row.state = "REVIEW", Quiet PROVE Good
    BY DEF CalmInv, Calm, Good, ReviewIsConfirmable
  <2>1. ~Confirming /\ \A l \in Lanes : ~Issuing(l)
    BY DEF Quiet, Confirming, Issuing, IssuingSteps, At, Lanes
  <2> QED
    BY <2>1 DEF AtEase, Confirmable
<1> QED
  BY <1>1, <1>2, InitCalm, ButtonsInvariance, ButtonsOrder, PTL DEF Spec

=============================================================================
