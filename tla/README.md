# DZTGBot in TLA+

DZTGBot is a Telegram bot that turns forwarded conversations and typed commands
into Jira issues. A *draft* is collected, reviewed on a card with buttons,
submitted to Jira once, and possibly edited, commented on and given attachments
afterwards. Everything that must survive a restart is in one SQLite file;
everything else lives in one asyncio process.

This directory models the parts of the bot where order matters: which task may
write which row, what a timeout or a crash between two writes leaves behind, and
what a tap on an old button may still do.

## 1. Inventory

Paths are under `src/src/dztgbot/`.

| Component | State | Operations | Who calls it |
|---|---|---|---|
| Draft FSM, `domain/fsm.py` | none (pure) | `is_transition_allowed`, `evaluate_transition` | every write of a workflow row |
| Workflow store, `infrastructure/persistence/workflow_sqlite.py` | tables `workflows`, `submission_attempts`, `published_issues`, `callback_tokens`, `attachments` | `save`, `compare_and_swap_state`, `claim_attempt`, `update_attempt`, `store_published_issue`, `store/consume/invalidate` of tokens, attachment status, expiry and deletion batches; each one immediate transaction | all services |
| Migrations, `persistence/migrations/` and `initialize` | `schema_migrations`, `user_version` | open, apply, verify | the composition root, one process or several |
| Submission service, `services/submission_service.py` | none of its own | `submit`, `recover_stalled`, `reconcile_create`, `allow_retry_after_negative_reconciliation`, `prepare/confirm_published_update`, `reconcile_update` | tap handler |
| Workflow service, `services/workflow_service.py` | none of its own | `create_manual_draft`, `update_template`, toggles, `cancel_draft`, `expire_eligible_drafts` | tap and text handlers, intake |
| Jira gateway, `infrastructure/jira_gateway.py` | HTTP client | create, update, upload, reads; classifies every answer by *mutation certainty* | services |
| Callback tokens, `services/callback_service.py`, `domain/policy.py` | rows of `callback_tokens` | `issue_preview_buttons`, `authorize`, `invalidate_preview_tokens` | tap handler, draft handlers |
| Tap handler, `ui/handlers/callbacks.py` | the card's keyboard (at Telegram), `user_data` | one branch per button | update processor |
| Draft handlers, `ui/handlers/drafts.py` | `user_data["active_draft_*"]` | `/create`, text edits | update processor |
| Keyed processor, `infrastructure/keyed_processor.py`, routing in `__main__.py` | lanes, capacity, waiters | one update at a time per key; admission, cancellation, close | Telegram application |
| Intake, `services/intake_service.py` | batches and timers per chat and user, LRU of seen messages | collect, flush on debounce, detach | message handlers |
| Resource limiter, `services/limits.py` | permits, queue, cooldowns | admit, acquire, release, close | gateways |
| Attachments, `services/attachment_service.py` | rows of `attachments` | `upload_pending` | tap handler |
| Connectivity and VPN, `services/connectivity_service.py`, `vpn.py`, `admin.py` | a cached status; the tunnel, which NetworkManager holds | probe, ensure, invalidate, start | PAT validation, admin commands |
| User store, `user_store.py`; rules, `rules.py` | JSON file, previous generation, cache | load, save, quarantine; reload on change | authentication, analysis |
| PAT conversation, `jira_auth.py` | conversation state, session start in `user_data`, timeout job | `/auth`, the PAT, `/cancel`, `/logout` | user |
| Gemini gateway, `infrastructure/gemini_gateway.py` | the model that answered last | analyse, with a retry per model | intake |
| Composition root, `__main__.py` | the open components, the order of handlers | start, stop, route | the process |
| Search and actions, notifications, card tracker, rendering, configuration | little or none | one request and one reply | handlers |

**How they interact.** Telegram updates enter the keyed processor, which runs a
handler per lane: taps on the buttons of a draft in the lane of its *workflow*,
messages in the *collection* lane of their user. A handler awaits services;
services await the repository (one transaction in a thread) and the gateway (one
HTTP exchange). Between two awaits nothing else runs; at every await anything
may. Rows are guarded by a revision (compare-and-swap) and the FSM.

**What is hard.**
Interleavings of two tasks on one row; an exchange with Jira that times out and
is applied later; a process that dies between two transactions of one call; a
search index that lags; a card whose buttons are older than the draft; a
one-shot token read by two taps before either consumes it. `PROJECT.json` lists each
hazard at its line, with the properties that would catch it, or why none does.

**What makes each component correct.**

* *Submission*: never two issues from one draft; what the bot says of a draft
  agrees with Jira; every unknown outcome blocks another dispatch; a created
  draft names its issue; every submission ends.
* *Buttons*: what is submitted is what the user saw; a double tap acts once; a
  draft in review has a button that works.
* *Store*: revision and FSM are compared with the write, in one transaction.
* *Published updates*: as submission, and an update is applied at most once as
  confirmed.
* *Attachments*: a file Jira acknowledged is not uploaded again.
* *Keyed processor and limiter*: exclusion and order per key, capacity never
  exceeded, no permit or place lost to a cancelled waiter, close terminates.
* *Intake*: each message is in exactly one flushed batch.
* *Retention*: nothing of unknown outcome expires or is deleted.
* *Files*: after a crash the store loads an acknowledged generation; an edit of
  the rules is noticed.
* *Migrations*: an opened database is the one this release expects.
* *PAT conversation*: only a text that was asked for goes to Jira.
* *Tunnel*: one start per outage.
* *Stop*: nothing is closed under what still uses it.
* *Model gateway*: a retry asks a model that has not failed yet.

## 2. Modules

| Module | Models | Lines of code behind it |
|---|---|---|
| `DraftFsm` | the states, `LegalTransitions`, the expirable, terminal and unknown sets | `domain/fsm.py` |
| `WorkflowStore` | `draft`, `attempts`, `latest`, `published` and, for each write, the condition under which its transaction commits and its effect | `workflow_sqlite.py`, the migrations |
| `Submission` | `submit`, `recover_stalled`, `reconcile_create`, `allow_retry_…`, with `update_template` and `cancel_draft` competing; Jira as an environment | `submission_service.py`, `workflow_service.py`, `jira_gateway.py` |
| `IssuePublication` | the abstract promise: open, asking, unsure, published, closed, and whether the issue exists | what `Submission` implements |
| `MCSubmission` | the symmetry set for TLC | |
| `SubmissionProofs` | the inductive invariants of `Submission`, their consequences, and the refinement of `IssuePublication` | |
| `PreviewButtons` | the tokens of one draft's card, the tap handler and the text handler in their two lanes | `callback_service.py`, `policy.py`, `ui/handlers/*.py` |
| `ButtonsProofs` | invariance proofs for `PreviewButtons` | |
| `KeyedProcessor` | admission, the chain of turns per key, execution slots, cancellation, close | `keyed_processor.py` |
| `KeyedQueue` | the abstract promise: a lane per key, a door, and who waits for whom | what `KeyedProcessor` implements |
| `KeyedProofs` | invariance proofs for `KeyedProcessor`, and the refinement of `KeyedQueue` | |
| `PublishedDraft` | uploads and updates of a draft whose issue exists: its row, its attachment rows, its attempts, and the issue at Jira | `attachment_service.py`, `submission_service.py` (published updates), `jira_gateway.py` |
| `Semaphores` | the value of an `asyncio.Semaphore`, as pure operators | external |
| `ResourceLimiter` | admission, the two permits, retries, cooldown, cancellation, close | `services/limits.py` |
| `Intake` | batches, deadlines, sealing, the analysis of a batch against the user's edits | `intake_service.py`, the scheduler in `infrastructure/__init__.py` |
| `UserStore` | the two generations of the file, memory, writer threads that outlive their caller, crashes | `user_store.py` |
| `RulesStore` | the two files, the observed signature, edits from outside | `rules.py` |
| `Migrations` | processes of different releases opening one database | `workflow_sqlite.py` (`initialize`), `migrations/` |
| `Conversation` | which handler takes an update; the PAT conversation and its timeout job | `jira_auth.py`, `__main__.py` (registration) |
| `Connectivity` | the cached status and the tunnel, with callers of both | `connectivity_service.py`, `vpn.py`, `admin.py` |
| `Lifecycle` | the order in which components open and close, updates and timers going on | `__main__.py` (`run`), the scheduler |
| `GeminiGateway` | which model is asked when, over concurrent analyses | `gemini_gateway.py` |
| `Retention` | expiry and deletion batches against tasks that edit and submit | `workflow_sqlite.py`, with the two services |
| `MCParts` | composes the modules from `PublishedDraft` to `Retention` for one run | |
| `PublishedProofs`, `LimiterProofs`, `IntakeProofs` | proofs about the module of that name | |
| `PersistenceProofs` | proofs about `Retention`, `Migrations`, `UserStore`, `RulesStore` | |
| `ServicesProofs` | proofs about `Conversation`, `Connectivity`, `Lifecycle`, `GeminiGateway`, and about all of `MCParts` together | |

### From code to actions

**An action is the code between two awaits.** A worker of `Submission` is one
task in one service call; its record holds the call's local variables (the
draft as read, the attempt, the outcome). `SubmitRead`, `SubmitCas`,
`NewAttempt`, `SubmitClaim`, `Dispatch`, `Receive…`, `Settle`, `Publish` and
`Finish` are the awaits of `submit` in their order; the last three are the tail
`recover_stalled`, `reconcile_create` and the release share. `Abort` ends a task
at any await: a crash, a cancellation, a repository that raises. A restart is
every task aborted; the tables survive.

`WorkflowStore` keeps no actions: each of its operators is the guard or the
effect of one transaction, and the service modules combine them, both outcomes
of a guard being modelled (a refused write raises and ends the call).

**Jira** is external. A request that was sent is `inflight` until it is applied,
rejected or lost, at any time, the sender waiting or not. The gateway's
classification is in `ReceiveCreated` (2xx), `ReceiveRejection` (4xx),
`ReceiveNothing` (timeout, transport error, 5xx: unknown) and
`ReceiveContractError` (a 2xx it cannot read). A search by hash sees any subset
of the matching issues, as the index lags.

**Templates** stand for contents; the request hash of a draft *is* its template,
as the hash is taken over the content alone.

**`PreviewButtons`** has two tasks, the lanes. A tap reads the token, authorises
it, consumes it if it is one-shot, and acts; then the row moves and the buttons
of the next card are issued: invalidate all, store one by one, show. `known` is
every button the user was ever shown, and all of them may be tapped at any time.
What a submission does inside is `Submission`'s; here it moves the row twice.

**`KeyedProcessor`** has one record per call. A key's order is a chain of
futures: a call waits for the future that was the tail of its entry, and puts its
own there; the caller names its future, and the creator its entry. The
state lock is never held over an await, so taking it does not suspend, and the
whole `finally` block is one action (`End`, `CancelTurn`, `CancelSlot`). A caller
that gives up before its predecessor is done leaves its future in `deferred`, to
be completed by a callback (`CompleteDeferred`). The semaphore is external:
`granted` are waiters that were given a slot and have not resumed, the moment a
cancellation is most likely to lose one.

**`PublishedDraft`** has one task per *clerk*, in an upload, a preparation, a
confirmation or a reconciliation. `todo` is the list a call read at its start, so
a file's status may have moved since (`ClaimFile` then passes it over, as the
conditional update does). Of an upload only whether Jira stored the file matters;
of an update the request lives on after its sender (`JiraUpdates`), and `late`
notes those applied when nobody waited any more.

**`ResourceLimiter`** is one resource kind. The registry of gates, their
references and their semaphores are separate variables, because a gate may be
dropped while a call still holds a permit of an older one; a gate is named after
the call that made it. `Semaphores` hands a released permit to the first waiter,
who has it before it resumes, as asyncio does. Whoever resumes, or is cancelled
while it waits, hands on what is free (`HandedOn`): a permit released while another
waiter was being woken is otherwise kept from the queue.

**`Intake`**: a deadline is a pair of batch and generation. `timers` can be
cancelled, `soon` (a full batch) cannot, and `tasks` are deadlines that have
fired and not begun: other calls come in between. What follows a sealing is one
action per await, with `UserEdits` and `UserCancels` between any two.

**`UserStore`, `RulesStore`**: a write is made of the thread's steps on the file
system. A cancelled caller gives the lock back and its thread goes on, which is
what makes two writers possible; a crash leaves the files as they are. `diverged`
and `missed` are history variables: they name the circumstances the properties
except, and no action reads them.

**`Migrations`**: a migration, its row and the version are one transaction, hence
one action; the rows it is compared with were read before.

**`Conversation`** is one private chat. `HandlerOf` is the first handler in order
of registration whose filter accepts an update. `jobQueue` is whether the job
queue is installed: `requirements.txt:3` does not ask for the extra that brings
it, and without it no conversation times out; both are checked. `Identities` is
what Jira's client may return for a valid PAT: `{"empty"}` is the deployment.

**`Connectivity`** has the two locks, of the cached status and of the manager.
Every query of the tunnel may fail, and `blind` marks a start that went ahead
after one that did.

**`Lifecycle`** is two orders, `StartOrder` and `StopOrder`, walked while
handlers and timers use what they use. The stop may begin at any step of the
start.

**`Retention`** leaves times out: which drafts are due or old enough is left
open. Its submissions stop at their first outcome, the rest being `Submission`'s.

What the modules leave out on purpose:

* `submit` in `Submission` takes the revision it read; the token's revision,
  which the tap handler passes, is in `PreviewButtons`.
* The link to a configured target issue after a create
  (`submission_service.py:132-143`): its errors are swallowed and it writes
  nothing of the bot's.
* The card of a forwarded draft is made in `__main__.py:331-356` by the steps of
  `CreateDraft`.
* `TextSave` is the save and the write of `user_data` after it in one action: no
  other code that reads `user_data` runs in between in that lane.
* One draft per card; `user_data` moving to another draft is not modelled.
* In the shipped wiring a text message never reaches `handle_draft_reply_text`
  (finding below). `PreviewButtons` models the handler as written;
  `MaxTexts = 0` is the deployment.

## 3. Runs

Every bound is a CONSTANT named in its module.

| Run | Question | Bounds |
|---|---|---|
| `submission_core` | all safety properties and the refinement, with Jira readable and reviews truthful | 3 workers, 1 draft, 2 contents, 2 keys, 2 attempts, 1 abort, edits from revisions below 3 |
| `submission_live` | does a submission settle, whatever Jira answers | 2 workers, unreadable answers too, no abort, no symmetry, `FairSpec` |
| `buttons` | the card: taps on any button, text edits, one mishap anywhere | revisions to 6, 2 texts, 1 mishap |
| `keyed` | the processor: exclusion per key, the refinement of `KeyedQueue`, slots, liveness of turns and of close | 4 calls, 3 keys, 2 slots, 1 queue place, any number of cancellations |
| `parts` | the components that share no state with one another | see below |
| `crash_windows`, `identical_content`, `malformed_reply`, `unsettled_card`, `lost_attachment`, `auth_unbound`, `shadowed_text` | disagreements of code and documents: TLC finds each statement violated | small; see section 5 |

**`parts`** is a sum, not a product. The variable `focus` names one component in
the initial state and never changes; only that component moves, the others rest
in a fixed initial state. So TLC explores each of the eleven state spaces in full
and none of their combinations, which would add nothing: no action of one reads a
variable of another.

| Component in `parts` | Bounds | Why they are enough |
|---|---|---|
| limiter | 4 calls, 2 actors, 2 global and 2 actor permits, 1 queue place, 1 retry, cooldown after 2 failures; two calls are of one actor (`TwoCalls`), the others of either | three calls of one actor meet at its gate and the fourth at the pool; two permits come back before the first woken waiter resumes, a call is refused, and a gate is dropped and made anew |
| published draft | 2 clerks, 1 file, 2 contents, 2 updates, 1 aborted task | two calls race at every await; an old update crosses a new one |
| intake | 2 scopes, 2 messages, batches of 2, memory of 2, 2 batches | full batches, a message redelivered before and after it leaves the memory |
| user store | 1 user, 2 tokens, 1 language, 2 threads, 1 cancelled caller, 1 damage, any number of crashes | a thread left behind writes against the next one |
| rules | 2 texts, 2 writes of cancelled calls | an edit from outside between any two steps |
| migrations | 2 processes, 4 releases, two of which disagree on what comes next | every race of equal, older, newer and divergent releases |
| conversation | one user, with and without a job queue | every order of updates, the timeout and handlers that raise |
| tunnel | 3 callers | two who saw it down and one who comes later |
| lifecycle | 2 handlers, 2 jobs | one ends while the other goes on |
| models | 2 analyses, 2 models, 1 retry | one changes the preference between the other's attempts |
| retention | 2 drafts, 2 tasks, batches of 1, edits from revisions below 3 | a draft is taken by a batch while a task holds an old copy of it |

*Why the other bounds suffice.* Two submits race for the row while a third task edits,
cancels, recovers or reconciles: three workers. A second attempt exists only
after a first, so two attempts show every order of an old and a new dispatch;
two keys let a second issue exist. One abort puts a crash at every await of
every call. Edits bounded by the revision they *start* from leave all the
revisions a submission needs. In `buttons`, a draft goes through two changes and
a submission with a retry; a mishap is a failed call, a restart, an expired
token, a missing credential or a tap that landed in the collection lane. Of a
second draft only the shared hash and the unique key matter:
`identical_content` has two. In `keyed`, four calls with a capacity of three fill the
queue and are refused, make a chain of three whose middle gives up, and let a
key's entry be dropped and made anew. The theorems of section 4 hold for every
value of the constants.

Deadlock is not checked: a finite number of attempts, texts and revisions means
the models stop when they are used up, and the bot idles when nobody writes to
it.

*Symmetry* is over interchangeable workers, contents and keys and is used only
where the properties are invariants and step properties, never for liveness.

*Fairness.* `FairSpec` asks weak fairness of `Proceed(w)`, the steps of a call
that has begun. The event loop runs every ready task, each transaction ends (a
busy timeout), and each exchange ends (the HTTP client's timeout makes
`ReceiveNothing` always possible). Nothing is asked of Jira, of users or of the
beginning of calls. Without aborts: a crash leaves the row to `recover_stalled`,
which production never calls. In `KeyedProcessor` fairness is of `Go(c)`, what a call
does by itself, and of the resumption of `close`; that operations end is the
assumption that every exchange in them has a timeout.

### What the properties say

* `AtMostOneIssue`, `OpenMeansNotCreated`, `IssueIsWhatWasConfirmed`: what the
  bot says agrees with Jira.
* `NoDispatchWhileUnresolved`, `ClaimNeverRefused`: the move to SUBMITTING is a
  lock and the attempts are its log. Both are proved without a hypothesis on
  Jira's answers or on reviews.
* `CreatedIsBacked`, `PublishedIsStable`: the three writes of an outcome leave
  nothing half done that a later call takes for done.
  The second allows for the exchange of an issue by that of another draft with the
  same content, which the search cannot tell apart.
* `ImplementsPublication`: the whole is `IssuePublication`.
* `SubmissionSettles`: liveness.
* `DoubleTapActsOnce`, `SubmitsWhatWasShown`, `IssuingNeverConflicts`,
  `ReviewIsConfirmable`: the card.
* `OneAtATimePerKey`, `SlotsAreConserved`, `ClosedMeansDrained`, `EveryTurnComes`,
  `CloseDrains`: the processor, with callers giving up anywhere. No slot is lost, and
  none lies free beside waiters that nobody is about to wake.
* `ImplementsKeyedQueue`: a call starts when every call that was in its lane before it
  has left, and not before; it is let in and turned away as the queue says.
  Futures, entries and slots do not show.
* `AcknowledgedIsNotResent`: no file is uploaded after Jira acknowledged it,
  whatever races or dies. (A file whose answer was lost may be uploaded twice:
  the code retries it, and no document says otherwise.)
* `NoUpdateWhileUnresolved`, `CompleteMatchesIssue`: a draft that says it is done
  has the issue's content, unless an update nobody waited for overtook it.
* `PermitsAreConserved`, `ActorKeepsToItsShare`, `ClosedMeansDrained`: the limiter.
  The first also says that no permit lies free beside a queue that nobody is about
  to wake. The second is why the gate of an actor is taken before the global permit.
* `NoMessageTwice`, `PendingHasDeadline`, `UserHasTheLastWord`: intake, with an
  analysis that ends after the user has edited or cancelled.
* `RestartFindsCredentials`: at every instant, a crash would find each user's
  credentials as memory has them or as a write under way leaves them.
* `NoChangeIsMissed`: the rules in use are those of the file whose signature was
  observed. The exceptions are part of the statement.
* `ReadyMeansMigrated`, `OneStartPerOutage`, `NothingIsUsedClosed`,
  `NoModelIsAskedTwice`, `LateInputIsNotUsed`: one each for what can interleave.
* `UnresolvedIsKept`: the only record of an issue that may exist is kept.

Each has a mutant of the code in its module (marked "Mutant of …") that violates
it under the same configuration.

## 4. Proofs

`SubmissionProofs` proves `Spec => []Inv` for any number of workers, drafts,
contents, keys, attempts and aborts, and from it `TypeOK`,
`NoDispatchWhileUnresolved` and `ClaimNeverRefused` without hypotheses, and
`AtMostOneIssue`, `OpenMeansNotCreated` and `IssueIsWhatWasConfirmed` under
`~MalformedReplies /\ TrustworthyReview` (written out in the theorems). `malformed_reply`
shows that the first hypothesis is needed.

None of these is inductive: they speak of Jira and of the rows, and what keeps
them true is what each task *knows*. `Inv` adds it.

1. *Lock.* The winner of the compare-and-swap into SUBMITTING is the only submit
   task whose revision is the row's (`Exclusive`), and until it has claimed an
   attempt all attempts of the draft are closed (`HoldsLock`).
2. *Closed.* A closed attempt is recorded as failed and, answers and reviews
   being trustworthy, its request can no longer make an issue.
3. *Giving back.* A row goes back to the user only through a task that still has
   the row's revision and knows the latest attempt closed (`SubmitTask`,
   `RetryTask`); a task with an older revision is refused by the
   compare-and-swap.

So every attempt but the latest is closed, and one attempt has at most one issue.

A second invariant over the first, `Backed`, is about the tail of a call: a task that
settles a success has an issue with the content of its attempt in hand and stores
it before it moves the row (`TaskBacked`), and of the attempts only the latest is
not failed, with the content of the draft (`RowBacked`). It gives
`CreatedIsBacked` without hypotheses and `PublishedIsStable` under the same two.
With these, every step is a step of `IssuePublication` or a stutter: the theorem
`Refinement`, `ImplementsPublication`. It has one hypothesis more, `DistinctContent`:
where two drafts have the same content, a reconciliation may adopt the issue of the
other (`identical_content`), and the draft is called published without an issue of
its own. The run of `submission_core` has one draft, so it holds there by itself.

The assumptions are the ASSUMEs of `WorkflowStore` and `Submission` (distinct
null values, natural bounds). One lemma per group of actions, one step per
conjunct that the action can disturb.

`ButtonsProofs` proves that every tap carries a button that was shown, and that
whatever acts on a one-shot button has its token marked as used and no longer
consumable (`Spent`), and from this `DoubleTapActsOnce` and
`SubmitsWhatWasShown`, for any bounds. The keyed processor's order between lanes
is not used for them: two taps of one button are safe in two lanes at once.

Two further invariants of the same module are about issuing. `Order` relates the
tokens, the row and what each update has read: no button and no update knows a
revision the row has not reached (`Past`), no token is of a later one
(`TokensPast`), and whoever issues is alone with the revision it read (`Alone`) and
has stored the buttons it offered up to the next (`Progress`). It is inductive
because every move of the row compares its revision with that of a button or of a
row that was read. The reconciliation alone does not; it is safe because
SUBMISSION_UNKNOWN is entered once, so the row is where its button was issued or is
already CREATED (`Reconciling`). This gives `TypeOK` and `IssuingNeverConflicts`.
`AtEase` is what a run without mishaps and text messages keeps: taps come in the
workflow lane only, what a tap was authorised for still holds when it acts
(`WorkflowCalm`), and a draft in review has its confirm button, or is about to get
it, or the button is being obeyed (`Confirmable`). This gives `ReviewIsConfirmable`.

`KeyedProofs` proves exclusion per key, the two bounds (running and admitted
calls), conservation of slots, and that `close` returns only when drained, for any
number of callers, keys and slots. Exclusion needs two facts. The unfinished
futures of an entry can be *ranked* along the chain, so at most one of them has
its predecessor done (`Ranked`); the ranking is what makes a call that gives up
in the middle harmless. And the count of references of an entry is the number of
its calls (`Counted`), so an entry that is dropped has none and two calls of one
key always share an entry (`Placed`). `ProcessorAssumption` asks for finitely
many callers and at least one slot.

Conservation of slots includes that a free slot is on offer: when one is free and
calls wait for one, somebody is being woken (`Slotted`). Together with the ranking
this gives `KeyedNeverStuck`: while a call is in the processor, a call runs, or was
given its slot, or has its turn, or the callback of one that gave up is due. The
unfinished future of lowest rank waits for none, and if its call waits for a slot,
all slots are in use or on their way.

`KeyedRefinement` is `Spec => ImplementsKeyedQueue`. The calls ahead of one are defined
without recursion, as the least set of futures that contains its predecessor and is
closed under predecessors (`Ahead`, `ChainOf`); the queue's `ahead` is those of them
that are still in. Three facts on top of `Inv` make the map work (`Ordered`):

* the completed futures are closed under predecessors (`DoneBackward`), as a future is
  completed, by its call or by a callback, only after its predecessor. So they
  contain the whole chain of a call that runs, and nobody in it is still in: the
  queue's `Start` is enabled (`NobodyAhead`). `NoOvertaking` says the same of states;
* predecessors, entries and tails stay within one key (`Linked`), also when an entry
  is dropped and made anew. So nobody of another lane is ahead;
* the chain from the tail of an entry has every call in it (`Whole`). So a call that
  joins has all of its lane ahead of it, those included that come after one that
  has given up.

The refinement needs the whole of the tail's chain and not only of a call's: the
former is what the next call inherits.

`PublishedProofs` proves `AcknowledgedIsNotResent` for any number of calls, files,
documents and updates. The status "uploading" is a lock taken by a
compare-and-swap from a status that no acknowledged file has: who holds it is the
only one that looks at the file (`HoldersLocked`, `HoldersApart`), every acknowledged
file is in "uploading" or "uploaded" (`Kept`), and its holder knows of the answer
until it is written down (`Known`). A task that dies keeps the lock taken.

The same module proves `NoUpdateWhileUnresolved`, with a second invariant over the
first, `Resolved`. UPDATING is the lock of an update: of the confirm tasks past
their compare-and-swap at most one has the row's revision (`Single`), and whoever
is between taking the lock and claiming an attempt knows that all earlier attempts
have ended (`Knows`). The row is what carries that knowledge from one task to the
next: outside UPDATING and UPDATE_UNKNOWN every attempt has ended (`Unlocked`), and a
task whose revision is still the row's knows the row's state (`KnowsRow`). The
assumption of both is `PublishedAssumption`.

A third invariant, `Matched`, over both gives `CompleteMatchesIssue`. Who has the
row's revision has its template; the one task past the compare-and-swap sends that
template, and nobody can prepare another until it has written its outcome (`Alone`).
So when its update is applied while it waits, row and issue agree (`Match`), and that
agreement lasts as long as the row's revision; whoever writes COMPLETE, the
sender or a reconciliation, knows of it (`Faithful`), and the states an upload moves
between have it already (`NobodyWorks`). An update applied after its sender stopped
waiting is what `late` records, and the property excepts. With the first two
invariants this also gives the type invariant, `PublishedTypeOK`.

`LimiterProofs` proves `ClosedMeansDrained` for any finite set of calls and any
limits: the counter is the number of calls that have begun and not ended, pauses
before a retry included (`Counted`), and the event is set only when it is zero
(`Drained`).

The same module proves `PermitsAreConserved` and `ActorKeepsToItsShare`, with an
invariant on the semaphores, `Permits`. `Sound(s, n, W, H)` says of a semaphore of n
permits that the calls of W wait in its queue, those of H hold a permit, and the
counter and the wake-ups under way account for the rest (`Held`), and that a free
permit beside a queue is on offer to somebody (`HandsOn`). One lemma for each operation
of `asyncio.Semaphore` says how W and H change; resuming and giving up break the
second part until they hand on (`HandedOnIsSound`). Every gate is `Sound` for the calls
of its actor, whether or not the table names it (`Gated`), and so is the pool
(`Pooled`). The references of a gate are its users (`Referred`), so the last one is
the one that drops it, and the gate that is made anew starts, as it must, with all
permits.

From the same invariant `LimiterNeverStuck`: while a call is in the limiter, one runs,
pauses before a retry, or was granted the permit it waits for. A semaphore without
holders and wake-ups has no queue (`NobodyWaits`); calls hold a gate while they wait
for the pool and never the reverse, so the pool is asked first and then the gates.

`IntakeProofs` proves `NoMessageTwice`, `PendingHasDeadline` and `UserHasTheLastWord`
for any scopes, messages and limits. A key that was collected is in the memory or
was forgotten (`AllRemembered`). A pending batch is one scope's own, was begun, and only
a full batch has a deadline that cannot be cancelled (`Begun`); since nothing is added
to a full batch, moving a deadline always removes the one before. Revision 1 of a
row is the collected one, and revision 2 is the analysis's or already the user's
(`Rows`): comparing revision and state is enough to tell them apart.

`PersistenceProofs` is about four modules.

* `UnresolvedIsKept`, for any number of drafts and tasks, is not inductive: a
  submission that settles its attempt must find the row where it left it.
  `RetentionInv` adds that a submission under way has its row in SUBMITTING
  (`Holds`), alone (`Apart`); no expiry, deletion or save takes a row from there.
* `ReadyMeansMigrated`, for any processes and any releases (`MigrationsAssumption`: a
  release is a sequence). The history only grows, so the rows a process has read
  are a prefix of it (`Read`) and what it has passed stays as it ships it (`Passed`).
* `RestartFindsCredentials`, for any users, tokens and threads. A load is alone and
  before anything else (`LoadsFirst`), and finds what is on disk or a damaged file
  (`LoadFinds`); later the disk has the credentials in memory, or those of the one
  caller that holds the lock once its thread has replaced the file
  (`DiskFollows`). `DocumentAssumption` tells a document from the two values that
  stand for no file and an unreadable one.
* `NoChangeIsMissed`, for any texts and any number of late writes: the text a call
  has read and is about to take over is the file's as long as the signature is the
  observed one (`Watched`).

`ServicesProofs` is about four more, with their type invariants. For the conversation
that takes an invariant of its own (`Registered`); the others follow from the
invariants below.

* `LateInputIsNotUsed`, for any identities Jira may return: a session that is fresh
  was asked for (`Fresh`), and what goes to Jira saw a fresh one (`Answered`).
* `NoModelIsAskedTwice`, for any analyses and models: the models asked so far are
  those up to the analysis's own offset from its own first one (`GeminiInv`), and
  the next is none of them because the offset stays below the number of models.
* `OneStartPerOutage`, for any callers: who is between query and command holds the
  manager's lock (`OneStart`).
* `NothingIsUsedClosed`, for any handlers and jobs: what is at work is between two
  positions of the way in and out (`Within`), and what it uses was opened before the
  one and is closed after the other (`Ordered`).

`ServicesProofs` ends with the composition. `PartsImplement` says that a behaviour of
`PartsSpec` is one of each component's own specification: every step of `PartsNext` is
a step of the component it is about and leaves the variables of the others alone. So
what is proved module by module holds of the run's specification, and is stated of it:
`TypesOKHolds` and `PartsPromises`, for all values of the constants.

**Only model-checked:** liveness, which is out of the prover's reach:
`SubmissionSettles`, `EveryTurnComes`, `CloseDrains`. `KeyedNeverStuck` is what can be
proved towards the last two: some step of those that `FairSpec` asks for is always
possible, though not that each call's turn comes.

Every safety property of the passing runs, and every refinement, is a theorem.

## 5. Disagreements and observations

With a run, a counterexample and the quoted line in `PROJECT.json`:

* `crash_windows`: a crash between the move to SUBMITTING and the claim leaves a
  row that `recover_stalled` rejects, and nothing else accepts.
* `identical_content`: two drafts with equal content share a hash; reconciling
  one adopts the other's issue, fails to store it, and leaves a draft no
  reconciliation accepts.
* `malformed_reply`: a create that Jira applied and answered with an unexpected
  body is offered for retry.
* `unsettled_card`: after a failed retry or an inconclusive reconciliation the
  card has no button to go on.
* `lost_attachment`: an update of a draft in ATTACHMENT_PARTIAL ends in COMPLETE
  with a file that has failed, and `upload_pending` no longer accepts it.
* `auth_unbound`: a PAT of a user whose Jira name is empty is accepted, and the
  construction of the credentials raises outside every handler: nothing is
  bound and nobody is told.
* `shadowed_text`: all handlers are in one group, so a text meant for the draft's
  handler is taken by one registered before it.

Without a run:

* The service admits edits of a retryable draft which the repository refuses
  (`workflow_service.py:144`).
* `intake_service.py:418` awaits `get_rules`, which the `RulesStore` it is given
  (`__main__.py:360`) does not have: every analysis ends in ANALYSIS_FAILED. The
  models take the port as documented; otherwise nothing would follow.
* `expire_eligible_drafts` passes a reason that the repository refuses
  (`workflow_service.py:280`).
* The save of a draft read before its deletion brings it back without its
  attempts (`workflow_sqlite.py:559`). `Retention` has the formula,
  `PurgedStaysPurged`; nothing in production deletes.
* `jira_issue_service.py:26` calls a method `UserStore` does not have: no
  search, comment, transition or assignment reaches Jira.
* `user_store.py:3` says memory follows a durable write. The round-trip check of
  `_serialize_store` (line 345) sets the languages in memory before anything is
  written, so a failed write leaves them apart from the file
  (`UserStore!LanguagesAreOnDisk`).
* `user_store.py:363` says the last *good* primary is kept. The copy is not read
  back: a write after the primary was damaged on disk replaces a good `.prev` by
  the damaged text (`UserStore!PreviousIsGood`).
* `workflow-contracts.md:91` counts HTTP 500 as a definite failure; the gateway
  takes it as unknown, the safe choice.

Observed while modelling, promised by no document:

* CANCEL is offered on a card in SUBMISSION_UNKNOWN, where the FSM forbids it;
  the tap spends the token. CONFIRM without a credential spends the token too;
  the card has then to be renewed by a toggle.
* A text edit issues no buttons, so all buttons on the card are stale. An EDIT
  tap that races a text edit can leave an older revision in `user_data`, after
  which every text is refused as stale too.
* Python-telegram-bot is given as many concurrent updates as the processor admits
  (`__main__.py:67`), so in the deployment overload is waiting, and the
  processor's refusal is not reached. Production passes no deadline.
* The key of a tap is looked up in the database before admission
  (`__main__.py:91`), so a tap can be overtaken by a later update of its lane.
* Production wiring never calls `recover_stalled`,
  `allow_retry_after_negative_reconciliation`, `expire_eligible_drafts`,
  `delete_terminal`, `reconcile_update` or `confirm_published_update` (the EDIT
  branch of a published draft, `callbacks.py:309`, prepares the same template
  again), and nothing moves a draft to EDITING or ABANDONED_UNKNOWN. No caller
  passes `expires_at` to `save`, so no draft expires. The models include what the
  services offer, `expire_eligible_drafts` excepted (see above).
* The attachment service is wired without a loader (`__main__.py:247`): every
  upload is a failure. The model has the service as written.
* A forwarded message creates its draft directly and never reaches the intake
  service (`ui/handlers/drafts.py:77`).
* The timeout of /auth needs the job queue, an extra of the library that
  `requirements.txt:3` does not ask for; `AUTH_TTL_SECONDS` is read
  (`config.py:252`) and not passed on (`__main__.py:380`). `Conversation` has both
  deployments, with and without the queue.
* A limit of one attachment with two or more concurrent Jira calls passes the
  check of `config.py:299` and makes `ResourceLimitSpec` raise at start
  (`limits.py:40`). The resource limiter is put in `bot_data` and taken by
  nobody; `ConnectivityService` is made by nobody.
* An analysis that ends while the bot is torn down leaves a draft in REVIEW
  without a card.

## 6. Not modelled

* Pure input and output and wording: rendering, keyboards, i18n, configuration,
  logging, the prompt and the parsing of its answer, `snapshot` methods.
* Search, comments, transitions and assignment: one request and one reply, and in
  this commit each raises before it reaches Jira (section 5).
* Notifications and the card tracker: never called.
* `expire_eligible_drafts`: without effect (section 5). Expiry and deletion as the
  repository offers them are in `Retention`.
* The deletion of expired callback tokens: a token that is gone and one that has
  expired are refused alike, so `PreviewButtons` has one mishap for both.
* The binding of tokens to actor, chat and message, as there is one user and one
  card in the model.
* Byte counts of attachments: which files a limit refuses is left open, so the
  total over several calls (`attachment_service.py:113`) has no property.

`PROJECT.json` lists every component with its status.

## 7. Plan

Done: submission over the store and the processor, each with its abstract
specification; the card; and, each a module of its own, the published draft with its
attachments, the limiter, intake, retention, the atomic files, migrations, the
PAT conversation, connectivity, model selection and the composition root.

Every safety property of the passing runs is proved, and so are both refinements;
liveness stays with TLC (section 4).

If `get_rules` is supplied and the intake is wired to forwarded messages, a module
that composes `Intake`, `GeminiGateway` and `PreviewButtons` becomes worthwhile: the
card of an analysed draft would then be issued by the flush of a batch.
