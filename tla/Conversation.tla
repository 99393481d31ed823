---------------------------- MODULE Conversation ----------------------------
(***************************************************************************)
(* One user in a private chat: which handler takes an update (the order of *)
(* add_handlers in __main__.py), and the /auth conversation (jira_auth.py).*)
(*                                                                         *)
(* The user's updates are handled one at a time; only the timeout job of   *)
(* the conversation runs beside them.  An update is named after what the   *)
(* filters and the handlers tell apart.  A handler may raise wherever it   *)
(* waits for Telegram.  The user is on the allowlist.                      *)
(***************************************************************************)
EXTENDS Naturals, Sequences

CONSTANT Identities   \* what validate_credentials may return for a valid PAT:
                      \* the client that is wired in knows no name ("empty"),
                      \* one that did would say who it is ("known")

ASSUME ConversationAssumption == Identities \subseteq {"empty", "known"}

VARIABLES
  conversation,  \* the state ConversationHandler keeps
  session,       \* auth_started_at: none, within the TTL, or past it
  jobQueue,      \* the job queue is installed
  job, notice,   \* the timeout job waits; it has begun and sends its notice
  task,          \* the handler that runs: where it waits, what it has found
  bound,         \* credentials are stored
  verdict,       \* what became of the PAT Jira looked at last
  pendingBlock, activeDraft,   \* the keys of user_data
  asked,         \* history: an /auth was answered, and nothing ended it
  routed         \* history: the last update and its handler

timeout == <<jobQueue, job, notice>>
userData == <<session, pendingBlock, activeDraft>>
conversationVars ==
  <<conversation, timeout, task, userData, bound, verdict, asked, routed>>

Buttons == {"auth button", "logout button", "menu button"}
\* TEXT and not a command
TextUpdates == Buttons \cup {"pat", "text", "link", "reply", "forwarded text"}
Commands == {"/auth", "/logout", "/cancel", "/new"}
Updates == TextUpdates \cup Commands \cup
             {"photo", "forwarded photo", "block press", "edit press"}

NoTask == [pc |-> "idle", input |-> "none", asked |-> FALSE]

ConversationTypeOK ==
  /\ conversation \in {"none", "awaiting"}
  /\ session \in {"none", "fresh", "stale"}
  /\ {jobQueue, job, notice, bound, pendingBlock, activeDraft, asked} \subseteq BOOLEAN
  /\ task \in [pc : {"idle", "prompt", "end", "delete", "validate", "store",
                     "stay", "remove", "draft", "other"},
               input : {"none", "expired", "token", "other"}, asked : BOOLEAN]
  /\ verdict \in {"none", "refused", "accepted", "unstored"}
  /\ routed \in [update : Updates \cup {"none"},
                handler : {"auth_entry", "receive_pat", "cancel", "logout", "menu",
                           "unfurl", "reply", "block", "new", "forward", "draft",
                           "callback", "none"}]

ConversationInit ==
  /\ conversation = "none" /\ session = "none"
  /\ jobQueue \in BOOLEAN /\ job = FALSE /\ notice = FALSE
  /\ task = NoTask
  /\ bound = FALSE /\ verdict = "none"
  /\ pendingBlock = FALSE /\ activeDraft = FALSE
  /\ asked = FALSE
  /\ routed = [update |-> "none", handler |-> "none"]

-----------------------------------------------------------------------------
(* Routing: the first handler whose filter accepts an update takes it.     *)

HandlerOrder == <<"logout", "menu", "unfurl", "reply", "block", "new",
                  "forward", "draft", "callback">>

Filter ==
  [logout   |-> {"/logout", "logout button"},
   menu     |-> {"menu button"},
   unfurl   |-> {"link"},
   reply    |-> {"reply"},
   block    |-> TextUpdates \cup {"block press"},
   new      |-> {"/new"},
   forward  |-> {"forwarded text", "forwarded photo"},
   draft    |-> TextUpdates \cup {"photo", "forwarded photo"},
   callback |-> {"edit press"}]

\* The conversation comes first.  It cannot be entered again while it awaits a
\* PAT, and then every text is its own.
AuthHandler(u) ==
  CASE conversation = "none" /\ u \in {"/auth", "auth button"} -> "auth_entry"
    [] conversation = "awaiting" /\ u \in TextUpdates -> "receive_pat"
    [] conversation = "awaiting" /\ u = "/cancel" -> "cancel"
    [] OTHER -> "none"

HandlerOf(u) ==
  LET accepting == {i \in DOMAIN HandlerOrder : u \in Filter[HandlerOrder[i]]}
  IN  IF AuthHandler(u) # "none" THEN AuthHandler(u)
      ELSE IF accepting = {} THEN "none"
      ELSE HandlerOrder[CHOOSE i \in accepting : \A j \in accepting : i <= j]

-----------------------------------------------------------------------------

Waits(pc) == task.pc = pc
WaitAt(pc) == task' = [task EXCEPT !.pc = pc]
Finish == task' = NoTask

\* An update arrives, and its handler is h.
Arrives(u, h) ==
  /\ Waits("idle")
  /\ HandlerOf(u) = h
  /\ routed' = [update |-> u, handler |-> h]

ClearSession == session' = "none" /\ asked' = FALSE

\* The conversation pops its timeout job before a handler of its own runs, and
\* sets a new one after it unless the conversation ends.
PopJob == job' = FALSE /\ UNCHANGED <<jobQueue, notice>>
ScheduleJob == job' = jobQueue /\ UNCHANGED <<jobQueue, notice>>

-----------------------------------------------------------------------------
(* The conversation.                                                       *)

EnterAuth(u) ==
  /\ Arrives(u, "auth_entry")
  /\ session' = "fresh" /\ asked' = TRUE
  /\ WaitAt("prompt")
  /\ PopJob
  /\ UNCHANGED <<conversation, pendingBlock, activeDraft, bound, verdict>>

\* The handler's last reply was sent and it returns AWAITING_PAT.
KeepAwaiting ==
  /\ Waits("prompt") \/ Waits("stay")
  /\ conversation' = "awaiting"
  /\ ScheduleJob
  /\ Finish
  /\ UNCHANGED <<userData, bound, verdict, asked, routed>>

EndConversation ==
  /\ Waits("end")
  /\ conversation' = "none"
  /\ Finish
  /\ UNCHANGED <<timeout, userData, bound, verdict, asked, routed>>

CancelAuth(u) ==
  /\ Arrives(u, "cancel")
  /\ ClearSession
  /\ WaitAt("end")
  /\ PopJob
  /\ UNCHANGED <<conversation, pendingBlock, activeDraft, bound, verdict>>

\* The label of a menu button is never a PAT, and ends the conversation.
MenuText(u) ==
  /\ u \in Buttons
  /\ Arrives(u, "receive_pat")
  /\ ClearSession
  /\ WaitAt("end")
  /\ PopJob
  /\ UNCHANGED <<conversation, pendingBlock, activeDraft, bound, verdict>>

\* Mutant of Expired: a conversation without a start is not expired.
PastTtl == session = "stale"
Expired == session # "fresh"

\* Whether the session has expired is decided when the text comes.
ReceivePat(u) ==
  /\ u \notin Buttons
  /\ Arrives(u, "receive_pat")
  /\ task' = [pc |-> "delete", asked |-> asked,
              input |-> IF Expired THEN "expired"
                        ELSE IF u = "pat" THEN "token" ELSE "other"]
  /\ PopJob
  /\ UNCHANGED <<conversation, userData, bound, verdict, asked>>

\* The message is deleted, or not; then a late one ends the conversation, a
\* token is sent to Jira and another text is refused.
DeleteMessage ==
  /\ Waits("delete")
  /\ \/ task.input = "expired" /\ ClearSession /\ WaitAt("end")
     \/ task.input = "token" /\ WaitAt("validate") /\ UNCHANGED <<session, asked>>
     \/ task.input = "other" /\ WaitAt("stay") /\ UNCHANGED <<session, asked>>
  /\ UNCHANGED <<conversation, timeout, pendingBlock, activeDraft, bound,
                 verdict, routed>>

\* JiraCredentials refuses an empty name, outside the handler's try: it raises.
ValidatePat ==
  /\ Waits("validate")
  /\ \/ WaitAt("stay") /\ verdict' = "refused"
     \/ "known" \in Identities /\ WaitAt("store") /\ verdict' = "accepted"
     \/ "empty" \in Identities /\ Finish /\ verdict' = "accepted"
  /\ UNCHANGED <<conversation, timeout, userData, bound, asked, routed>>

StorePat ==
  /\ Waits("store")
  /\ \/ bound' = TRUE /\ ClearSession /\ WaitAt("end") /\ UNCHANGED verdict
     \/ /\ WaitAt("stay") /\ verdict' = "unstored"
        /\ UNCHANGED <<bound, session, asked>>
  /\ UNCHANGED <<conversation, timeout, pendingBlock, activeDraft, routed>>

\* The timeout job: the session is cleared, a notice is sent, and whatever
\* conversation there is by then ends.
AuthTimeout ==
  /\ job /\ ~notice
  /\ job' = FALSE /\ notice' = TRUE
  /\ ClearSession
  /\ UNCHANGED <<jobQueue, conversation, task, pendingBlock, activeDraft, bound,
                 verdict, routed>>

EndTimeout ==
  /\ notice
  /\ notice' = FALSE
  /\ conversation' = "none"
  /\ UNCHANGED <<jobQueue, job, task, userData, bound, verdict, asked, routed>>

TtlPasses ==
  /\ session = "fresh"
  /\ session' = "stale" /\ asked' = FALSE
  /\ UNCHANGED <<conversation, timeout, task, pendingBlock, activeDraft, bound,
                 verdict, routed>>

-----------------------------------------------------------------------------
(* The other handlers.                                                     *)

Logout(u) ==
  /\ Arrives(u, "logout")
  /\ ClearSession
  /\ WaitAt("remove")
  /\ UNCHANGED <<conversation, timeout, pendingBlock, activeDraft, bound, verdict>>

RemoveBinding ==
  /\ Waits("remove")
  /\ \/ bound' = FALSE /\ verdict' = "none"
     \/ UNCHANGED <<bound, verdict>>
  /\ Finish
  /\ UNCHANGED <<conversation, timeout, userData, asked, routed>>

\* A blocked card waits for the text that names the blocker.
BlockCard(u) ==
  /\ Arrives(u, "block")
  /\ pendingBlock' = (u = "block press")
  /\ WaitAt("other")
  /\ UNCHANGED <<conversation, timeout, session, activeDraft, bound, verdict, asked>>

\* A draft is made, shown, and remembered as the one texts are about.
MakeDraft(u) ==
  /\ Arrives(u, "new") \/ Arrives(u, "forward")
  /\ WaitAt("draft")
  /\ UNCHANGED <<conversation, timeout, userData, bound, verdict, asked>>

EditDraft(u) ==
  /\ Arrives(u, "callback")
  /\ WaitAt("draft")
  /\ UNCHANGED <<conversation, timeout, userData, bound, verdict, asked>>

RememberDraft ==
  /\ Waits("draft")
  /\ activeDraft' = TRUE
  /\ Finish
  /\ UNCHANGED <<conversation, timeout, session, pendingBlock, bound, verdict,
                 asked, routed>>

\* A handler that keeps nothing, or none at all.
Otherwise(u) ==
  /\ \E h \in {"menu", "unfurl", "reply", "draft", "none"} : Arrives(u, h)
  /\ WaitAt("other")
  /\ UNCHANGED <<conversation, timeout, userData, bound, verdict, asked>>

\* The handler returns, or raises where it waits: then the conversation stays
\* as it is, without a timeout job.
Leave ==
  /\ task # NoTask /\ ~Waits("store")
  /\ Finish
  /\ UNCHANGED <<conversation, timeout, userData, bound, verdict, asked, routed>>

-----------------------------------------------------------------------------

ConversationNext ==
  \/ \E u \in Updates :
       \/ EnterAuth(u) \/ CancelAuth(u) \/ MenuText(u) \/ ReceivePat(u)
       \/ Logout(u) \/ BlockCard(u) \/ MakeDraft(u) \/ EditDraft(u) \/ Otherwise(u)
  \/ KeepAwaiting \/ EndConversation \/ DeleteMessage \/ ValidatePat \/ StorePat
  \/ AuthTimeout \/ EndTimeout \/ TtlPasses
  \/ RemoveBinding \/ RememberDraft \/ Leave

ConversationSpec == ConversationInit /\ [][ConversationNext]_conversationVars

-----------------------------------------------------------------------------
(* Properties.                                                             *)

\* A text is sent to Jira, and bound, only if it came in answer to an /auth
\* that nothing had ended: not a timeout, a logout, a cancel or the TTL, even
\* though the conversation may still have been waiting for it.
LateInputIsNotUsed == task.pc \in {"validate", "store"} => task.asked

\* "Confirm local success messaging" of the happy path
\* (docs/operations/end-to-end-test-plan.md:214): a PAT Jira accepted and the
\* store did not fail on is bound when its handler is done.
AcceptedPatIsBound == verdict = "accepted" /\ task = NoTask => bound

\* "handles draft creation and editing" (docs/architecture/
\* current-architecture.md:137): outside the conversation and with no blocker
\* asked for, a text is about the active draft.
DraftTextReachesDraft ==
  [][routed' # routed /\ routed'.update = "text" /\ conversation = "none"
       /\ activeDraft /\ ~pendingBlock => routed'.handler = "draft"]_conversationVars

=============================================================================
