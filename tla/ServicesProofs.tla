--------------------------- MODULE ServicesProofs ---------------------------
(***************************************************************************)
(* The services around the drafts: the PAT conversation, the model         *)
(* selection, the tunnel, and the way in and out of the process; and, with *)
(* what is proved of the others, all the components of MCParts together.   *)
(***************************************************************************)
EXTENDS MCParts, LimiterProofs, PublishedProofs, IntakeProofs, PersistenceProofs

-----------------------------------------------------------------------------
(* The PAT conversation.  It may await a PAT that nobody asked for any more; *)
(* what the handler trusts is the session.  A fresh one is one that was asked *)
(* for (Fresh), and a task that goes to Jira saw a fresh one (Answered).   *)

Task == [pc : {"idle", "prompt", "end", "delete", "validate", "store",
               "stay", "remove", "draft", "other"},
         input : {"none", "expired", "token", "other"}, asked : BOOLEAN]

Fresh == session = "fresh" => asked = TRUE

Answered == (\/ task.pc \in {"validate", "store"}
             \/ task.pc = "delete" /\ task.input = "token") => task.asked = TRUE

ConversationInv == task \in Task /\ asked \in BOOLEAN /\ Fresh /\ Answered

LEMMA ConversationInitInv == ConversationInit => ConversationInv
<1> SUFFICES ASSUME ConversationInit PROVE ConversationInv OBVIOUS
<1>1. task = NoTask /\ session = "none" /\ asked = FALSE BY DEF ConversationInit
<1>2. task \in Task /\ task.pc = "idle" BY <1>1 DEF NoTask, Task
<1> QED BY <1>1, <1>2 DEF ConversationInv, Fresh, Answered

\* A task that does something else than use a PAT, or none.
LEMMA Elsewhere ==
  ASSUME ConversationInv,
         NEW pc \in {"prompt", "end", "stay", "remove", "draft", "other"},
         WaitAt(pc) \/ Finish
  PROVE  task' \in Task /\ Answered'
<1>1. CASE WaitAt(pc)
  <2>1. task' \in Task /\ task'.pc = pc BY <1>1 DEF WaitAt, ConversationInv, Task
  <2> QED BY <2>1 DEF Answered
<1>2. CASE Finish
  <2>1. task' \in Task /\ task'.pc = "idle" BY <1>2 DEF Finish, NoTask, Task
  <2> QED BY <2>1 DEF Answered
<1> QED BY <1>1, <1>2

\* The session is cleared, or kept.
LEMMA Sessions ==
  ASSUME ConversationInv,
         \/ ClearSession
         \/ session' = "fresh" /\ asked' = TRUE
         \/ UNCHANGED <<session, asked>>
  PROVE  asked' \in BOOLEAN /\ Fresh'
  BY DEF ConversationInv, ClearSession, Fresh

\* The handlers that do not look at a PAT.
LEMMA OtherStep ==
  ASSUME ConversationInv, NEW u \in Updates,
         \/ EnterAuth(u) \/ CancelAuth(u) \/ MenuText(u) \/ Logout(u)
         \/ BlockCard(u) \/ MakeDraft(u) \/ EditDraft(u) \/ Otherwise(u)
  PROVE  ConversationInv'
<1>1. PICK pc \in {"prompt", "end", "stay", "remove", "draft", "other"} : WaitAt(pc)
  BY DEF EnterAuth, CancelAuth, MenuText, Logout, BlockCard, MakeDraft, EditDraft,
         Otherwise
<1>2. \/ ClearSession
      \/ session' = "fresh" /\ asked' = TRUE
      \/ UNCHANGED <<session, asked>>
  BY DEF EnterAuth, CancelAuth, MenuText, Logout, BlockCard, MakeDraft, EditDraft,
         Otherwise, userData
<1> QED BY <1>1, <1>2, Elsewhere, Sessions DEF ConversationInv

\* A handler returns, or raises.
LEMMA ReturnStep ==
  ASSUME ConversationInv,
         KeepAwaiting \/ EndConversation \/ RemoveBinding \/ RememberDraft \/ Leave
  PROVE  ConversationInv'
<1>1. Finish
  BY DEF KeepAwaiting, EndConversation, RemoveBinding, RememberDraft, Leave
<1>2. UNCHANGED <<session, asked>>
  BY DEF KeepAwaiting, EndConversation, RemoveBinding, RememberDraft, Leave, userData
<1> QED BY <1>1, <1>2, Elsewhere, Sessions DEF ConversationInv

\* A text in answer to a fresh session was asked for.
LEMMA ReceiveStep ==
  ASSUME ConversationInv, NEW u \in Updates, ReceivePat(u)
  PROVE  ConversationInv'
<1>1. UNCHANGED <<session, asked>> BY DEF ReceivePat, userData
<1>2. task' = [pc |-> "delete", asked |-> asked,
               input |-> IF Expired THEN "expired"
                         ELSE IF u = "pat" THEN "token" ELSE "other"]
  BY DEF ReceivePat
<1>3. task'.pc = "delete" /\ task'.asked = asked
      /\ (task'.input = "token" => ~Expired) /\ task' \in Task
  BY <1>2 DEF Task, ConversationInv
<1>4. ~Expired => asked = TRUE BY DEF Expired, ConversationInv, Fresh
<1>5. Answered' BY <1>3, <1>4 DEF Answered
<1> QED BY <1>1, <1>3, <1>5, Sessions DEF ConversationInv

\* What was asked for when the text came stays so for its task.
LEMMA UseStep ==
  ASSUME ConversationInv, DeleteMessage \/ ValidatePat \/ StorePat
  PROVE  ConversationInv'
<1>1. ClearSession \/ UNCHANGED <<session, asked>>
  BY DEF DeleteMessage, ValidatePat, StorePat, userData
<1>2. asked' \in BOOLEAN /\ Fresh' BY <1>1, Sessions
<1>3. CASE \E pc \in {"end", "stay"} : WaitAt(pc) BY <1>2, <1>3, Elsewhere DEF ConversationInv
<1>4. CASE Finish BY <1>2, <1>4, Elsewhere DEF ConversationInv
<1>5. CASE WaitAt("validate") /\ task.pc = "delete" /\ task.input = "token"
  <2>1. task.asked = TRUE BY <1>5 DEF ConversationInv, Answered
  <2>2. task' \in Task /\ task'.asked = task.asked BY <1>5 DEF WaitAt, ConversationInv, Task
  <2> QED BY <1>2, <2>1, <2>2 DEF ConversationInv, Answered
<1>6. CASE WaitAt("store") /\ task.pc = "validate"
  <2>1. task.asked = TRUE BY <1>6 DEF ConversationInv, Answered
  <2>2. task' \in Task /\ task'.asked = task.asked BY <1>6 DEF WaitAt, ConversationInv, Task
  <2> QED BY <1>2, <2>1, <2>2 DEF ConversationInv, Answered
<1> QED BY <1>3, <1>4, <1>5, <1>6 DEF DeleteMessage, ValidatePat, StorePat, Waits

\* Time passes: a session can only end.
LEMMA TimeStep ==
  ASSUME ConversationInv, AuthTimeout \/ EndTimeout \/ TtlPasses
  PROVE  ConversationInv'
<1>1. UNCHANGED task BY DEF AuthTimeout, EndTimeout, TtlPasses
<1>2. asked' \in BOOLEAN /\ Fresh'
  BY DEF AuthTimeout, EndTimeout, TtlPasses, ClearSession, userData, ConversationInv, Fresh
<1> QED BY <1>1, <1>2 DEF ConversationInv, Answered

\* ConversationInv is inductive (jira_auth.py: start_auth, receive_pat, the timeout).
THEOREM ConversationInvariance == ConversationSpec => []ConversationInv
<1>1. ConversationInv /\ [ConversationNext]_conversationVars => ConversationInv'
  <2> SUFFICES ASSUME ConversationInv, [ConversationNext]_conversationVars PROVE ConversationInv'
    OBVIOUS
  <2>1. CASE UNCHANGED conversationVars
    BY <2>1 DEF conversationVars, userData, ConversationInv, Fresh, Answered
  <2> QED
    BY <2>1, OtherStep, ReturnStep, ReceiveStep, UseStep, TimeStep
    DEF ConversationNext
<1> QED BY ConversationInitInv, <1>1, PTL DEF ConversationSpec

\* A text goes to Jira and is bound only if it answers an /auth that nothing
\* had ended when it came.
THEOREM LateInputIsNotUsedHolds == ConversationSpec => []LateInputIsNotUsed
<1>1. ConversationInv => LateInputIsNotUsed BY DEF ConversationInv, Answered, LateInputIsNotUsed
<1> QED BY ConversationInvariance, <1>1, PTL

\* The routes an update may take, and the variables ConversationInv says nothing of.
Routes ==
  [update : Updates \cup {"none"},
   handler : {"auth_entry", "receive_pat", "cancel", "logout", "menu", "unfurl",
              "reply", "block", "new", "forward", "draft", "callback", "none"}]

Registered ==
  /\ conversation \in {"none", "awaiting"}
  /\ session \in {"none", "fresh", "stale"}
  /\ jobQueue \in BOOLEAN /\ job \in BOOLEAN /\ notice \in BOOLEAN
  /\ bound \in BOOLEAN /\ pendingBlock \in BOOLEAN /\ activeDraft \in BOOLEAN
  /\ verdict \in {"none", "refused", "accepted", "unstored"}
  /\ routed \in Routes

\* Every update is routed to one of the handlers that are registered, or to none.
LEMMA Routed ==
  ASSUME NEW u \in Updates,
         \/ EnterAuth(u) \/ CancelAuth(u) \/ MenuText(u) \/ ReceivePat(u)
         \/ Logout(u) \/ BlockCard(u) \/ MakeDraft(u) \/ EditDraft(u) \/ Otherwise(u)
  PROVE  routed' \in Routes
<1>1. PICK h \in {"auth_entry", "cancel", "receive_pat", "logout", "block", "new",
                  "forward", "callback", "menu", "unfurl", "reply", "draft", "none"} :
             routed' = [update |-> u, handler |-> h]
  BY DEF EnterAuth, CancelAuth, MenuText, ReceivePat, Logout, BlockCard, MakeDraft,
         EditDraft, Otherwise, Arrives
<1> QED BY <1>1 DEF Routes

\* The handlers of updates leave what is registered well typed.
LEMMA UpdateRegisters ==
  ASSUME Registered, NEW u \in Updates,
         \/ EnterAuth(u) \/ CancelAuth(u) \/ MenuText(u) \/ ReceivePat(u)
         \/ Logout(u) \/ BlockCard(u) \/ MakeDraft(u) \/ EditDraft(u) \/ Otherwise(u)
  PROVE  Registered'
<1>1. routed' \in Routes BY Routed
<1>2. /\ conversation' = conversation /\ bound' = bound /\ verdict' = verdict
      /\ activeDraft' = activeDraft /\ jobQueue' = jobQueue /\ notice' = notice
      /\ job' = job \/ job' = FALSE
      /\ session' = session \/ session' = "none" \/ session' = "fresh"
      /\ pendingBlock' = pendingBlock \/ pendingBlock' = (u = "block press")
  BY DEF EnterAuth, CancelAuth, MenuText, ReceivePat, Logout, BlockCard, MakeDraft,
         EditDraft, Otherwise, userData, timeout, PopJob, ClearSession
<1> QED BY <1>1, <1>2 DEF Registered

\* So do the rest of a handler, the timeout job and the passing of time.
LEMMA OtherRegisters ==
  ASSUME Registered,
         \/ KeepAwaiting \/ EndConversation \/ DeleteMessage \/ ValidatePat
         \/ StorePat \/ AuthTimeout \/ EndTimeout \/ TtlPasses
         \/ RemoveBinding \/ RememberDraft \/ Leave
  PROVE  Registered'
<1>1. UNCHANGED <<routed, jobQueue, pendingBlock>>
  BY DEF KeepAwaiting, EndConversation, DeleteMessage, ValidatePat, StorePat, AuthTimeout,
         EndTimeout, TtlPasses, RemoveBinding, RememberDraft, Leave, userData, timeout,
         ScheduleJob
<1>2. /\ conversation' \in {conversation, "none", "awaiting"}
      /\ session' \in {session, "none", "stale"}
      /\ job' \in {job, jobQueue, FALSE}
      /\ notice' \in {notice, TRUE, FALSE}
  BY DEF KeepAwaiting, EndConversation, DeleteMessage, ValidatePat, StorePat, AuthTimeout,
         EndTimeout, TtlPasses, RemoveBinding, RememberDraft, Leave, userData, timeout,
         ScheduleJob, ClearSession
<1>3. /\ verdict' \in {verdict, "none", "refused", "accepted", "unstored"}
      /\ bound' \in {bound, TRUE, FALSE}
      /\ activeDraft' \in {activeDraft, TRUE}
  BY DEF KeepAwaiting, EndConversation, DeleteMessage, ValidatePat, StorePat, AuthTimeout,
         EndTimeout, TtlPasses, RemoveBinding, RememberDraft, Leave, userData
<1>4. job' \in BOOLEAN /\ notice' \in BOOLEAN BY <1>2 DEF Registered
<1>5. bound' \in BOOLEAN /\ activeDraft' \in BOOLEAN BY <1>3 DEF Registered
<1>6. /\ conversation' \in {"none", "awaiting"}
      /\ session' \in {"none", "fresh", "stale"}
      /\ verdict' \in {"none", "refused", "accepted", "unstored"}
  BY <1>2, <1>3 DEF Registered
<1> QED BY <1>1, <1>4, <1>5, <1>6 DEF Registered

\* The state of the conversation, its timeout job and the keys of user_data is
\* always well typed, and every update goes to a handler or to none.
THEOREM ConversationTypeCorrect == ConversationSpec => []ConversationTypeOK
<1>1. ConversationInit => Registered
  <2> SUFFICES ASSUME ConversationInit PROVE Registered
    OBVIOUS
  <2>1. routed \in Routes BY DEF ConversationInit, Routes
  <2> QED BY <2>1 DEF ConversationInit, Registered
<1>2. Registered /\ [ConversationNext]_conversationVars => Registered'
  <2> SUFFICES ASSUME Registered, [ConversationNext]_conversationVars PROVE Registered'
    OBVIOUS
  <2>1. CASE UNCHANGED conversationVars
    BY <2>1 DEF conversationVars, userData, timeout, Registered
  <2> QED BY <2>1, UpdateRegisters, OtherRegisters DEF ConversationNext
<1>3. ConversationInv /\ Registered => ConversationTypeOK
  BY DEF ConversationInv, Registered, Task, Routes, ConversationTypeOK
<1> QED BY ConversationInvariance, <1>1, <1>2, <1>3, PTL DEF ConversationSpec

-----------------------------------------------------------------------------
(* Model selection: an analysis has asked the models that follow its first *)
(* one, as many as its offset says.                                        *)

RunOf == [pc : {"new", "model", "pause", "prefer", "template", "error"},
          from : ModelNumbers, offset : 0 .. MaxRetries, model : ModelNumbers]

\* m is one of the first n + 1 models of an analysis that begins at f.
InFirst(m, f, n) == \E o \in 0 .. n : m = ModelOf(0, f, o)

GeminiInv ==
  /\ preferred \in ModelNumbers
  /\ run \in [Analyses -> RunOf]
  /\ asks \in [Analyses -> [ModelNumbers -> {0, 1}]]
  /\ \A a \in Analyses :
       /\ run[a].pc = "new" => \A m \in ModelNumbers : asks[a][m] = 0
       /\ run[a].offset < Models
       /\ run[a].pc = "pause" => run[a].offset + 1 < Attempts
       /\ \A m \in ModelNumbers : asks[a][m] # 0 => InFirst(m, run[a].from, run[a].offset)

LEMMA ModWraps ==
  ASSUME NEW x \in Nat, NEW n \in Nat \ {0}, x < 2 * n
  PROVE  x % n = (IF x < n THEN x ELSE x - n) /\ x % n \in 0 .. n - 1
  OBVIOUS

\* The next model is none of those before.
LEMMA NextIsNew ==
  ASSUME NEW f \in ModelNumbers, NEW n \in Nat, n + 1 < Models
  PROVE  /\ ModelOf(0, f, n + 1) \in ModelNumbers
         /\ ~InFirst(ModelOf(0, f, n + 1), f, n)
<1>1. Models \in Nat \ {0} /\ f \in Nat /\ f < Models
  BY GeminiAssumption DEF ModelNumbers
<1>2. ASSUME NEW o \in 0 .. n + 1
      PROVE  /\ f + o < Models => ModelOf(0, f, o) = f + o
             /\ ~(f + o < Models) => ModelOf(0, f, o) = f + o - Models
             /\ ModelOf(0, f, o) \in 0 .. Models - 1
  <2>1. PICK x \in Nat : x = f + o
    BY <1>1
  <2>2. PICK y : y = ModelOf(0, f, o)
    OBVIOUS
  <2>3. x < 2 * Models /\ y = x % Models
    BY <1>1, <2>1, <2>2 DEF ModelOf
  <2>4. /\ x < Models => y = x
        /\ ~(x < Models) => y = x - Models
        /\ y \in 0 .. Models - 1
    BY <1>1, <2>3, ModWraps
  <2> QED
    BY <1>1, <2>1, <2>2, <2>4
<1>3. n + 1 \in 0 .. n + 1
  OBVIOUS
<1>4. ASSUME NEW o \in 0 .. n PROVE ModelOf(0, f, n + 1) # ModelOf(0, f, o)
  <2>1. o \in 0 .. n + 1 /\ f + o < f + (n + 1) /\ f + (n + 1) - (f + o) < Models
    BY <1>1
  <2>2. /\ f + (n + 1) < Models => ModelOf(0, f, n + 1) = f + (n + 1)
        /\ ~(f + (n + 1) < Models) => ModelOf(0, f, n + 1) = f + (n + 1) - Models
    BY <1>2, <1>3
  <2>3. /\ f + o < Models => ModelOf(0, f, o) = f + o
        /\ ~(f + o < Models) => ModelOf(0, f, o) = f + o - Models
    BY <1>2, <2>1
  <2> QED
    BY <1>1, <2>1, <2>2, <2>3
<1>5. ModelOf(0, f, n + 1) \in ModelNumbers
  BY <1>2, <1>3 DEF ModelNumbers
<1> QED
  BY <1>4, <1>5 DEF InFirst

LEMMA FirstIsFirst ==
  ASSUME NEW f \in ModelNumbers
  PROVE  ModelOf(0, f, 0) = f
<1>1. Models \in Nat \ {0} /\ f \in Nat /\ f < Models /\ f + 0 = f /\ f < 2 * Models
  BY GeminiAssumption DEF ModelNumbers
<1> QED
  BY <1>1, ModWraps DEF ModelOf

LEMMA GeminiInitInv == GeminiInit => GeminiInv
<1> SUFFICES ASSUME GeminiInit PROVE GeminiInv
  OBVIOUS
<1>1. 0 \in ModelNumbers /\ 0 \in 0 .. MaxRetries /\ 0 < Models
  BY GeminiAssumption DEF ModelNumbers
<1>2. \A a \in Analyses : run[a] = [pc |-> "new", from |-> 0, offset |-> 0, model |-> 0]
  BY DEF GeminiInit
<1>3. run \in [Analyses -> RunOf] /\ preferred \in ModelNumbers
  BY <1>1 DEF GeminiInit, RunOf
<1>4. asks \in [Analyses -> [ModelNumbers -> {0, 1}]]
      /\ \A a \in Analyses : \A m \in ModelNumbers : asks[a][m] = 0
  BY DEF GeminiInit
<1> QED
  BY <1>1, <1>2, <1>3, <1>4 DEF GeminiInv

\* Model m, the next one, is asked.
LEMMA AskStep ==
  ASSUME GeminiInv, NEW a \in Analyses, NEW f \in ModelNumbers, NEW o \in 0 .. MaxRetries,
         Ask(a, f, o), o < Models, ModelOf(0, f, o) \in ModelNumbers,
         asks[a][ModelOf(0, f, o)] = 0,
         \A m \in ModelNumbers : asks[a][m] # 0 => InFirst(m, f, o)
  PROVE  GeminiInv'
<1> DEFINE m == ModelOf(0, f, o)
           r == [pc |-> "model", from |-> f, offset |-> o, model |-> m]
<1>1. run' = [run EXCEPT ![a] = r] /\ asks' = [asks EXCEPT ![a][m] = @ + 1]
      /\ preferred' = preferred
  BY DEF Ask, ModelOf
<1>2. r \in RunOf /\ r.pc = "model" /\ r.from = f /\ r.offset = o
  BY DEF RunOf
<1>3. InFirst(m, f, o)
  <2>1. o \in 0 .. o
    BY GeminiAssumption
  <2> QED
    BY <2>1 DEF InFirst
<1>4. m \in ModelNumbers /\ asks[a][m] = 0
  OBVIOUS
<1> HIDE DEF m, r
<1>5. run' \in [Analyses -> RunOf]
      /\ \A b \in Analyses : run'[b] = IF b = a THEN r ELSE run[b]
  BY <1>1, <1>2 DEF GeminiInv
<1>6. asks' \in [Analyses -> [ModelNumbers -> {0, 1}]]
      /\ \A b \in Analyses : \A k \in ModelNumbers :
           asks'[b][k] = IF b = a /\ k = m THEN 1 ELSE asks[b][k]
  <2>1. asks'[a] = [asks[a] EXCEPT ![m] = asks[a][m] + 1]
        /\ \A b \in Analyses : b # a => asks'[b] = asks[b]
    BY <1>1 DEF GeminiInv
  <2>2. asks[a] \in [ModelNumbers -> {0, 1}]
    BY DEF GeminiInv
  <2>3. asks'[a] \in [ModelNumbers -> {0, 1}]
        /\ \A k \in ModelNumbers : asks'[a][k] = IF k = m THEN 1 ELSE asks[a][k]
    BY <1>4, <2>1, <2>2
  <2>4. asks' \in [Analyses -> [ModelNumbers -> {0, 1}]]
    <3>1. asks' = [b \in Analyses |-> asks'[b]]
      BY <1>1 DEF GeminiInv
    <3>2. \A b \in Analyses : asks'[b] \in [ModelNumbers -> {0, 1}]
      BY <2>1, <2>3 DEF GeminiInv
    <3> QED
      BY <3>1, <3>2
  <2> QED
    BY <2>1, <2>3, <2>4
<1>7. ASSUME NEW b \in Analyses
      PROVE  /\ run'[b].pc = "new" => \A k \in ModelNumbers : asks'[b][k] = 0
             /\ run'[b].offset < Models
             /\ run'[b].pc = "pause" => run'[b].offset + 1 < Attempts
             /\ \A k \in ModelNumbers : asks'[b][k] # 0 => InFirst(k, run'[b].from, run'[b].offset)
  <2>1. CASE b = a
    BY <1>2, <1>3, <1>5, <1>6, <2>1
  <2>2. CASE b # a
    <3>1. run'[b] = run[b] /\ \A k \in ModelNumbers : asks'[b][k] = asks[b][k]
      BY <1>5, <1>6, <2>2
    <3> QED
      BY <3>1 DEF GeminiInv
  <2> QED
    BY <2>1, <2>2
<1>8. preferred' \in ModelNumbers
  BY <1>1 DEF GeminiInv
<1> QED
  BY <1>5, <1>6, <1>7, <1>8 DEF GeminiInv, InFirst, ModelOf, Attempts

\* Whatever happens between two questions.
LEMMA ModelMoves ==
  ASSUME GeminiInv, NEW a \in Analyses,
         NEW pc \in {"model", "pause", "prefer", "template", "error"},
         RunTo(a, pc), asks' = asks, preferred' \in ModelNumbers,
         pc = "pause" => run[a].offset + 1 < Attempts
  PROVE  GeminiInv'
<1>1. run' = [run EXCEPT ![a].pc = pc]
  BY DEF RunTo
<1>2. run \in [Analyses -> RunOf]
  BY DEF GeminiInv
<1> DEFINE r == [run[a] EXCEPT !.pc = pc]
<1>3. r \in RunOf /\ r.pc = pc /\ r.from = run[a].from /\ r.offset = run[a].offset
  BY <1>2 DEF RunOf
<1>4. run' = [run EXCEPT ![a] = r]
  BY <1>1
<1> HIDE DEF r
<1>5. run' \in [Analyses -> RunOf]
      /\ \A b \in Analyses : run'[b] = IF b = a THEN r ELSE run[b]
  BY <1>2, <1>3, <1>4
<1>6. ASSUME NEW b \in Analyses
      PROVE  /\ run'[b].pc = "new" => \A k \in ModelNumbers : asks'[b][k] = 0
             /\ run'[b].offset < Models
             /\ run'[b].pc = "pause" => run'[b].offset + 1 < Attempts
             /\ \A k \in ModelNumbers : asks'[b][k] # 0 => InFirst(k, run'[b].from, run'[b].offset)
  <2>1. CASE b = a
    <3>1. run'[b].pc = pc /\ run'[b].from = run[a].from /\ run'[b].offset = run[a].offset
      BY <1>3, <1>5, <2>1
    <3>2. pc # "new"
      OBVIOUS
    <3> QED
      BY <2>1, <3>1, <3>2 DEF GeminiInv
  <2>2. CASE b # a
    <3>1. run'[b] = run[b]
      BY <1>5, <2>2
    <3> QED
      BY <3>1 DEF GeminiInv
  <2> QED
    BY <2>1, <2>2
<1> QED
  BY <1>5, <1>6 DEF GeminiInv, InFirst, ModelOf, Attempts

LEMMA GeminiStep ==
  ASSUME GeminiInv, [GeminiNext]_geminiVars
  PROVE  GeminiInv'
<1>1. ASSUME NEW a \in Analyses, AskFirstModel(a) PROVE GeminiInv'
  <2>1. preferred \in ModelNumbers /\ Ask(a, preferred, 0)
        /\ \A m \in ModelNumbers : asks[a][m] = 0
    BY <1>1 DEF GeminiInv, AskFirstModel, RunsAt
  <2>2. PICK f \in ModelNumbers : f = preferred
    BY <2>1
  <2>3. 0 \in 0 .. MaxRetries /\ 0 < Models
    BY GeminiAssumption
  <2>4. ModelOf(0, f, 0) \in ModelNumbers
    BY FirstIsFirst
  <2> QED
    BY <2>1, <2>2, <2>3, <2>4, AskStep
<1>2. ASSUME NEW a \in Analyses, AskNextModel(a) PROVE GeminiInv'
  <2>1. /\ run[a].from \in ModelNumbers /\ run[a].offset \in Nat
        /\ run[a].offset + 1 < Attempts
        /\ \A m \in ModelNumbers : asks[a][m] # 0 => InFirst(m, run[a].from, run[a].offset)
        /\ Ask(a, run[a].from, run[a].offset + 1)
        /\ asks[a] \in [ModelNumbers -> {0, 1}]
    BY <1>2 DEF GeminiInv, AskNextModel, RunsAt, RunOf
  <2>2. PICK f \in ModelNumbers, n \in Nat : f = run[a].from /\ n = run[a].offset
    BY <2>1
  <2>3. n + 1 < Models /\ n + 1 \in 0 .. MaxRetries
    BY <2>1, <2>2, GeminiAssumption DEF Attempts
  <2>4. ModelOf(0, f, n + 1) \in ModelNumbers /\ ~InFirst(ModelOf(0, f, n + 1), f, n)
    BY <2>3, NextIsNew
  <2>5. asks[a][ModelOf(0, f, n + 1)] = 0
    BY <2>1, <2>2, <2>4
  <2>6. \A m \in ModelNumbers : asks[a][m] # 0 => InFirst(m, f, n + 1)
    <3>1. \A o \in 0 .. n : o \in 0 .. n + 1
      OBVIOUS
    <3> QED
      BY <2>1, <2>2, <3>1 DEF InFirst
  <2> QED
    BY <2>1, <2>2, <2>3, <2>4, <2>5, <2>6, AskStep
<1>3. ASSUME NEW a \in Analyses, ModelAnswers(a) PROVE GeminiInv'
  BY <1>3, ModelMoves DEF ModelAnswers, GeminiInv
<1>4. ASSUME NEW a \in Analyses, ModelFails(a) PROVE GeminiInv'
  BY <1>4, ModelMoves DEF ModelFails, GeminiInv
<1>5. ASSUME NEW a \in Analyses, PreferModel(a) PROVE GeminiInv'
  <2>1. run[a].model \in ModelNumbers
    BY DEF GeminiInv, RunOf
  <2> QED
    BY <1>5, <2>1, ModelMoves DEF PreferModel
<1>6. ASSUME NEW a \in Analyses, AnalysisTimesOut(a) PROVE GeminiInv'
  BY <1>6, ModelMoves DEF AnalysisTimesOut, GeminiInv
<1>7. CASE UNCHANGED geminiVars
  BY <1>7 DEF geminiVars, GeminiInv, InFirst, ModelOf, Attempts
<1> QED
  BY <1>1, <1>2, <1>3, <1>4, <1>5, <1>6, <1>7 DEF GeminiNext

\* An analysis has asked each of the models that follow its first one at most
\* once, up to the offset it has come to (_analyze_within_deadline).
THEOREM GeminiInvariance == GeminiSpec => []GeminiInv
<1> QED
  BY GeminiInitInv, GeminiStep, PTL DEF GeminiSpec

\* However many analyses run, and whichever model each prefers for the next,
\* one analysis asks no model twice.
THEOREM NoModelIsAskedTwiceHolds == GeminiSpec => []NoModelIsAskedTwice
<1>1. GeminiInv => NoModelIsAskedTwice
  <2> SUFFICES ASSUME GeminiInv, NEW a \in Analyses, NEW m \in ModelNumbers
               PROVE  asks[a][m] <= 1
    BY DEF NoModelIsAskedTwice
  <2>1. asks[a][m] \in {0, 1}
    BY DEF GeminiInv
  <2> QED
    BY <2>1
<1> QED
  BY GeminiInvariance, <1>1, PTL

\* The state of the analyses is always well typed: no offset passes the number
\* of retries, and every model that is asked is one that is configured.
THEOREM GeminiTypeCorrect == GeminiSpec => []GeminiTypeOK
<1>1. GeminiInv => GeminiTypeOK
  <2> SUFFICES ASSUME GeminiInv PROVE GeminiTypeOK
    OBVIOUS
  <2>1. asks \in [Analyses -> [ModelNumbers -> Nat]]
    <3>1. asks \in [Analyses -> [ModelNumbers -> {0, 1}]]
      BY DEF GeminiInv
    <3>2. \A a \in Analyses : asks[a] \in [ModelNumbers -> Nat]
      <4> SUFFICES ASSUME NEW a \in Analyses PROVE asks[a] \in [ModelNumbers -> Nat]
        OBVIOUS
      <4>1. asks[a] \in [ModelNumbers -> {0, 1}]
        BY <3>1
      <4> QED
        BY <4>1
    <3> QED
      BY <3>1, <3>2
  <2> QED
    BY <2>1 DEF GeminiInv, GeminiTypeOK, RunOf
<1> QED
  BY GeminiInvariance, <1>1, PTL

-----------------------------------------------------------------------------
(* The tunnel: between its query and its command a start holds the         *)
(* manager's lock, and nobody else can have brought the tunnel up.         *)

CallerState ==
  [asks : {"none", "is_connected", "ensure_connected", "start"},
   pc : {"idle", "queued", "status", "start", "check", "load", "up", "verify"},
   blind : BOOLEAN]

LockedPcs == {"check", "load", "up", "verify"}
Bringing == {"load", "up"}

ConnTypes ==
  /\ enabled \in BOOLEAN /\ allowStart \in BOOLEAN /\ ours \in BOOLEAN
  /\ again \in BOOLEAN /\ tunnel \in {"up", "down"}
  /\ positive \in {"none", "valid", "expired"}
  /\ probing \in Callers \cup {NoCaller} /\ starting \in Callers \cup {NoCaller}
  /\ caller \in [Callers -> CallerState]

OneStart ==
  /\ \A c \in Callers : caller[c].pc \in LockedPcs => starting = c
  /\ \A c \in Callers : caller[c].pc \in Bringing /\ ours = TRUE => caller[c].blind = TRUE
  /\ ours = TRUE => tunnel = "up"
  /\ again = FALSE

ConnInv == ConnTypes /\ OneStart

LEMMA ConnInitInv == ConnectivityInit => ConnInv
<1> SUFFICES ASSUME ConnectivityInit PROVE ConnInv
  OBVIOUS
<1>1. NoCall \in CallerState /\ NoCall.pc = "idle"
  BY DEF NoCall, CallerState
<1>2. caller \in [Callers -> CallerState] /\ \A c \in Callers : caller[c].pc = "idle"
  BY <1>1 DEF ConnectivityInit
<1> QED
  BY <1>2 DEF ConnectivityInit, ConnInv, ConnTypes, OneStart, LockedPcs, Bringing

\* What a step of c writes in its own record.
LEMMA OneCaller ==
  ASSUME ConnTypes, NEW c \in Callers, NEW r \in CallerState, caller' = [caller EXCEPT ![c] = r]
  PROVE  /\ caller' \in [Callers -> CallerState]
         /\ \A d \in Callers : caller'[d] = IF d = c THEN r ELSE caller[d]
  BY DEF ConnTypes

\* c is answered: nobody else loses a lock.
LEMMA AnswerStep ==
  ASSUME ConnInv, NEW c \in Callers, Answer(c),
         tunnel' \in {"up", "down"}, ours' = ours, tunnel' = tunnel \/ tunnel' = "up",
         again' = FALSE, positive' \in {"none", "valid", "expired"}, UNCHANGED settings
  PROVE  ConnInv'
<1>1. NoCall \in CallerState /\ NoCall.pc = "idle"
  BY DEF NoCall, CallerState
<1>2. /\ caller' \in [Callers -> CallerState]
      /\ \A d \in Callers : caller'[d] = IF d = c THEN NoCall ELSE caller[d]
  BY <1>1, OneCaller DEF Answer, ConnInv
<1>3. /\ probing' = (IF probing = c THEN NoCaller ELSE probing)
      /\ starting' = (IF starting = c THEN NoCaller ELSE starting)
  BY DEF Answer
<1>4. ConnTypes'
  BY <1>2, <1>3 DEF ConnInv, ConnTypes, settings
<1>5. ASSUME NEW d \in Callers
      PROVE  /\ caller'[d].pc \in LockedPcs => starting' = d
             /\ caller'[d].pc \in Bringing /\ ours' = TRUE => caller'[d].blind = TRUE
  <2>1. CASE d = c
    BY <1>1, <1>2, <2>1 DEF LockedPcs, Bringing
  <2>2. CASE d # c
    BY <1>2, <1>3, <2>2 DEF ConnInv, OneStart
  <2> QED
    BY <2>1, <2>2
<1>6. OneStart'
  BY <1>5 DEF ConnInv, OneStart
<1> QED
  BY <1>4, <1>6 DEF ConnInv

\* c moves on and its record becomes r.
LEMMA GoStep ==
  ASSUME ConnInv, NEW c \in Callers, NEW r \in CallerState, caller' = [caller EXCEPT ![c] = r],
         r.pc \in LockedPcs => starting' = c,
         r.pc \in Bringing /\ ours' = TRUE => r.blind = TRUE,
         \A d \in Callers \ {c} : caller[d].pc \in LockedPcs => starting' = d,
         ours' = ours \/ starting = c,
         probing' \in Callers \cup {NoCaller}, starting' \in Callers \cup {NoCaller},
         ours' \in BOOLEAN, ours' = TRUE => tunnel' = "up", tunnel' \in {"up", "down"},
         again' = FALSE, positive' = positive, UNCHANGED settings
  PROVE  ConnInv'
<1>1. /\ caller' \in [Callers -> CallerState]
      /\ \A d \in Callers : caller'[d] = IF d = c THEN r ELSE caller[d]
  BY OneCaller DEF ConnInv
<1>2. ConnTypes'
  BY <1>1 DEF ConnInv, ConnTypes, settings
<1>3. ASSUME NEW d \in Callers
      PROVE  /\ caller'[d].pc \in LockedPcs => starting' = d
             /\ caller'[d].pc \in Bringing /\ ours' = TRUE => caller'[d].blind = TRUE
  <2>1. CASE d = c
    BY <1>1, <2>1
  <2>2. CASE d # c
    <3>1. caller[d].pc \in Bringing => caller[d].pc \in LockedPcs
      BY DEF Bringing, LockedPcs
    <3>2. caller'[d] = caller[d] /\ (caller[d].pc \in LockedPcs => starting = d)
      BY <1>1, <2>2 DEF ConnInv, OneStart
    <3>3. caller[d].pc \in Bringing /\ ours = TRUE => caller[d].blind = TRUE
      BY DEF ConnInv, OneStart
    <3> QED
      BY <2>2, <3>1, <3>2, <3>3
  <2> QED
    BY <2>1, <2>2
<1>4. OneStart'
  BY <1>3 DEF OneStart
<1> QED
  BY <1>2, <1>4 DEF ConnInv

LEMMA ConnRecords ==
  ASSUME ConnTypes, NEW c \in Callers
  PROVE  /\ \A pc \in {"status", "start", "check", "up", "verify"} :
              /\ [caller[c] EXCEPT !.pc = pc] \in CallerState
              /\ [caller[c] EXCEPT !.pc = pc].pc = pc
              /\ [caller[c] EXCEPT !.pc = pc].blind = caller[c].blind
         /\ \A b \in BOOLEAN :
              /\ [caller[c] EXCEPT !.pc = "load", !.blind = b] \in CallerState
              /\ [caller[c] EXCEPT !.pc = "load", !.blind = b].pc = "load"
              /\ [caller[c] EXCEPT !.pc = "load", !.blind = b].blind = b
  BY DEF ConnTypes, CallerState

\* With the lock in hand c moves to pc.
LEMMA LockedStep ==
  ASSUME ConnInv, NEW c \in Callers, caller[c].pc \in LockedPcs,
         NEW pc \in {"up", "verify"}, CallerTo(c, pc),
         pc = "up" => caller[c].pc \in Bringing /\ ours' = ours,
         ours' \in BOOLEAN, ours' = TRUE => tunnel' = "up", tunnel' \in {"up", "down"},
         again' = FALSE, positive' = positive, UNCHANGED <<settings, vpnLocks>>
  PROVE  ConnInv'
<1> DEFINE r == [caller[c] EXCEPT !.pc = pc]
<1>1. r \in CallerState /\ r.pc = pc /\ r.blind = caller[c].blind
  <2>1. ConnTypes /\ pc \in {"status", "start", "check", "up", "verify"}
    BY DEF ConnInv
  <2> QED
    BY <2>1, ConnRecords
<1>2. caller' = [caller EXCEPT ![c] = r]
  BY DEF CallerTo
<1> HIDE DEF r
<1>3. starting = c /\ starting' = c /\ probing' = probing
  BY DEF ConnInv, OneStart, vpnLocks
<1>4. \A d \in Callers \ {c} : caller[d].pc \in LockedPcs => starting' = d
  BY <1>3 DEF ConnInv, OneStart
<1>5. r.pc \in Bringing /\ ours' = TRUE => r.blind = TRUE
  BY <1>1 DEF ConnInv, OneStart, Bringing
<1>6. probing' \in Callers \cup {NoCaller} /\ starting' \in Callers \cup {NoCaller}
  BY <1>3 DEF ConnInv, ConnTypes
<1> QED
  BY <1>1, <1>2, <1>3, <1>4, <1>5, <1>6, GoStep

\* c moves to pc, where it holds no lock of the manager's.
LEMMA FreeStep ==
  ASSUME ConnInv, NEW c \in Callers, NEW r \in CallerState, caller' = [caller EXCEPT ![c] = r],
         r.pc \notin LockedPcs, probing' \in Callers \cup {NoCaller}, starting' = starting,
         positive' = positive, UNCHANGED <<settings, link>>
  PROVE  ConnInv'
<1>1. r.pc \notin Bringing
  BY DEF Bringing, LockedPcs
<1>2. \A d \in Callers \ {c} : caller[d].pc \in LockedPcs => starting' = d
  BY DEF ConnInv, OneStart
<1>3. /\ starting' \in Callers \cup {NoCaller} /\ ours' \in BOOLEAN /\ ours' = ours
      /\ ours' = TRUE => tunnel' = "up"
      /\ tunnel' \in {"up", "down"} /\ again' = FALSE
  BY DEF ConnInv, ConnTypes, OneStart, link
<1> QED
  BY <1>1, <1>2, <1>3, GoStep

LEMMA ConnStep ==
  ASSUME ConnInv, [ConnectivityNext]_connectivityVars
  PROVE  ConnInv'
<1>0. /\ ConnTypes /\ again = FALSE /\ tunnel \in {"up", "down"}
      /\ positive \in {"none", "valid", "expired"} /\ probing \in Callers \cup {NoCaller}
      /\ NoCaller \notin Callers
  BY ConnectivityAssumption DEF ConnInv, OneStart, ConnTypes
\* An answer that changes nothing but the memory.
<1>1. ASSUME NEW c \in Callers, Answer(c), UNCHANGED <<settings, link>>,
             positive' \in {"none", "valid", "expired"}
      PROVE  ConnInv'
  BY <1>0, <1>1, AnswerStep DEF link
<1>2. \A c \in Callers : \A u \in BOOLEAN :
        Remembered(c, u) => positive' \in {"none", "valid", "expired"}
  BY <1>0 DEF Remembered
<1>3. ASSUME NEW c \in Callers, NEW op \in {"is_connected", "ensure_connected"},
             AskConnectivity(c, op)
      PROVE  ConnInv'
  <2> DEFINE r == [NoCall EXCEPT !.asks = op, !.pc = "queued"]
  <2>1. r \in CallerState /\ r.pc = "queued"
    BY DEF NoCall, CallerState
  <2>2. caller' = [caller EXCEPT ![c] = r] /\ UNCHANGED <<settings, link, positive, vpnLocks>>
    BY <1>3 DEF AskConnectivity
  <2> HIDE DEF r
  <2> QED
    BY <1>0, <2>1, <2>2, FreeStep DEF LockedPcs, vpnLocks
<1>4. ASSUME NEW c \in Callers, AskStart(c) PROVE ConnInv'
  <2> DEFINE r == [NoCall EXCEPT !.asks = "start", !.pc = "start"]
  <2>1. r \in CallerState /\ r.pc = "start"
    BY DEF NoCall, CallerState
  <2>2. caller' = [caller EXCEPT ![c] = r] /\ UNCHANGED <<settings, link, positive, vpnLocks>>
    BY <1>4 DEF AskStart
  <2> HIDE DEF r
  <2> QED
    BY <1>0, <2>1, <2>2, FreeStep DEF LockedPcs, vpnLocks
<1>5. ASSUME NEW c \in Callers, Probe(c) PROVE ConnInv'
  <2>1. CASE Answer(c)
    BY <1>0, <1>1, <1>5, <2>1 DEF Probe
  <2>2. CASE probing' = c /\ CallerTo(c, "status") /\ UNCHANGED starting
    <3> DEFINE r == [caller[c] EXCEPT !.pc = "status"]
    <3>1. r \in CallerState /\ r.pc = "status" /\ caller' = [caller EXCEPT ![c] = r]
      BY <1>0, <2>2, ConnRecords DEF CallerTo
    <3> HIDE DEF r
    <3>2. UNCHANGED <<settings, link, positive>> /\ probing' \in Callers \cup {NoCaller}
      BY <1>5, <2>2 DEF Probe
    <3> QED
      BY <2>2, <3>1, <3>2, FreeStep DEF LockedPcs
  <2> QED
    BY <1>5, <2>1, <2>2 DEF Probe
<1>6. ASSUME NEW c \in Callers, ProbeStatus(c) PROVE ConnInv'
  <2>1. CASE Answer(c) /\ \E u \in BOOLEAN : Remembered(c, u)
    BY <1>1, <1>2, <1>6, <2>1 DEF ProbeStatus
  <2>2. CASE CallerTo(c, "start") /\ UNCHANGED <<positive, vpnLocks>>
    <3> DEFINE r == [caller[c] EXCEPT !.pc = "start"]
    <3>1. r \in CallerState /\ r.pc = "start" /\ caller' = [caller EXCEPT ![c] = r]
      BY <1>0, <2>2, ConnRecords DEF CallerTo
    <3> HIDE DEF r
    <3>2. UNCHANGED <<settings, link, positive, vpnLocks>>
      BY <1>6, <2>2 DEF ProbeStatus
    <3> QED
      BY <1>0, <3>1, <3>2, FreeStep DEF LockedPcs, vpnLocks
  <2> QED
    BY <1>6, <2>1, <2>2 DEF ProbeStatus
<1>7. ASSUME NEW c \in Callers, LockStart(c) PROVE ConnInv'
  <2> DEFINE r == [caller[c] EXCEPT !.pc = "check"]
  <2>1. r \in CallerState /\ r.pc = "check" /\ caller' = [caller EXCEPT ![c] = r]
    BY <1>0, <1>7, ConnRecords DEF LockStart, CallerTo
  <2> HIDE DEF r
  <2>2. starting = NoCaller /\ starting' = c /\ UNCHANGED <<settings, link, positive, probing>>
    BY <1>7 DEF LockStart
  <2>3. \A d \in Callers : caller[d].pc \notin LockedPcs
    BY <1>0, <2>2 DEF ConnInv, OneStart
  <2>4. r.pc \notin Bringing
    BY <2>1 DEF Bringing
  <2>5. /\ ours' \in BOOLEAN /\ ours' = ours /\ (ours' = TRUE => tunnel' = "up")
        /\ tunnel' \in {"up", "down"} /\ again' = FALSE /\ probing' \in Callers \cup {NoCaller}
        /\ starting' \in Callers \cup {NoCaller}
    BY <2>2 DEF ConnInv, ConnTypes, OneStart, link
  <2> QED
    BY <2>1, <2>2, <2>3, <2>4, <2>5, GoStep
<1>8. ASSUME NEW c \in Callers, CheckBeforeStart(c) PROVE ConnInv'
  <2>1. caller[c].pc \in LockedPcs /\ UNCHANGED <<settings, link>>
    BY <1>8 DEF CheckBeforeStart, CallerAt, LockedPcs
  <2>2. CASE Answer(c) /\ \E u \in BOOLEAN : Remembered(c, u)
    BY <1>1, <1>2, <2>1, <2>2
  <2>3. ASSUME NEW report \in Reported, report # "up",
               caller' = [caller EXCEPT ![c].pc = "load", ![c].blind = (report = "error")],
               UNCHANGED <<positive, vpnLocks>>
        PROVE  ConnInv'
    <3>1. PICK b \in BOOLEAN : b = (report = "error")
      OBVIOUS
    <3> DEFINE r == [caller[c] EXCEPT !.pc = "load", !.blind = b]
    <3>2. r \in CallerState /\ r.pc = "load" /\ r.blind = b
      BY <1>0, ConnRecords
    <3>3. caller' = [caller EXCEPT ![c] = r]
      BY <2>3, <3>1
    <3> HIDE DEF r
    <3>4. b = TRUE \/ tunnel = "down"
      BY <1>0, <2>3, <3>1 DEF Reported
    <3>5. ours = TRUE => tunnel = "up"
      BY DEF ConnInv, OneStart
    <3>6. starting = c /\ starting' = c /\ probing' = probing
      BY <2>1, <2>3 DEF ConnInv, OneStart, vpnLocks
    <3>7. \A d \in Callers \ {c} : caller[d].pc \in LockedPcs => starting' = d
      BY <3>6 DEF ConnInv, OneStart
    <3>8. /\ ours' \in BOOLEAN /\ ours' = ours /\ tunnel' = tunnel
          /\ tunnel' \in {"up", "down"} /\ again' = FALSE /\ probing' \in Callers \cup {NoCaller}
          /\ starting' \in Callers \cup {NoCaller}
      BY <2>1, <3>6 DEF ConnInv, ConnTypes, OneStart, link
    <3>9. r.pc \in Bringing /\ ours' = TRUE => r.blind = TRUE
      BY <3>2, <3>4, <3>5, <3>8
    <3> QED
      BY <2>1, <2>3, <3>2, <3>3, <3>5, <3>6, <3>7, <3>8, <3>9, GoStep
  <2> QED
    BY <1>8, <2>2, <2>3 DEF CheckBeforeStart, Seen
<1>9. ASSUME NEW c \in Callers, LoadProfile(c) PROVE ConnInv'
  <2>1. caller[c].pc \in LockedPcs /\ caller[c].pc \in Bringing /\ UNCHANGED <<settings, link>>
    BY <1>9 DEF LoadProfile, CallerAt, LockedPcs, Bringing
  <2>2. CASE Answer(c) /\ \E u \in BOOLEAN : Remembered(c, u)
    BY <1>1, <1>2, <2>1, <2>2
  <2>3. CASE CallerTo(c, "up") /\ UNCHANGED <<positive, vpnLocks>>
    <3>1. /\ ours' \in BOOLEAN /\ ours' = ours /\ (ours' = TRUE => tunnel' = "up")
          /\ tunnel' \in {"up", "down"} /\ again' = FALSE
      BY <2>1 DEF ConnInv, ConnTypes, OneStart, link
    <3> QED
      BY <2>1, <2>3, <3>1, LockedStep
  <2> QED
    BY <1>9, <2>2, <2>3 DEF LoadProfile
<1>10. ASSUME NEW c \in Callers, BringUp(c) PROVE ConnInv'
  <2>1. caller[c].pc \in LockedPcs /\ caller[c].pc \in Bringing /\ UNCHANGED settings
    BY <1>10 DEF BringUp, CallerAt, LockedPcs, Bringing
  <2>2. again' = FALSE
    <3>1. caller[c].blind \in BOOLEAN /\ ours \in BOOLEAN
      BY <1>0 DEF ConnTypes, CallerState
    <3>2. ~(ours /\ ~caller[c].blind)
      BY <2>1, <3>1 DEF ConnInv, OneStart
    <3> QED
      BY <1>0, <1>10, <3>2 DEF BringUp
  <2>3. CASE tunnel' = "up" /\ ours' = TRUE /\ CallerTo(c, "verify")
             /\ UNCHANGED <<positive, vpnLocks>>
    BY <2>1, <2>2, <2>3, LockedStep
  <2>4. CASE Remembered(c, FALSE) /\ Answer(c) /\ tunnel' \in {tunnel, "up"} /\ UNCHANGED ours
    BY <1>0, <1>2, <2>1, <2>2, <2>4, AnswerStep
  <2> QED
    BY <1>10, <2>3, <2>4 DEF BringUp
<1>11. ASSUME NEW c \in Callers, VerifyStart(c) PROVE ConnInv'
  BY <1>1, <1>2, <1>11 DEF VerifyStart
<1>12. ASSUME NEW c \in Callers, CancelCaller(c) PROVE ConnInv'
  BY <1>0, <1>1, <1>12 DEF CancelCaller
<1>13. CASE PositiveExpires \/ InvalidateCache
  BY <1>13 DEF PositiveExpires, InvalidateCache, ConnInv, ConnTypes, OneStart, settings, link,
               vpnLocks
<1>14. CASE TunnelChanges
  BY <1>14 DEF TunnelChanges, ConnInv, ConnTypes, OneStart, settings, vpnLocks
<1>15. CASE UNCHANGED connectivityVars
  BY <1>15 DEF connectivityVars, ConnInv, ConnTypes, OneStart, settings, link, vpnLocks
<1> QED
  BY <1>3, <1>4, <1>5, <1>6, <1>7, <1>8, <1>9, <1>10, <1>11, <1>12, <1>13, <1>14, <1>15
     DEF ConnectivityNext

\* Whoever is between the status query and the start command of the tunnel
\* (vpn.py) holds the manager's lock, so one that an earlier start brought up
\* is one its query saw up, unless the query failed.
THEOREM ConnectivityInvariance == ConnectivitySpec => []ConnInv
<1> QED
  BY ConnInitInv, ConnStep, PTL DEF ConnectivitySpec

\* Callers that find the tunnel down together bring it up once: each asks
\* again under the manager's lock, and goes ahead without knowing only if its
\* query failed.
THEOREM OneStartPerOutageHolds == ConnectivitySpec => []OneStartPerOutage
<1>1. ConnInv => OneStartPerOutage
  BY DEF ConnInv, OneStart, OneStartPerOutage
<1> QED
  BY ConnectivityInvariance, <1>1, PTL

\* The state of the cached status, the two locks and the callers is always well
\* typed: each lock is free or held by one caller.
THEOREM ConnectivityTypeCorrect == ConnectivitySpec => []ConnectivityTypeOK
<1>1. ConnInv => ConnectivityTypeOK
  BY DEF ConnInv, ConnTypes, CallerState, ConnectivityTypeOK
<1> QED
  BY ConnectivityInvariance, <1>1, PTL

-----------------------------------------------------------------------------
(* The way in and out: handlers run only between the start of the          *)
(* application and its stop, jobs only until the scheduler is closed, and  *)
(* what either uses is opened before and closed after.                     *)

LifeTypes ==
  /\ concurrent \in BOOLEAN
  /\ step \in 1 .. 13 /\ leaving \in 0 .. 10
  /\ opened \in SUBSET Opened /\ shut \in SUBSET Opened
  /\ handler \in [Handlers -> {"none", "busy", "done"}]
  /\ timerJob \in [Jobs -> {"none", "timer", "task", "cancelled", "over"}]

\* What is opened by which step, and shut by which.
Ordered ==
  /\ step > 4 => "repo" \in opened
  /\ step > 5 => "scheduler" \in opened
  /\ step > 6 => "jira" \in opened
  /\ step > 7 => "gemini" \in opened
  /\ "started" \in opened => step = 13
  /\ "repo" \in shut => leaving = 10
  /\ "jira" \in shut => leaving > 8
  /\ "gemini" \in shut => leaving > 7
  /\ "started" \in opened /\ leaving > 2 => "started" \in shut

Alive == {"timer", "task", "cancelled"}

Within ==
  /\ \A h \in Handlers : handler[h] = "busy" => "started" \in opened /\ leaving <= 2
  /\ \A j \in Jobs : timerJob[j] \in Alive => "started" \in opened /\ leaving <= 6
  /\ misused \in SUBSET {"application"}

LifeInv == LifeTypes /\ Ordered /\ Within

LEMMA Orders ==
  /\ Len(StartOrder) = 12 /\ DOMAIN StopOrder = 1 .. 9
  /\ StartOrder[4] = "repo" /\ StartOrder[5] = "scheduler" /\ StartOrder[6] = "jira"
  /\ StartOrder[7] = "gemini"
  /\ \A i \in 1 .. 12 : StartOrder[i] \in Opened /\ (StartOrder[i] = "started" => i = 12)
  /\ StopOrder[2] = "started" /\ StopOrder[6] = "scheduler"
  /\ \A i \in 1 .. 9 : /\ StopOrder[i] = "repo" => i = 9
                       /\ StopOrder[i] = "jira" => i = 8
                       /\ StopOrder[i] = "gemini" => i = 7
                       /\ StopOrder[i] \in Opened
<1>1. DOMAIN StartOrder = 1 .. 12 /\ Len(StartOrder) = 12 /\ DOMAIN StopOrder = 1 .. 9
  BY DEF StartOrder, StopOrder
<1>2. /\ StartOrder[1] = "rules" /\ StartOrder[2] = "users" /\ StartOrder[3] = "vpn"
      /\ StartOrder[4] = "repo" /\ StartOrder[5] = "scheduler" /\ StartOrder[6] = "jira"
      /\ StartOrder[7] = "gemini" /\ StartOrder[8] = "limiter" /\ StartOrder[9] = "keyed"
      /\ StartOrder[10] = "application" /\ StartOrder[11] = "polling"
      /\ StartOrder[12] = "started"
  BY DEF StartOrder
<1>3. /\ StopOrder[1] = "polling" /\ StopOrder[2] = "started" /\ StopOrder[3] = "application"
      /\ StopOrder[4] = "keyed" /\ StopOrder[5] = "limiter" /\ StopOrder[6] = "scheduler"
      /\ StopOrder[7] = "gemini" /\ StopOrder[8] = "jira" /\ StopOrder[9] = "repo"
  BY DEF StopOrder
<1>4. Opened = {StartOrder[i] : i \in 1 .. 12}
  BY <1>1 DEF Opened, ToSet
<1>5. \A i \in 1 .. 12 : StartOrder[i] = "started" => i = 12
  BY <1>2
<1>6. \A i \in 1 .. 9 : /\ StopOrder[i] = "repo" => i = 9
                        /\ StopOrder[i] = "jira" => i = 8
                        /\ StopOrder[i] = "gemini" => i = 7
  BY <1>3
<1>7. \A i \in 1 .. 9 : StopOrder[i] \in Opened
  <2>1. \A i \in 1 .. 9 : \E k \in 1 .. 12 : StopOrder[i] = StartOrder[k]
    BY <1>2, <1>3
  <2> QED
    BY <1>4, <2>1
<1> QED
  BY <1>1, <1>2, <1>3, <1>4, <1>5, <1>6, <1>7

LEMMA LifeInitInv == LifecycleInit => LifeInv
  BY DEF LifecycleInit, LifeInv, LifeTypes, Ordered, Within, Alive

LEMMA LifeOpens ==
  ASSUME LifeInv, OpenNext
  PROVE  LifeInv'
<1>1. /\ leaving = 0 /\ step \in 1 .. 12 /\ step' = step + 1
      /\ opened' = (IF StartOrder[step] = "keyed" /\ ~concurrent THEN opened
                    ELSE opened \cup {StartOrder[step]})
      /\ UNCHANGED <<concurrent, leaving, shut, handler, timerJob, misused>>
  BY Orders DEF OpenNext, LifeInv, LifeTypes
<1>2. opened \in SUBSET opened' /\ opened' \in SUBSET (opened \cup {StartOrder[step]})
      /\ (StartOrder[step] # "keyed" => StartOrder[step] \in opened')
  BY <1>1
<1>3. StartOrder[step] \in Opened /\ (StartOrder[step] = "started" => step = 12)
  BY <1>1, Orders
<1>4. LifeTypes'
  BY <1>1, <1>2, <1>3 DEF LifeInv, LifeTypes
<1>5. /\ step = 4 => "repo" \in opened'
      /\ step = 5 => "scheduler" \in opened'
      /\ step = 6 => "jira" \in opened'
      /\ step = 7 => "gemini" \in opened'
  BY <1>2, Orders
<1>6. "started" \in opened' => step' = 13
  <2>1. "started" \notin opened
    BY <1>1 DEF LifeInv, Ordered
  <2> QED
    BY <1>1, <1>2, <1>3, <2>1
<1>7. /\ step' > 4 => step > 4 \/ step = 4
      /\ step' > 5 => step > 5 \/ step = 5
      /\ step' > 6 => step > 6 \/ step = 6
      /\ step' > 7 => step > 7 \/ step = 7
  BY <1>1
<1>8. Ordered'
  BY <1>1, <1>2, <1>5, <1>6, <1>7 DEF LifeInv, Ordered
<1>9. Within'
  BY <1>1, <1>2 DEF LifeInv, Within
<1> QED
  BY <1>4, <1>8, <1>9 DEF LifeInv

LEMMA LifeCloses ==
  ASSUME LifeInv, CloseNext
  PROVE  LifeInv'
<1>1. /\ leaving \in 1 .. 9 /\ leaving' = leaving + 1
      /\ UNCHANGED <<concurrent, step, opened, handler, timerJob, misused>>
  BY Orders DEF CloseNext
<1>2. PICK r : r = StopOrder[leaving]
  OBVIOUS
<1>3. (r \in opened => AtRest(r)) /\ shut' = shut \cup ({r} \cap opened) /\ r \in Opened
  BY <1>1, <1>2, Orders DEF CloseNext
<1>4. /\ leaving = 2 => r = "started"
      /\ leaving = 6 => r = "scheduler"
      /\ r = "repo" => leaving = 9
      /\ r = "jira" => leaving = 8
      /\ r = "gemini" => leaving = 7
  BY <1>1, <1>2, Orders
<1>5. LifeTypes'
  BY <1>1, <1>3 DEF LifeInv, LifeTypes
<1>6. Ordered'
  <2>1. /\ "repo" \in shut' => leaving' = 10
        /\ "jira" \in shut' => leaving' > 8
        /\ "gemini" \in shut' => leaving' > 7
    BY <1>1, <1>3, <1>4 DEF LifeInv, Ordered
  <2>2. "started" \in opened' /\ leaving' > 2 => "started" \in shut'
    <3>1. leaving' > 2 => leaving > 2 \/ leaving = 2
      BY <1>1
    <3> QED
      BY <1>1, <1>3, <1>4, <3>1 DEF LifeInv, Ordered
  <2> QED
    BY <1>1, <2>1, <2>2 DEF LifeInv, Ordered
\* The stop of the application waits for its handlers, and the scheduler's
\* close for its jobs.
<1>7. ASSUME NEW h \in Handlers, handler'[h] = "busy"
      PROVE  "started" \in opened' /\ leaving' <= 2
  <2>1. handler[h] = "busy" /\ "started" \in opened /\ leaving <= 2
    BY <1>1, <1>7 DEF LifeInv, Within
  <2>2. leaving # 2
    <3>1. r = "started" => Busy = {}
      BY <1>3, <2>1 DEF AtRest
    <3> QED
      BY <1>4, <2>1, <3>1 DEF Busy
  <2> QED
    BY <1>1, <2>1, <2>2
<1>8. ASSUME NEW j \in Jobs, timerJob'[j] \in Alive
      PROVE  "started" \in opened' /\ leaving' <= 6
  <2>1. timerJob[j] \in Alive /\ "started" \in opened /\ leaving <= 6
    BY <1>1, <1>8 DEF LifeInv, Within
  <2>2. leaving # 6
    <3>1. "scheduler" \in opened
      BY <2>1 DEF LifeInv, Ordered
    <3>2. r = "scheduler" => timerJob[j] \in {"none", "over"}
      BY <1>3, <3>1 DEF AtRest
    <3> QED
      BY <1>4, <2>1, <3>2 DEF Alive
  <2> QED
    BY <1>1, <2>1, <2>2
<1>9. Within'
  BY <1>1, <1>7, <1>8 DEF LifeInv, Within
<1> QED
  BY <1>5, <1>6, <1>9 DEF LifeInv

\* Between the start and the scheduler's close, what handlers and jobs use is
\* open.
LEMMA LifeOpen ==
  ASSUME LifeInv, "started" \in opened, leaving <= 6
  PROVE  \A r \in {"repo", "jira", "gemini"} : r \in opened /\ r \notin shut
<1>1. step = 13
  BY DEF LifeInv, Ordered
<1>2. "repo" \in opened /\ "jira" \in opened /\ "gemini" \in opened
  <2>1. step > 4 /\ step > 6 /\ step > 7
    BY <1>1
  <2> QED
    BY <2>1 DEF LifeInv, Ordered
<1>3. leaving # 10 /\ ~(leaving > 8) /\ ~(leaving > 7)
  BY DEF LifeInv, LifeTypes
<1>4. "repo" \notin shut /\ "jira" \notin shut /\ "gemini" \notin shut
  BY <1>3 DEF LifeInv, Ordered
<1> QED
  BY <1>2, <1>4

\* What is used while a handler or a job is at work is open.
LEMMA LifeUse ==
  ASSUME LifeInv, NEW r, Use(r),
         \/ r = "application"
         \/ r \in {"repo", "jira"} /\ Busy # {}
         \/ r \in {"repo", "gemini"} /\ \E j \in Jobs : timerJob[j] = "task"
  PROVE  LifeInv'
<1>1. misused' \in SUBSET {"application"}
  <2>1. CASE r = "application"
    BY <2>1 DEF Use, LifeInv, Within
  <2>2. CASE r \in {"repo", "jira"} /\ Busy # {}
    <3>1. PICK h \in Handlers : handler[h] = "busy"
      BY <2>2 DEF Busy
    <3>2. "started" \in opened /\ leaving <= 6
      BY <3>1 DEF LifeInv, LifeTypes, Within
    <3>3. r \in opened /\ r \notin shut
      BY <2>2, <3>2, LifeOpen
    <3> QED
      BY <3>3 DEF Use, LifeInv, Within
  <2>3. CASE r \in {"repo", "gemini"} /\ \E j \in Jobs : timerJob[j] = "task"
    <3>1. "started" \in opened /\ leaving <= 6
      BY <2>3 DEF LifeInv, Within, Alive
    <3>2. r \in opened /\ r \notin shut
      BY <2>3, <3>1, LifeOpen
    <3> QED
      BY <3>2 DEF Use, LifeInv, Within
  <2> QED
    BY <2>1, <2>2, <2>3
<1>2. UNCHANGED <<concurrent, step, leaving, opened, shut, handler, timerJob>>
  BY DEF Use
<1> QED
  BY <1>1, <1>2 DEF LifeInv, LifeTypes, Ordered, Within

LEMMA LifeStep ==
  ASSUME LifeInv, [LifecycleNext]_lifecycleVars
  PROVE  LifeInv'
<1>1. CASE BeginStop
  <2>1. leaving = 0 /\ leaving' = 1
        /\ UNCHANGED <<concurrent, step, opened, shut, handler, timerJob, misused>>
    BY <1>1 DEF BeginStop
  <2> QED
    BY <2>1 DEF LifeInv, LifeTypes, Ordered, Within
<1>2. CASE CancelJobs
  <2>1. UNCHANGED <<concurrent, step, leaving, opened, shut, handler, misused>>
    BY <1>2 DEF CancelJobs
  <2>2. \A j \in Jobs : timerJob'[j] = CASE timerJob[j] = "timer" -> "over"
                                        [] timerJob[j] = "task" -> "cancelled"
                                        [] OTHER -> timerJob[j]
    BY <1>2 DEF CancelJobs
  <2>3. timerJob' \in [Jobs -> {"none", "timer", "task", "cancelled", "over"}]
    BY <1>2, <2>2 DEF CancelJobs, LifeInv, LifeTypes
  <2>4. \A j \in Jobs : timerJob'[j] \in Alive => timerJob[j] \in Alive
    BY <2>2 DEF Alive
  <2> QED
    BY <2>1, <2>3, <2>4 DEF LifeInv, LifeTypes, Ordered, Within
<1>3. ASSUME NEW h \in Handlers, BeginUpdate(h) PROVE LifeInv'
  <2>1. /\ "started" \in opened \ shut /\ handler' = [handler EXCEPT ![h] = "busy"]
        /\ UNCHANGED <<concurrent, step, leaving, opened, shut, timerJob, misused>>
    BY <1>3 DEF BeginUpdate
  <2>2. leaving <= 2
    BY <2>1 DEF LifeInv, LifeTypes, Ordered
  <2> QED
    BY <2>1, <2>2 DEF LifeInv, LifeTypes, Ordered, Within
<1>4. ASSUME NEW h \in Handlers, EndUpdate(h) PROVE LifeInv'
  BY <1>4 DEF EndUpdate, LifeInv, LifeTypes, Ordered, Within
<1>5. ASSUME NEW r \in {"repo", "jira", "application"}, UseInHandler(r) PROVE LifeInv'
  BY <1>5, LifeUse DEF UseInHandler
<1>6. ASSUME NEW r \in {"repo", "gemini", "application"}, UseInTask(r) PROVE LifeInv'
  BY <1>6, LifeUse DEF UseInTask
<1>7. ASSUME NEW j \in Jobs, SetTimer(j) PROVE LifeInv'
  <2>1. PICK h \in Handlers : handler[h] = "busy"
    BY <1>7 DEF SetTimer, Busy
  <2>2. "started" \in opened /\ leaving <= 6
    BY <2>1 DEF LifeInv, LifeTypes, Within
  <2>3. /\ timerJob' = [timerJob EXCEPT ![j] = "timer"]
        /\ UNCHANGED <<concurrent, step, leaving, opened, shut, handler, misused>>
    BY <1>7 DEF SetTimer
  <2> QED
    BY <2>2, <2>3 DEF LifeInv, LifeTypes, Ordered, Within
<1>8. ASSUME NEW j \in Jobs, TimerFires(j) \/ EndTask(j) PROVE LifeInv'
  <2>1. PICK s \in {"task", "over"} : timerJob' = [timerJob EXCEPT ![j] = s]
    BY <1>8 DEF TimerFires, EndTask
  <2>2. timerJob[j] \in Alive
        /\ UNCHANGED <<concurrent, step, leaving, opened, shut, handler, misused>>
    BY <1>8 DEF TimerFires, EndTask, Alive
  <2> QED
    BY <2>1, <2>2 DEF LifeInv, LifeTypes, Ordered, Within
<1>9. CASE UNCHANGED lifecycleVars
  BY <1>9 DEF lifecycleVars, LifeInv, LifeTypes, Ordered, Within
<1> QED
  BY <1>1, <1>2, <1>3, <1>4, <1>5, <1>6, <1>7, <1>8, <1>9, LifeOpens, LifeCloses
     DEF LifecycleNext

\* From wherever run() leaves: handlers run only between the start and the
\* stop of the application, jobs only until the scheduler is closed, and the
\* steps of StopOrder close what they use after that.
THEOREM LifecycleInvariance == LifecycleSpec => []LifeInv
<1> QED
  BY LifeInitInv, LifeStep, PTL DEF LifecycleSpec

\* Whatever could be opened, and whenever the stop signal comes: no handler and
\* no job uses something run() has closed, other than the bot.
THEOREM NothingIsUsedClosedHolds == LifecycleSpec => []NothingIsUsedClosed
<1>1. LifeInv => NothingIsUsedClosed
  BY DEF LifeInv, Within, NothingIsUsedClosed
<1> QED
  BY LifecycleInvariance, <1>1, PTL

\* The state of the composition root is always well typed: it takes no step
\* past the last of either order, and closes only what can be opened.
THEOREM LifecycleTypeCorrect == LifecycleSpec => []LifecycleTypeOK
<1>1. Len(StartOrder) + 1 = 13 /\ Len(StopOrder) + 1 = 10
  BY DEF StartOrder, StopOrder
<1>2. "application" \in Opened
  <2>1. 3 \in 1 .. 9 /\ StopOrder[3] = "application"
    BY DEF StopOrder
  <2> QED
    BY <2>1, Orders
<1>3. LifeInv => LifecycleTypeOK
  BY <1>1, <1>2 DEF LifeInv, LifeTypes, Within, LifecycleTypeOK
<1> QED
  BY LifecycleInvariance, <1>3, PTL

-----------------------------------------------------------------------------
(* The components together: MCParts checks them in one run, and in it each *)
(* behaves as its own specification says.                                  *)

LEMMA PartsStep ==
  ASSUME [PartsNext]_partsVars
  PROVE
  /\ [LimiterNext]_limiterVars
  /\ [PublishedNext]_publishedVars
  /\ [IntakeNext]_intakeVars
  /\ [UserStoreNext]_userStoreVars
  /\ [RulesNext]_rulesVars
  /\ [MigrationsNext]_migrationVars
  /\ [ConversationNext]_conversationVars
  /\ [ConnectivityNext]_connectivityVars
  /\ [LifecycleNext]_lifecycleVars
  /\ [GeminiNext]_geminiVars
  /\ [RetentionNext]_retentionVars
<1>1. [LimiterNext]_limiterVars
  BY DEF PartsNext, partsVars
<1>2. [PublishedNext]_publishedVars
  BY DEF PartsNext, partsVars
<1>3. [IntakeNext]_intakeVars
  BY DEF PartsNext, partsVars
<1>4. [UserStoreNext]_userStoreVars
  BY DEF PartsNext, partsVars
<1>5. [RulesNext]_rulesVars
  BY DEF PartsNext, partsVars
<1>6. [MigrationsNext]_migrationVars
  BY DEF PartsNext, partsVars
<1>7. [ConversationNext]_conversationVars
  BY DEF PartsNext, partsVars
<1>8. [ConnectivityNext]_connectivityVars
  BY DEF PartsNext, partsVars
<1>9. [LifecycleNext]_lifecycleVars
  BY DEF PartsNext, partsVars
<1>10. [GeminiNext]_geminiVars
  BY DEF PartsNext, partsVars
<1>11. [RetentionNext]_retentionVars
  BY DEF PartsNext, partsVars
<1> QED
  BY  <1>1, <1>2, <1>3, <1>4, <1>5, <1>6, <1>7, <1>8, <1>9, <1>10, <1>11

\* Whatever component a behaviour of the run follows, it is a behaviour of every
\* component's own specification: what is proved of those holds in the run.
THEOREM PartsImplement ==
  PartsSpec =>
  /\   LimiterSpec
  /\   PublishedSpec
  /\   IntakeSpec
  /\   UserStoreSpec
  /\   RulesSpec
  /\   MigrationsSpec
  /\   ConversationSpec
  /\   ConnectivitySpec
  /\   LifecycleSpec
  /\   GeminiSpec
  /\   RetentionSpec
<1>1. PartsInit =>
  /\     LimiterInit
  /\     PublishedInit
  /\     IntakeInit
  /\     UserStoreInit
  /\     RulesInit
  /\     MigrationsInit
  /\     ConversationInit
  /\     ConnectivityInit
  /\     LifecycleInit
  /\     GeminiInit
  /\     RetentionInit
  BY DEF PartsInit
<1> QED
  BY <1>1, PartsStep, PTL
     DEF  PartsSpec, LimiterSpec, PublishedSpec, IntakeSpec, UserStoreSpec,
         RulesSpec, MigrationsSpec, ConversationSpec, ConnectivitySpec,
         LifecycleSpec, GeminiSpec, RetentionSpec

\* Every component keeps to its types, for all values of the constants.
THEOREM TypesOKHolds == PartsSpec => []TypesOK
<1>1. IntakeInv => IntakeTypeOK
  BY DEF IntakeInv
<1>2. UsersInv => UserStoreTypeOK
  BY DEF UsersInv
<1>3. MigrationsInv => MigrationsTypeOK
  BY DEF MigrationsInv
<1>4. RetentionInv => RetentionTypeOK
  BY DEF RetentionInv
<1> QED
  BY <1>1, <1>2, <1>3, <1>4, PartsImplement, LimiterTypeCorrect,
     PublishedTypeCorrect, IntakeInvariance, UserStoreInvariance,
     RulesTypeCorrect, MigrationsInvariance, ConversationTypeCorrect,
     ConnectivityTypeCorrect, LifecycleTypeCorrect, GeminiTypeCorrect,
     RetentionInvariance, PTL DEF TypesOK

\* The promises of the components, where they run side by side.
THEOREM PartsPromises ==
  PartsSpec =>
    /\ [](/\ PermitsAreConserved /\ ActorKeepsToItsShare /\ ClosedMeansDrained
          /\ NoUpdateWhileUnresolved /\ CompleteMatchesIssue
          /\ NoMessageTwice /\ PendingHasDeadline
          /\ RestartFindsCredentials /\ NoChangeIsMissed
          /\ ReadyMeansMigrated /\ UnresolvedIsKept
          /\ LateInputIsNotUsed /\ NoModelIsAskedTwice
          /\ OneStartPerOutage /\ NothingIsUsedClosed)
    /\ AcknowledgedIsNotResent
    /\ UserHasTheLastWord
  BY PartsImplement, PermitsAreConservedHolds, ActorKeepsToItsShareHolds,
     ClosedMeansDrainedHolds, NoUpdateWhileUnresolvedHolds,
     CompleteMatchesIssueHolds, NoMessageTwiceHolds, PendingHasDeadlineHolds,
     RestartFindsCredentialsHolds, NoChangeIsMissedHolds,
     ReadyMeansMigratedHolds, UnresolvedIsKeptHolds, LateInputIsNotUsedHolds,
     NoModelIsAskedTwiceHolds, OneStartPerOutageHolds, NothingIsUsedClosedHolds,
     AcknowledgedIsNotResentHolds, UserHasTheLastWordHolds, PTL

=============================================================================
