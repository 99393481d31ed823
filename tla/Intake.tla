------------------------------- MODULE Intake -------------------------------
(***************************************************************************)
(* Collecting messages into drafts (services/intake_service.py) with the   *)
(* timers of AsyncTaskScheduler (infrastructure/__init__.py).              *)
(*                                                                         *)
(* A message joins the pending batch of its scope (owner, chat, thread)    *)
(* and puts off the batch's deadline; the deadline seals the batch, which  *)
(* is then saved, analysed and shown.  The collection lock is never held   *)
(* over an await, so a collection and a sealing are one action each.  A    *)
(* timer only creates a task: other calls may come before the task runs.   *)
(* A refused message (duplicate, full batch, prompt or attachment limits)  *)
(* changes nothing and is not an action.                                   *)
(***************************************************************************)
EXTENDS Naturals, Sequences, SequencesExt, DraftFsm

CONSTANTS Scopes, Messages,
          MaxBatch,        \* messages of one batch
          MemoryLimit,     \* message keys remembered
          MaxBatches,      \* bound on the batches begun
          NoBatch

ASSUME IntakeAssumption ==
  /\ MaxBatch \in Nat \ {0}
  /\ MemoryLimit \in Nat /\ MemoryLimit >= MaxBatch
  /\ MaxBatches \in Nat

VARIABLES
  pending,    \* the batch each scope collects: its id and the generation of
              \* its deadline
  begun,      \* batches begun: the ids given out
  batch,      \* the messages of each batch
  memory,     \* recently collected keys, the oldest first
  forgotten,  \* keys that have left the memory
  timers,     \* deadlines that can be cancelled: <<batch, generation>>
  soon,       \* deadlines due at once, which cannot
  tasks,      \* deadlines whose task has not taken its first step
  analysis,   \* how far each sealed batch has come
  workflow    \* the rows: state, revision, and whose content they hold

collection == <<pending, begun, batch, memory, forgotten>>
scheduler == <<timers, soon, tasks>>
intakeVars == <<collection, scheduler, analysis, workflow>>

Batches == 1 .. MaxBatches
Deadlines == Batches \X Nat
MessageKeys == Scopes \X Messages
Analysis == {"none", "save", "begin", "analyze", "failed", "reread", "store",
             "show", "ended"}
NoRow == [state |-> "absent", revision |-> 0, content |-> "none"]

IntakeTypeOK ==
  /\ pending \in [Scopes -> [id : Batches, generation : Nat] \cup {NoBatch}]
  /\ begun \in 0 .. MaxBatches
  /\ batch \in [Batches -> Seq(MessageKeys)]
  /\ memory \in Seq(MessageKeys) /\ Len(memory) <= MemoryLimit
  /\ forgotten \subseteq MessageKeys
  /\ timers \subseteq Deadlines /\ soon \subseteq Deadlines
  /\ tasks \subseteq Deadlines
  /\ analysis \in [Batches -> Analysis]
  /\ workflow \in [Batches -> [state : DraftState \cup {"absent"},
                               revision : Nat,
                               content : {"none", "analyser", "user"}]]

IntakeInit ==
  /\ pending = [s \in Scopes |-> NoBatch]
  /\ begun = 0
  /\ batch = [b \in Batches |-> <<>>]
  /\ memory = <<>> /\ forgotten = {}
  /\ timers = {} /\ soon = {} /\ tasks = {}
  /\ analysis = [b \in Batches |-> "none"]
  /\ workflow = [b \in Batches |-> NoRow]

-----------------------------------------------------------------------------
(* Collecting.                                                             *)

DeadlineOf(p) == <<p.id, p.generation>>

\* The batch that takes the next message of s.
BatchFor(s) == IF pending[s] = NoBatch
                 THEN [id |-> begun + 1, generation |-> 0] ELSE pending[s]

\* cancel_timer reaches a timer, and a task that was created.
CancelDeadline(p) ==
  /\ timers' = timers \ {DeadlineOf(p)}
  /\ tasks' = tasks \ {DeadlineOf(p)}

\* Mutant of Reschedule: a full batch, which nothing can be added to, gets no
\* new deadline.
NoDeadlineWhenFull(p, size) ==
  /\ timers' = (timers \ {DeadlineOf(p)})
                  \cup IF size < MaxBatch THEN {<<p.id, p.generation + 1>>} ELSE {}
  /\ tasks' = tasks \ {DeadlineOf(p)}
  /\ UNCHANGED soon

\* The deadline of p moves to the next generation: at once for a full batch.
Reschedule(p, size) ==
  LET next == {<<p.id, p.generation + 1>>}
  IN  /\ timers' = (timers \ {DeadlineOf(p)})
                      \cup (IF size < MaxBatch THEN next ELSE {})
      /\ tasks' = tasks \ {DeadlineOf(p)}
      /\ soon' = soon \cup (IF size < MaxBatch THEN {} ELSE next)

\* Mutant of Remember: only the last message is remembered.
RememberLast(key) == memory' = <<key>> /\ UNCHANGED forgotten

Remember(key) ==
  IF Len(memory) < MemoryLimit
    THEN memory' = Append(memory, key) /\ UNCHANGED forgotten
    ELSE /\ memory' = Append(Tail(memory), key)
         /\ forgotten' = forgotten \cup {Head(memory)}

\* The second conjunct bounds the batches.
Collect(s, m) ==
  LET p == BatchFor(s)
  IN  /\ <<s, m>> \notin ToSet(memory)
      /\ p.id \in Batches
      /\ Len(batch[p.id]) < MaxBatch
      /\ batch' = [batch EXCEPT ![p.id] = Append(@, <<s, m>>)]
      /\ begun' = IF p.id > begun THEN p.id ELSE begun
      /\ pending' = [pending EXCEPT ![s] =
                       [id |-> p.id, generation |-> p.generation + 1]]
      /\ Remember(<<s, m>>)
      /\ Reschedule(p, Len(batch[p.id]) + 1)
      /\ UNCHANGED <<analysis, workflow>>

CancelPending(s) ==
  /\ pending[s] # NoBatch
  /\ pending' = [pending EXCEPT ![s] = NoBatch]
  /\ CancelDeadline(pending[s])
  /\ UNCHANGED <<begun, batch, memory, forgotten, soon, analysis, workflow>>

-----------------------------------------------------------------------------
(* Sealing.                                                                *)

Seal(s) ==
  /\ pending' = [pending EXCEPT ![s] = NoBatch]
  /\ analysis' = [analysis EXCEPT ![pending[s].id] = "save"]

Flush(s) ==
  /\ pending[s] # NoBatch
  /\ Seal(s)
  /\ CancelDeadline(pending[s])
  /\ UNCHANGED <<begun, batch, memory, forgotten, soon, workflow>>

\* The timer fires, or the loop comes to the callback: a task is created.
DeadlineFires(d) ==
  /\ d \in timers \cup soon
  /\ timers' = timers \ {d} /\ soon' = soon \ {d}
  /\ tasks' = tasks \cup {d}
  /\ UNCHANGED <<collection, analysis, workflow>>

IsCurrent(d, s) == pending[s] # NoBatch /\ DeadlineOf(pending[s]) = d

DeadlineElapsed(d) ==
  /\ d \in tasks
  /\ tasks' = tasks \ {d}
  /\ \/ \E s \in Scopes : IsCurrent(d, s) /\ Seal(s)
     \/ ~(\E s \in Scopes : IsCurrent(d, s)) /\ UNCHANGED <<pending, analysis>>
  /\ UNCHANGED <<begun, batch, memory, forgotten, timers, soon, workflow>>

-----------------------------------------------------------------------------
(* Saving, analysing and showing a sealed batch.                           *)

Proceed(b, stage) == analysis' = [analysis EXCEPT ![b] = stage]

SetRow(b, s, c) ==
  workflow' = [workflow EXCEPT ![b] =
                 [state |-> s, revision |-> @.revision + 1, content |-> c]]

\* A message cannot be twice in one draft: the save fails and the batch is
\* lost.
SaveCollecting(b) ==
  /\ analysis[b] = "save"
  /\ \/ IsInjective(batch[b]) /\ SetRow(b, "COLLECTING", "none")
        /\ Proceed(b, "begin")
     \/ ~IsInjective(batch[b]) /\ Proceed(b, "ended") /\ UNCHANGED workflow
  /\ UNCHANGED <<collection, scheduler>>

\* The row as intake left it: COLLECTING at revision 1, ANALYZING at 2.
RowIs(b, s, r) == workflow[b].state = s /\ workflow[b].revision = r

BeginAnalysis(b) ==
  /\ analysis[b] = "begin"
  /\ \/ /\ workflow[b].revision = 1
        /\ SetRow(b, "ANALYZING", "none")
        /\ Proceed(b, "analyze")
     \/ workflow[b].revision # 1 /\ Proceed(b, "ended") /\ UNCHANGED workflow
  /\ UNCHANGED <<collection, scheduler>>

Analyze(b) ==
  /\ analysis[b] = "analyze"
  /\ Proceed(b, "failed") \/ Proceed(b, "reread")
  /\ UNCHANGED <<collection, scheduler, workflow>>

MarkAnalysisFailed(b) ==
  /\ analysis[b] = "failed"
  /\ \/ RowIs(b, "ANALYZING", 2) /\ SetRow(b, "ANALYSIS_FAILED", "none")
     \/ ~RowIs(b, "ANALYZING", 2) /\ UNCHANGED workflow
  /\ Proceed(b, "ended")
  /\ UNCHANGED <<collection, scheduler>>

Reread(b) ==
  /\ analysis[b] = "reread"
  /\ Proceed(b, IF RowIs(b, "ANALYZING", 2) THEN "store" ELSE "ended")
  /\ UNCHANGED <<collection, scheduler, workflow>>

\* Mutant of StoreAccepted: the state alone is compared when saving.
StoreIfLegal(b) == workflow[b].state \in {"ANALYZING", "REVIEW", "EDITING"}
StoreAccepted(b) ==
  /\ workflow[b].revision = 2
  /\ IsTransitionAllowed(workflow[b].state, "REVIEW")

StoreResult(b) ==
  /\ analysis[b] = "store"
  /\ \/ StoreAccepted(b) /\ SetRow(b, "REVIEW", "analyser") /\ Proceed(b, "show")
     \/ ~StoreAccepted(b) /\ Proceed(b, "ended") /\ UNCHANGED workflow
  /\ UNCHANGED <<collection, scheduler>>

\* The card is sent and its buttons issued; errors are logged.
ShowDraft(b) ==
  /\ analysis[b] = "show"
  /\ Proceed(b, "ended")
  /\ UNCHANGED <<collection, scheduler, workflow>>

-----------------------------------------------------------------------------
(* The user edits or cancels a draft meanwhile; the process stops.         *)

UserEdits(b) ==
  /\ workflow[b].state # "absent"
  /\ IsTransitionAllowed(workflow[b].state, "REVIEW")
  /\ SetRow(b, "REVIEW", "user")
  /\ UNCHANGED <<collection, scheduler, analysis>>

UserCancels(b) ==
  /\ IsTransitionAllowed(workflow[b].state, "CANCELLED")
  /\ SetRow(b, "CANCELLED", workflow[b].content)
  /\ UNCHANGED <<collection, scheduler, analysis>>

\* Shutdown cancels the timers and the tasks; batches and memory are lost
\* with the process, rows stay as they are.
StopIntake ==
  /\ begun > 0
  /\ timers' = {} /\ soon' = {} /\ tasks' = {}
  /\ pending' = [s \in Scopes |-> NoBatch]
  /\ memory' = <<>>
  /\ forgotten' = forgotten \cup ToSet(memory)
  /\ analysis' = [b \in Batches |-> IF analysis[b] = "none" THEN "none" ELSE "ended"]
  /\ UNCHANGED <<begun, batch, workflow>>

-----------------------------------------------------------------------------

Process(b) ==
  \/ SaveCollecting(b) \/ BeginAnalysis(b) \/ Analyze(b)
  \/ MarkAnalysisFailed(b) \/ Reread(b) \/ StoreResult(b) \/ ShowDraft(b)

IntakeNext ==
  \/ \E s \in Scopes : CancelPending(s) \/ Flush(s)
  \/ \E s \in Scopes, m \in Messages : Collect(s, m)
  \/ \E d \in timers \cup soon : DeadlineFires(d)
  \/ \E d \in tasks : DeadlineElapsed(d)
  \/ \E b \in Batches : Process(b) \/ UserEdits(b) \/ UserCancels(b)
  \/ StopIntake

IntakeSpec == IntakeInit /\ [][IntakeNext]_intakeVars

-----------------------------------------------------------------------------
(* Properties.                                                             *)

\* A collected message is in one batch, once, however the deadline, a flush
\* and its redelivery interleave, unless it has left the memory.
NoMessageTwice ==
  \A b, c \in Batches : \A i \in DOMAIN batch[b], j \in DOMAIN batch[c] :
    batch[b][i] = batch[c][j] /\ <<b, i>> # <<c, j>> => batch[b][i] \in forgotten

\* A batch that is being collected has a deadline to come: the one it was
\* last given, and no earlier one.
PendingHasDeadline ==
  \A s \in Scopes : pending[s] # NoBatch =>
    /\ DeadlineOf(pending[s]) \in timers \cup soon \cup tasks
    /\ \A d \in timers \cup soon \cup tasks :
         d[1] = pending[s].id => d = DeadlineOf(pending[s])

\* What a user wrote in a draft, or cancelled, is not overwritten by an
\* analysis that ends later.
UserHasTheLastWord ==
  [][\A b \in Batches :
       /\ workflow[b].content = "user" => workflow'[b].content = "user"
       /\ workflow[b].state = "CANCELLED" => workflow'[b] = workflow[b]]_intakeVars

=============================================================================
