--------------------------- MODULE PublishedDraft ---------------------------
(***************************************************************************)
(* What happens to a draft after its issue exists: its files are uploaded  *)
(* (services/attachment_service.py) and the issue is updated from an       *)
(* edited template (services/submission_service.py), over one row, its     *)
(* attachment rows and its attempts.                                       *)
(*                                                                         *)
(* A clerk is a task running one call; an action is the code between two   *)
(* awaits.  A task may end at any await (AbandonCall).  Jira may apply an  *)
(* update after the sender stopped waiting; for an upload only whether it  *)
(* was applied matters.  The size, count and type limits decide which      *)
(* files are skipped or rejected; which ones is left open.                 *)
(***************************************************************************)
EXTENDS Naturals, DraftFsm

CONSTANTS Files,          \* unique ids of the draft's attachments
          Documents,      \* canonical Jira documents
          Clerks,
          NoFile,
          MaxUpdates,     \* bound on the updates confirmed
          MaxAbandoned,   \* bound on tasks that end early
          MaxRow          \* bound on the calls, as the revision they start from

ASSUME PublishedAssumption ==
  /\ MaxUpdates \in Nat /\ MaxAbandoned \in Nat /\ MaxRow \in Nat
  /\ NoFile \notin Files

VARIABLES
  row,           \* state, revision and template of the draft
  fileStatus,    \* the attachments table
  update,        \* the attempts: status, and the document they send
  updates,       \* the highest attempt number
  clerk,         \* the task of each clerk
  request,       \* what became of the request of each attempt
  remote,        \* the fields of the issue at Jira
  sent, copies,  \* of each file: uploads sent, copies at the issue
  acknowledged,  \* the files whose upload was answered with an id
  late,          \* updates applied after their sender stopped waiting
  abandoned

table == <<row, fileStatus, update, updates>>
jiraSide == <<request, remote, sent, copies, acknowledged, late>>
publishedVars == <<table, clerk, jiraSide, abandoned>>

UpdateNumbers == 1 .. MaxUpdates
FileStatus == {"pending", "uploading", "uploaded", "failed", "skipped"}
Requests == {"unsent", "inflight", "applied", "rejected", "lost"}
UpdateStatus == {"none", "pending", "success", "failed", "unknown"}

\* todo holds the listed files not looked at yet, with their listed status.
FreeClerk == [op |-> "none", pc |-> "idle", rev |-> 0, doc |-> "none",
              num |-> 0, res |-> "none", file |-> NoFile, todo |-> {}]

PublishedTypeOK ==
  /\ row \in [state : PublishedStates, revision : Nat, template : Documents]
  /\ fileStatus \in [Files -> FileStatus]
  /\ update \in [UpdateNumbers -> [status : UpdateStatus,
                                   doc : Documents \cup {"none"}]]
  /\ updates \in 0 .. MaxUpdates
  /\ request \in [UpdateNumbers -> Requests]
  /\ remote \in Documents
  /\ sent \in [Files -> Nat] /\ copies \in [Files -> Nat]
  /\ acknowledged \subseteq Files /\ late \subseteq UpdateNumbers
  /\ abandoned \in 0 .. MaxAbandoned
  /\ clerk \in [Clerks ->
       [op : {"none", "upload", "prepare", "confirm", "reconcile"},
        pc : {"idle", "cas", "list", "claim", "load", "await", "record",
              "count", "final", "save", "latest", "send", "query", "settle"},
        rev : Nat, doc : Documents \cup {"none"}, num : 0 .. MaxUpdates + 1,
        res : {"none", "uploaded", "failed", "partial", "success", "unknown"},
        file : Files \cup {NoFile}, todo : SUBSET (Files \X FileStatus)]]

PublishedInit ==
  /\ \E d \in Documents :
       /\ row = [state |-> "CREATED", revision |-> 1, template |-> d]
       /\ remote = d
  /\ fileStatus = [f \in Files |-> "pending"]
  /\ update = [n \in UpdateNumbers |-> [status |-> "none", doc |-> "none"]]
  /\ updates = 0
  /\ request = [n \in UpdateNumbers |-> "unsent"]
  /\ sent = [f \in Files |-> 0] /\ copies = [f \in Files |-> 0]
  /\ acknowledged = {} /\ late = {} /\ abandoned = 0
  /\ clerk = [c \in Clerks |-> FreeClerk]

-----------------------------------------------------------------------------

Doing(c, op, pc) == clerk[c].op = op /\ clerk[c].pc = pc

Dismiss(c) == clerk' = [clerk EXCEPT ![c] = FreeClerk]

GoTo(c, pc) == clerk' = [clerk EXCEPT ![c].pc = pc]

\* A call reads the row; the last conjunct bounds the calls.
Call(c, op, pc) ==
  /\ clerk[c].pc = "idle"
  /\ clerk' = [clerk EXCEPT ![c] =
       [FreeClerk EXCEPT !.op = op, !.pc = pc, !.rev = row.revision,
                         !.doc = row.template]]
  /\ row.revision < MaxRow
  /\ UNCHANGED <<table, jiraSide, abandoned>>

\* compare_and_swap_state: the task goes on at pc if it wins, else it raises.
MoveAccepted(r, s) == row.revision = r /\ IsTransitionAllowed(row.state, s)

Move(c, s, pc) ==
  \/ /\ MoveAccepted(clerk[c].rev, s)
     /\ row' = [row EXCEPT !.state = s, !.revision = @ + 1]
     /\ clerk' = IF pc = "idle"
                   THEN [clerk EXCEPT ![c] = FreeClerk]
                   ELSE [clerk EXCEPT ![c].pc = pc, ![c].rev = @ + 1]
  \/ ~MoveAccepted(clerk[c].rev, s) /\ Dismiss(c) /\ UNCHANGED row

-----------------------------------------------------------------------------
(* upload_pending.                                                         *)

UploadRead(c) ==
  /\ row.state \in {"CREATED", "ATTACHMENT_PARTIAL"}
  /\ Call(c, "upload", "cas")

UploadCas(c) ==
  /\ Doing(c, "upload", "cas")
  /\ IF Files = {} THEN Move(c, "COMPLETE", "idle")
                   ELSE Move(c, "ATTACHING", "list")
  /\ UNCHANGED <<fileStatus, update, updates, jiraSide, abandoned>>

\* Files that were uploaded or skipped are passed over.
ListFiles(c) ==
  /\ Doing(c, "upload", "list")
  /\ clerk' = [clerk EXCEPT ![c].pc = "claim",
       ![c].todo = {<<f, fileStatus[f]>> :
                      f \in {g \in Files :
                               fileStatus[g] \notin {"uploaded", "skipped"}}}]
  /\ UNCHANGED <<table, jiraSide, abandoned>>

\* set_attachment_status refuses a move from UPLOADING to UPLOADING or SKIPPED
\* with an exception, and does nothing when the row is not as listed.
ClaimFile(c) ==
  /\ Doing(c, "upload", "claim")
  /\ \/ clerk[c].todo = {} /\ GoTo(c, "count") /\ UNCHANGED fileStatus
     \/ \E f \in Files, s \in FileStatus :
          LET rest == clerk[c].todo \ {<<f, s>>}
          IN  /\ <<f, s>> \in clerk[c].todo
              /\ \/ /\ s = "uploading"
                    /\ Dismiss(c)
                    /\ UNCHANGED fileStatus
                 \/ /\ s # "uploading"
                    /\ fileStatus[f] # s
                    /\ clerk' = [clerk EXCEPT ![c].todo = rest]
                    /\ UNCHANGED fileStatus
                 \/ /\ s # "uploading" /\ fileStatus[f] = s  \* over a limit
                    /\ fileStatus' = [fileStatus EXCEPT ![f] = "skipped"]
                    /\ clerk' = [clerk EXCEPT ![c].todo = rest]
                 \/ /\ s # "uploading" /\ fileStatus[f] = s
                    /\ fileStatus' = [fileStatus EXCEPT ![f] = "uploading"]
                    /\ clerk' = [clerk EXCEPT ![c].todo = rest, ![c].pc = "load",
                                              ![c].file = f]
  /\ UNCHANGED <<row, update, updates, jiraSide, abandoned>>

Conclude(c, res) == clerk' = [clerk EXCEPT ![c].pc = "record", ![c].res = res]

\* The file cannot be loaded or breaks a limit; or it is sent to Jira.
LoadFile(c) ==
  LET f == clerk[c].file
  IN  /\ Doing(c, "upload", "load")
      /\ \/ Conclude(c, "failed") /\ UNCHANGED sent
         \/ sent' = [sent EXCEPT ![f] = @ + 1] /\ GoTo(c, "await")
      /\ UNCHANGED <<table, request, remote, copies, acknowledged, late,
                     abandoned>>

\* Jira's answer: the id; or an error, whether or not the file was stored.
UploadAnswer(c) ==
  LET f == clerk[c].file
  IN  /\ Doing(c, "upload", "await")
      /\ \/ /\ copies' = [copies EXCEPT ![f] = @ + 1]
            /\ acknowledged' = acknowledged \cup {f}
            /\ Conclude(c, "uploaded")
         \/ /\ \/ UNCHANGED copies
               \/ copies' = [copies EXCEPT ![f] = @ + 1]
            /\ Conclude(c, "failed")
            /\ UNCHANGED acknowledged
      /\ UNCHANGED <<table, request, remote, sent, late, abandoned>>

\* Mutant of Recorded: the id is not written down.
NotRecorded(c) == "failed"
Recorded(c) == clerk[c].res

RecordFile(c) ==
  LET f == clerk[c].file
  IN  /\ Doing(c, "upload", "record")
      /\ fileStatus' = IF fileStatus[f] = "uploading"
                         THEN [fileStatus EXCEPT ![f] = Recorded(c)]
                         ELSE fileStatus
      /\ clerk' = [clerk EXCEPT ![c].pc = "claim", ![c].res = "none",
                                ![c].file = NoFile]
      /\ UNCHANGED <<row, update, updates, jiraSide, abandoned>>

CountFailed(c) ==
  /\ Doing(c, "upload", "count")
  /\ clerk' = [clerk EXCEPT ![c].pc = "final",
       ![c].res = IF \E f \in Files : fileStatus[f] = "failed"
                    THEN "partial" ELSE "none"]
  /\ UNCHANGED <<table, jiraSide, abandoned>>

UploadFinal(c) ==
  /\ Doing(c, "upload", "final")
  /\ Move(c, IF clerk[c].res = "partial" THEN "ATTACHMENT_PARTIAL"
                                         ELSE "COMPLETE", "idle")
  /\ UNCHANGED <<fileStatus, update, updates, jiraSide, abandoned>>

-----------------------------------------------------------------------------
(* prepare_published_update: the new template is saved before it is        *)
(* confirmed.                                                              *)

PrepareRead(c) ==
  /\ row.state \in {"COMPLETE", "ATTACHMENT_PARTIAL"}
  /\ Call(c, "prepare", "save")

PrepareSave(c) ==
  /\ Doing(c, "prepare", "save")
  /\ \/ /\ MoveAccepted(clerk[c].rev, "UPDATE_REVIEW")
        /\ \E d \in Documents :
             row' = [state |-> "UPDATE_REVIEW", revision |-> row.revision + 1,
                     template |-> d]
     \/ ~MoveAccepted(clerk[c].rev, "UPDATE_REVIEW") /\ UNCHANGED row
  /\ Dismiss(c)
  /\ UNCHANGED <<fileStatus, update, updates, jiraSide, abandoned>>

-----------------------------------------------------------------------------
(* confirm_published_update.                                               *)

ConfirmRead(c) ==
  /\ row.state = "UPDATE_REVIEW"
  /\ updates < MaxUpdates
  /\ Call(c, "confirm", "cas")

ConfirmCas(c) ==
  /\ Doing(c, "confirm", "cas")
  /\ Move(c, "UPDATING", "latest")
  /\ UNCHANGED <<fileStatus, update, updates, jiraSide, abandoned>>

NumberUpdate(c) ==
  /\ Doing(c, "confirm", "latest")
  /\ clerk' = [clerk EXCEPT ![c].pc = "claim", ![c].num = updates + 1]
  /\ UNCHANGED <<table, jiraSide, abandoned>>

UpdateClaimable(n) ==
  /\ row.state = "UPDATING"
  /\ n \in UpdateNumbers
  /\ update[n].status = "none"
  /\ \A m \in UpdateNumbers : update[m].status # "pending"

ClaimUpdate(c) ==
  LET n == clerk[c].num
  IN  /\ Doing(c, "confirm", "claim")
      /\ \/ /\ UpdateClaimable(n)
            /\ update' = [update EXCEPT ![n] = [status |-> "pending",
                                                doc |-> clerk[c].doc]]
            /\ updates' = n
            /\ GoTo(c, "send")
         \/ ~UpdateClaimable(n) /\ Dismiss(c) /\ UNCHANGED <<update, updates>>
      /\ UNCHANGED <<row, fileStatus, jiraSide, abandoned>>

SendUpdate(c) ==
  /\ Doing(c, "confirm", "send")
  /\ request' = [request EXCEPT ![clerk[c].num] = "inflight"]
  /\ GoTo(c, "await")
  /\ UNCHANGED <<table, remote, sent, copies, acknowledged, late, abandoned>>

\* A clerk waits for the answer to update n.
Awaited(n) == \E c \in Clerks : Doing(c, "confirm", "await") /\ clerk[c].num = n

JiraUpdates(n) ==
  /\ request[n] = "inflight"
  /\ \/ /\ request' = [request EXCEPT ![n] = "applied"]
        /\ remote' = update[n].doc
        /\ late' = IF Awaited(n) THEN late ELSE late \cup {n}
     \/ /\ \E r \in {"rejected", "lost"} : request' = [request EXCEPT ![n] = r]
        /\ UNCHANGED <<remote, late>>
  /\ UNCHANGED <<table, clerk, sent, copies, acknowledged, abandoned>>

\* 2xx; 4xx; anything else, or nothing in time.
UpdateAnswer(c) ==
  LET n == clerk[c].num
      learn(res) == clerk' = [clerk EXCEPT ![c].pc = "settle", ![c].res = res]
  IN  /\ Doing(c, "confirm", "await")
      /\ \/ request[n] = "applied" /\ learn("success")
         \/ request[n] = "rejected" /\ learn("failed")
         \/ learn("unknown")
      /\ UNCHANGED <<table, jiraSide, abandoned>>

\* update_attempt, shared with the reconciliation.
SettleUpdate(c) ==
  LET t == clerk[c]
      old == update[t.num].status
  IN  /\ t.pc = "settle"
      /\ \/ /\ old \in {"pending", "unknown"} \/ old = t.res
            /\ update' = [update EXCEPT ![t.num].status = t.res]
            /\ GoTo(c, "final")
         \/ /\ old \notin {"pending", "unknown"} /\ old # t.res
            /\ Dismiss(c)
            /\ UNCHANGED update
      /\ UNCHANGED <<row, fileStatus, updates, jiraSide, abandoned>>

\* Mutant of UpdateTarget: an update without an answer counts as done.
UpdateDone(res) == IF res = "failed" THEN "UPDATE_RETRYABLE" ELSE "COMPLETE"
UpdateTarget(res) == CASE res = "success" -> "COMPLETE"
                       [] res = "failed" -> "UPDATE_RETRYABLE"
                       [] OTHER -> "UPDATE_UNKNOWN"

FinishUpdate(c) ==
  /\ clerk[c].op \in {"confirm", "reconcile"} /\ clerk[c].pc = "final"
  /\ Move(c, UpdateTarget(clerk[c].res), "idle")
  /\ UNCHANGED <<fileStatus, update, updates, jiraSide, abandoned>>

-----------------------------------------------------------------------------
(* reconcile_update.                                                       *)

ReconcileUpdateRead(c) ==
  /\ row.state = "UPDATE_UNKNOWN"
  /\ Call(c, "reconcile", "latest")

ReconcileUpdateLatest(c) ==
  /\ Doing(c, "reconcile", "latest")
  /\ \/ /\ updates > 0 /\ update[updates].status = "unknown"
        /\ clerk' = [clerk EXCEPT ![c].pc = "query", ![c].num = updates]
     \/ ~(updates > 0 /\ update[updates].status = "unknown") /\ Dismiss(c)
  /\ UNCHANGED <<table, jiraSide, abandoned>>

\* Mutant of FieldsMatch: the issue exists, so the update succeeded.
IssueAnswers(c) == TRUE
FieldsMatch(c) == remote = clerk[c].doc

CompareRemote(c) ==
  /\ Doing(c, "reconcile", "query")
  /\ \/ /\ FieldsMatch(c)
        /\ clerk' = [clerk EXCEPT ![c].pc = "settle", ![c].res = "success"]
     \/ ~FieldsMatch(c) /\ Dismiss(c)
  /\ UNCHANGED <<table, jiraSide, abandoned>>

AbandonCall(c) ==
  /\ clerk[c].pc # "idle"
  /\ abandoned < MaxAbandoned
  /\ abandoned' = abandoned + 1
  /\ Dismiss(c)
  /\ UNCHANGED <<table, jiraSide>>

-----------------------------------------------------------------------------

Upload(c) ==
  \/ UploadRead(c) \/ UploadCas(c) \/ ListFiles(c) \/ ClaimFile(c)
  \/ LoadFile(c) \/ UploadAnswer(c) \/ RecordFile(c) \/ CountFailed(c)
  \/ UploadFinal(c)

Revise(c) ==
  \/ PrepareRead(c) \/ PrepareSave(c)
  \/ ConfirmRead(c) \/ ConfirmCas(c) \/ NumberUpdate(c) \/ ClaimUpdate(c)
  \/ SendUpdate(c) \/ UpdateAnswer(c) \/ SettleUpdate(c) \/ FinishUpdate(c)
  \/ ReconcileUpdateRead(c) \/ ReconcileUpdateLatest(c) \/ CompareRemote(c)

PublishedNext ==
  \/ \E c \in Clerks : Upload(c) \/ Revise(c) \/ AbandonCall(c)
  \/ \E n \in UpdateNumbers : JiraUpdates(n)

PublishedSpec == PublishedInit /\ [][PublishedNext]_publishedVars

-----------------------------------------------------------------------------
(* Properties.                                                             *)

\* A file whose upload Jira acknowledged is never sent again, whichever calls
\* race, crash or repeat.
AcknowledgedIsNotResent ==
  [][\A f \in acknowledged : sent'[f] = sent[f]]_publishedVars

\* A new update is sent only when every earlier one is known to have ended.
NoUpdateWhileUnresolved ==
  \A n \in 1 .. updates :
    n < updates => update[n].status \in {"success", "failed"}

\* The issue of a draft at rest has the draft's content, unless an update
\* nobody waited for any more was applied over it.
CompleteMatchesIssue ==
  row.state \in {"CREATED", "ATTACHING", "ATTACHMENT_PARTIAL", "COMPLETE"} =>
    \/ remote = row.template
    \/ \E n \in late : remote = update[n].doc

\* "single-attachment retry" (docs/architecture/provider-boundaries.md:76): a
\* complete draft, whose files no call uploads, has none that failed.
CompleteHasNoFailedFile ==
  row.state = "COMPLETE" => \A f \in Files : fileStatus[f] # "failed"

=============================================================================
