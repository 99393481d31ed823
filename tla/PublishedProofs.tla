-------------------------- MODULE PublishedProofs --------------------------
(***************************************************************************)
(* A file Jira acknowledged is not uploaded again, and no update is sent   *)
(* while an earlier one is unresolved, for any number of files and calls.  *)
(*                                                                         *)
(* The status "uploading" is a lock: it is taken by a compare-and-swap     *)
(* from a status no acknowledged file has, and the task that took it is    *)
(* the only one that looks at the file (HoldersLocked, HoldersApart).  A   *)
(* task that dies leaves it taken, so what it did not write down is not    *)
(* done again.                                                             *)
(*                                                                         *)
(* The state UPDATING is the same kind of lock for updates (Resolved): its *)
(* holder numbers its attempt while all earlier ones have ended.           *)
(***************************************************************************)
EXTENDS PublishedDraft, TLAPS

ClerkTask ==
  [op : {"none", "upload", "prepare", "confirm", "reconcile"},
   pc : {"idle", "cas", "list", "claim", "load", "await", "record",
         "count", "final", "save", "latest", "send", "query", "settle"},
   rev : Nat, doc : Documents \cup {"none"}, num : 0 .. MaxUpdates + 1,
   res : {"none", "uploaded", "failed", "partial", "success", "unknown"},
   file : Files \cup {NoFile}, todo : SUBSET (Files \X FileStatus)]

\* What the argument needs of the types.
Types ==
  /\ row \in [state : PublishedStates, revision : Nat, template : Documents]
  /\ fileStatus \in [Files -> FileStatus]
  /\ updates \in 0 .. MaxUpdates
  /\ sent \in [Files -> Nat]
  /\ acknowledged \subseteq Files
  /\ abandoned \in 0 .. MaxAbandoned
  /\ clerk \in [Clerks -> ClerkTask]

\* The task is between the claim of a file and the record of what became of it.
Holding(t) == t.op = "upload" /\ t.pc \in {"load", "await", "record"}

Listed == \A c \in Clerks :
            clerk[c].todo \subseteq Files \X {"pending", "failed", "uploading"}

HoldersLocked ==
  \A c \in Clerks : Holding(clerk[c]) =>
    clerk[c].file \in Files /\ fileStatus[clerk[c].file] = "uploading"

HoldersApart ==
  \A c, d \in Clerks :
    c # d /\ Holding(clerk[c]) /\ Holding(clerk[d]) =>
      clerk[c].file # clerk[d].file

Kept == \A f \in acknowledged : fileStatus[f] \in {"uploading", "uploaded"}

\* A file is acknowledged to the task that holds it only at the answer.
Known == \A c \in Clerks : Holding(clerk[c]) =>
  /\ clerk[c].pc # "record" => clerk[c].file \notin acknowledged
  /\ clerk[c].pc = "record" =>
       /\ clerk[c].res \in {"uploaded", "failed"}
       /\ clerk[c].file \in acknowledged => clerk[c].res = "uploaded"

Inv == Types /\ Listed /\ HoldersLocked /\ HoldersApart /\ Kept /\ Known

LEMMA InitInv == PublishedInit => Inv
<1> SUFFICES ASSUME PublishedInit PROVE Inv OBVIOUS
<1>1. \A c \in Clerks : clerk[c] = FreeClerk BY DEF PublishedInit
<1>2. Types
  <2>1. FreeClerk \in ClerkTask
    <3>1. 0 \in 0 .. MaxUpdates + 1 BY PublishedAssumption
    <3> QED BY <3>1 DEF FreeClerk, ClerkTask
  <2>2. clerk \in [Clerks -> ClerkTask] BY <2>1 DEF PublishedInit
  <2>3. row \in [state : PublishedStates, revision : Nat, template : Documents]
    BY DEF PublishedInit, PublishedStates
  <2>4. fileStatus \in [Files -> FileStatus] /\ sent \in [Files -> Nat]
    BY DEF PublishedInit, FileStatus
  <2>5. updates \in 0 .. MaxUpdates /\ abandoned \in 0 .. MaxAbandoned
    BY PublishedAssumption DEF PublishedInit
  <2> QED BY <2>2, <2>3, <2>4, <2>5 DEF PublishedInit, Types
<1>3. Listed /\ HoldersLocked /\ HoldersApart /\ Known
  BY <1>1 DEF Listed, HoldersLocked, HoldersApart, Known, Holding, FreeClerk
<1>4. Kept BY DEF PublishedInit, Kept
<1> QED BY <1>2, <1>3, <1>4 DEF Inv

\* A step of a task that holds no file afterwards.
LEMMA FreeHands ==
  ASSUME Inv, Types', NEW c \in Clerks, NEW t \in ClerkTask,
         clerk' = [clerk EXCEPT ![c] = t],
         t.todo \subseteq Files \X {"pending", "failed", "uploading"},
         ~Holding(t), UNCHANGED <<fileStatus, acknowledged>>
  PROVE  Inv'
<1>1. \A d \in Clerks : clerk'[d] = IF d = c THEN t ELSE clerk[d]
  BY DEF Inv, Types
<1>2. Listed' BY <1>1 DEF Inv, Listed
<1>3. HoldersLocked' BY <1>1 DEF Inv, HoldersLocked
<1>4. HoldersApart' BY <1>1 DEF Inv, HoldersApart
<1>5. Kept' /\ Known' BY <1>1 DEF Inv, Kept, Known
<1> QED BY <1>2, <1>3, <1>4, <1>5 DEF Inv

\* A step of a task that leaves its hands as they are: the same file, the same
\* place among the three, the same result.
LEMMA SameHands ==
  ASSUME Inv, Types', NEW c \in Clerks, NEW t \in ClerkTask,
         clerk' = [clerk EXCEPT ![c] = t],
         t.todo = clerk[c].todo, t.op = clerk[c].op, t.pc = "await",
         clerk[c].pc = "load", t.file = clerk[c].file,
         UNCHANGED <<fileStatus, acknowledged>>
  PROVE  Inv'
<1>1. \A d \in Clerks : clerk'[d] = IF d = c THEN t ELSE clerk[d]
  BY DEF Inv, Types
<1>2. Listed' BY <1>1 DEF Inv, Listed
<1>3. HoldersLocked' BY <1>1 DEF Inv, HoldersLocked, Holding
<1>4. HoldersApart' BY <1>1 DEF Inv, HoldersApart, Holding
<1>5. Kept' /\ Known' BY <1>1 DEF Inv, Kept, Known, Holding
<1> QED BY <1>2, <1>3, <1>4, <1>5 DEF Inv

-----------------------------------------------------------------------------
(* Types.                                                                  *)

LEMMA TaskTypes ==
  ASSUME Types, NEW c \in Clerks
  PROVE  /\ clerk \in [Clerks -> ClerkTask]
         /\ clerk[c] \in ClerkTask
         /\ FreeClerk \in ClerkTask
         /\ FreeClerk.todo = {} /\ ~Holding(FreeClerk)
<1>1. clerk \in [Clerks -> ClerkTask] BY DEF Types, ClerkTask
<1>2. 0 \in 0 .. MaxUpdates + 1 BY PublishedAssumption
<1>3. FreeClerk \in ClerkTask BY <1>2 DEF FreeClerk, ClerkTask
<1>4. FreeClerk.todo = {} /\ ~Holding(FreeClerk) BY DEF FreeClerk, Holding
<1>5. clerk[c] \in ClerkTask BY <1>1
<1> QED BY <1>1, <1>3, <1>4, <1>5

\* What Move does to the row, and to the task.
LEMMA MoveSteps ==
  ASSUME Inv, NEW c \in Clerks, NEW s \in PublishedStates,
         NEW pc \in {"idle", "list", "latest"}, Move(c, s, pc)
  PROVE  /\ row' \in [state : PublishedStates, revision : Nat, template : Documents]
         /\ \E t \in ClerkTask :
              /\ clerk' = [clerk EXCEPT ![c] = t]
              /\ t.todo \subseteq Files \X {"pending", "failed", "uploading"}
              /\ ~Holding(t)
<1>1. clerk[c] \in ClerkTask /\ FreeClerk \in ClerkTask /\ ~Holding(FreeClerk)
      /\ FreeClerk.todo = {} /\ clerk \in [Clerks -> ClerkTask]
  BY TaskTypes DEF Inv
<1>2. row' \in [state : PublishedStates, revision : Nat, template : Documents]
  <2>1. row \in [state : PublishedStates, revision : Nat, template : Documents]
    BY DEF Inv, Types
  <2>2. row' = row \/ row' = [row EXCEPT !.state = s, !.revision = @ + 1]
    BY DEF Move
  <2>3. row.revision + 1 \in Nat BY <2>1
  <2>4. ASSUME NEW r \in Nat
        PROVE  [[row EXCEPT !.state = s] EXCEPT !.revision = r]
                 \in [state : PublishedStates, revision : Nat, template : Documents]
    BY <2>1
  <2>5. [row EXCEPT !.state = s, !.revision = @ + 1]
          = [[row EXCEPT !.state = s] EXCEPT !.revision = row.revision + 1]
    BY <2>1
  <2> QED BY <2>1, <2>2, <2>3, <2>4, <2>5
<1>3. CASE clerk' = [clerk EXCEPT ![c] = FreeClerk]
  <2>1. FreeClerk.todo \subseteq Files \X {"pending", "failed", "uploading"}
    BY <1>1
  <2> QED BY <1>1, <1>2, <1>3, <2>1, Zenon
<1>4. CASE clerk' = [clerk EXCEPT ![c].pc = pc, ![c].rev = @ + 1]
              /\ pc # "idle"
  <2> DEFINE t == [clerk[c] EXCEPT !.pc = pc, !.rev = @ + 1]
  <2>1. t \in ClerkTask /\ t.todo = clerk[c].todo /\ t.pc = pc
    BY <1>1, <1>4 DEF ClerkTask
  <2>2. clerk' = [clerk EXCEPT ![c] = t] BY <1>1, <1>4
  <2>3. ~Holding(t) BY <2>1, <1>4 DEF Holding
  <2>4. t.todo \subseteq Files \X {"pending", "failed", "uploading"}
    BY <2>1 DEF Inv, Listed
  <2> QED BY <1>2, <2>1, <2>2, <2>3, <2>4
<1> QED BY <1>3, <1>4 DEF Move, Dismiss

\* A step of one task, with the tables and Jira keeping their types.
LEMMA TypesKept ==
  ASSUME Types, NEW c \in Clerks, NEW t \in ClerkTask,
         clerk' = [clerk EXCEPT ![c] = t],
         UNCHANGED <<table, jiraSide, abandoned>>
  PROVE  Types'
  BY DEF Types, ClerkTask, table, jiraSide

\* A step of one task that only changes the task, and leaves it empty-handed.
LEMMA OnlyTask ==
  ASSUME Inv, NEW c \in Clerks, NEW t \in ClerkTask,
         clerk' = [clerk EXCEPT ![c] = t],
         t.todo \subseteq Files \X {"pending", "failed", "uploading"},
         ~Holding(t), UNCHANGED <<table, jiraSide, abandoned>>
  PROVE  Inv'
<1>1. Types' BY TypesKept DEF Inv
<1>2. UNCHANGED <<fileStatus, acknowledged>> BY DEF table, jiraSide
<1> QED BY <1>1, <1>2, FreeHands

\* A task ends.
LEMMA Dismissed ==
  ASSUME Inv, NEW c \in Clerks, Dismiss(c), UNCHANGED <<table, jiraSide>>,
         abandoned' \in 0 .. MaxAbandoned
  PROVE  Inv'
<1>1. FreeClerk \in ClerkTask /\ FreeClerk.todo = {} /\ ~Holding(FreeClerk)
  BY TaskTypes DEF Inv
<1>2. clerk' = [clerk EXCEPT ![c] = FreeClerk] BY DEF Dismiss
<1>3. Types'
  BY <1>1, <1>2 DEF Inv, Types, ClerkTask, table, jiraSide
<1>4. UNCHANGED <<fileStatus, acknowledged>> BY DEF table, jiraSide
<1> QED BY <1>1, <1>2, <1>3, <1>4, FreeHands

\* A call begins.
LEMMA CallStep ==
  ASSUME Inv, NEW c \in Clerks, NEW op \in {"upload", "prepare", "confirm", "reconcile"},
         NEW pc \in {"cas", "save", "latest"}, Call(c, op, pc)
  PROVE  Inv'
<1> DEFINE t == [FreeClerk EXCEPT !.op = op, !.pc = pc, !.rev = row.revision,
                                  !.doc = row.template]
<1>1. row.revision \in Nat /\ row.template \in Documents
  BY DEF Inv, Types
<1> DEFINE q == [FreeClerk EXCEPT !.op = op]
           u == [q EXCEPT !.pc = pc]
           v == [u EXCEPT !.rev = row.revision]
<1>0. q \in ClerkTask /\ q.todo = {}
  <2>1. FreeClerk \in ClerkTask /\ FreeClerk.todo = {} BY TaskTypes DEF Inv
  <2> QED BY <2>1 DEF ClerkTask
<1>3. t = [v EXCEPT !.doc = row.template] OBVIOUS
<1>4. clerk' = [clerk EXCEPT ![c] = t] /\ UNCHANGED <<table, jiraSide, abandoned>>
  BY DEF Call
<1> HIDE DEF t, q
<1>2. u \in ClerkTask /\ u.todo = {} /\ u.pc = pc BY <1>0 DEF ClerkTask
<1> HIDE DEF u
<1>5. v \in ClerkTask /\ v.todo = {} /\ v.pc = pc BY <1>1, <1>2 DEF ClerkTask
<1> HIDE DEF v
<1>6. t \in ClerkTask /\ t.todo = {} /\ t.pc = pc
  BY <1>1, <1>3, <1>5 DEF ClerkTask
<1>7. ~Holding(t) BY <1>6 DEF Holding
<1> QED BY <1>4, <1>6, <1>7, OnlyTask

-----------------------------------------------------------------------------
(* The steps.                                                              *)

LEMMA Names ==
  {"CREATED", "ATTACHING", "ATTACHMENT_PARTIAL", "COMPLETE", "UPDATE_REVIEW",
   "UPDATING", "UPDATE_RETRYABLE", "UPDATE_UNKNOWN"} \subseteq PublishedStates
  BY DEF PublishedStates

\* Move, with the rest of the tables as they were.
LEMMA MoveStep ==
  ASSUME Inv, NEW c \in Clerks, NEW s \in PublishedStates,
         NEW pc \in {"idle", "list", "latest"}, Move(c, s, pc),
         UNCHANGED <<fileStatus, update, updates, jiraSide, abandoned>>
  PROVE  Inv'
<1>1. row' \in [state : PublishedStates, revision : Nat, template : Documents]
  BY MoveSteps
<1>2. PICK t \in ClerkTask :
        /\ clerk' = [clerk EXCEPT ![c] = t]
        /\ t.todo \subseteq Files \X {"pending", "failed", "uploading"}
        /\ ~Holding(t)
  BY MoveSteps
<1>3. Types'
  BY <1>1, <1>2 DEF Inv, Types, ClerkTask, jiraSide
<1>4. UNCHANGED <<fileStatus, acknowledged>> BY DEF jiraSide
<1> QED BY <1>2, <1>3, <1>4, FreeHands

LEMMA UploadReadStep ==
  ASSUME Inv, NEW c \in Clerks, UploadRead(c) \/ UploadCas(c) \/ UploadFinal(c)
  PROVE  Inv'
<1>1. CASE UploadRead(c) BY <1>1, CallStep DEF UploadRead
<1>2. CASE UploadCas(c) BY <1>2, MoveStep, Names DEF UploadCas
<1>3. CASE UploadFinal(c) BY <1>3, MoveStep, Names DEF UploadFinal
<1> QED BY <1>1, <1>2, <1>3

LEMMA ListFilesStep ==
  ASSUME Inv, NEW c \in Clerks, ListFiles(c)
  PROVE  Inv'
<1> DEFINE listed == {<<f, fileStatus[f]>> :
              f \in {g \in Files : fileStatus[g] \notin {"uploaded", "skipped"}}}
           t == [clerk[c] EXCEPT !.pc = "claim", !.todo = listed]
<1>1. \A f \in Files : fileStatus[f] \in FileStatus
  BY DEF Inv, Types
<1>2. listed \subseteq Files \X {"pending", "failed", "uploading"}
      /\ listed \in SUBSET (Files \X FileStatus)
  BY <1>1 DEF FileStatus
<1>3. clerk[c] \in ClerkTask /\ clerk \in [Clerks -> ClerkTask]
  BY TaskTypes DEF Inv
<1>4. clerk' = [clerk EXCEPT ![c] = t] /\ UNCHANGED <<table, jiraSide, abandoned>>
  BY <1>3 DEF ListFiles
<1> HIDE DEF listed
<1>5. t \in ClerkTask /\ t.todo = listed /\ t.pc = "claim"
  BY <1>2, <1>3 DEF ClerkTask
<1>6. ~Holding(t) BY <1>5 DEF Holding
<1> HIDE DEF t
<1> QED BY <1>2, <1>4, <1>5, <1>6, OnlyTask

LEMMA CountStep ==
  ASSUME Inv, NEW c \in Clerks, CountFailed(c)
  PROVE  Inv'
<1> DEFINE res == IF \E f \in Files : fileStatus[f] = "failed"
                    THEN "partial" ELSE "none"
           t == [clerk[c] EXCEPT !.pc = "final", !.res = res]
<1>1. clerk[c] \in ClerkTask /\ clerk \in [Clerks -> ClerkTask]
  BY TaskTypes DEF Inv
<1>2. clerk' = [clerk EXCEPT ![c] = t] /\ UNCHANGED <<table, jiraSide, abandoned>>
  BY <1>1 DEF CountFailed
<1>3. res \in {"partial", "none"} OBVIOUS
<1> HIDE DEF res
<1>4. t \in ClerkTask /\ t.todo = clerk[c].todo /\ t.pc = "final"
  BY <1>1, <1>3 DEF ClerkTask
<1>5. ~Holding(t) BY <1>4 DEF Holding
<1>6. t.todo \subseteq Files \X {"pending", "failed", "uploading"}
  BY <1>4 DEF Inv, Listed
<1> HIDE DEF t
<1> QED BY <1>2, <1>4, <1>5, <1>6, OnlyTask

\* A file is claimed from a status no acknowledged file has.
LEMMA ClaimFileStep ==
  ASSUME Inv, NEW c \in Clerks, ClaimFile(c)
  PROVE  Inv'
<1>1. clerk[c] \in ClerkTask /\ clerk \in [Clerks -> ClerkTask]
      /\ UNCHANGED <<row, update, updates, jiraSide, abandoned>>
  BY TaskTypes DEF Inv, ClaimFile
<1>2. fileStatus \in [Files -> FileStatus] BY DEF Inv, Types
<1>3. CASE GoTo(c, "count") /\ UNCHANGED fileStatus
  <2> DEFINE t == [clerk[c] EXCEPT !.pc = "count"]
  <2>1. t \in ClerkTask /\ t.todo = clerk[c].todo /\ t.pc = "count"
    BY <1>1 DEF ClerkTask
  <2>2. ~Holding(t) BY <2>1 DEF Holding
  <2>3. clerk' = [clerk EXCEPT ![c] = t] /\ UNCHANGED <<table, jiraSide, abandoned>>
    BY <1>1, <1>3 DEF GoTo, table
  <2>4. t.todo \subseteq Files \X {"pending", "failed", "uploading"}
    BY <2>1 DEF Inv, Listed
  <2> HIDE DEF t
  <2> QED BY <2>1, <2>2, <2>3, <2>4, OnlyTask
<1>4. CASE \E f \in Files, s \in FileStatus :
             /\ <<f, s>> \in clerk[c].todo
             /\ Dismiss(c) /\ UNCHANGED fileStatus
  <2>1. abandoned' \in 0 .. MaxAbandoned /\ UNCHANGED <<table, jiraSide>>
    BY <1>1, <1>4 DEF Inv, Types, table
  <2> QED BY <1>4, <2>1, Dismissed
<1>5. ASSUME NEW f \in Files, NEW s \in FileStatus,
             <<f, s>> \in clerk[c].todo, s # "uploading", fileStatus[f] = s
      PROVE  /\ s \in {"pending", "failed"}
             /\ f \notin acknowledged
             /\ \A d \in Clerks : Holding(clerk[d]) => clerk[d].file # f
  <2>1. <<f, s>> \in Files \X {"pending", "failed", "uploading"}
    BY <1>5 DEF Inv, Listed
  <2>2. s \in {"pending", "failed"} BY <1>5, <2>1
  <2> QED BY <1>5, <2>2 DEF Inv, Kept, HoldersLocked
<1>6. ASSUME NEW f \in Files, NEW s \in FileStatus, <<f, s>> \in clerk[c].todo,
             NEW u \in FileStatus,
             u = fileStatus[f] \/ (s # "uploading" /\ fileStatus[f] = s),
             fileStatus' = [fileStatus EXCEPT ![f] = u],
             Doing(c, "upload", "claim"),
             clerk' = [clerk EXCEPT ![c].todo = clerk[c].todo \ {<<f, s>>}]
      PROVE  Inv'
  <2> DEFINE t == [clerk[c] EXCEPT !.todo = clerk[c].todo \ {<<f, s>>}]
  <2>1. t \in ClerkTask /\ t.todo \subseteq clerk[c].todo /\ t.pc = "claim"
    BY <1>1, <1>6 DEF ClerkTask, Doing
  <2>2. ~Holding(t) BY <2>1 DEF Holding
  <2>3. clerk' = [clerk EXCEPT ![c] = t] BY <1>1, <1>6
  <2>4. t.todo \subseteq Files \X {"pending", "failed", "uploading"}
    BY <2>1 DEF Inv, Listed
  <2> HIDE DEF t
  <2>5. \A d \in Clerks : clerk'[d] = IF d = c THEN t ELSE clerk[d]
    BY <1>1, <2>3
  <2>6. Types'
    <3>1. fileStatus' \in [Files -> FileStatus] BY <1>2, <1>6
    <3>2. clerk' \in [Clerks -> ClerkTask] BY <1>1, <2>1, <2>3
    <3> QED BY <1>1, <3>1, <3>2 DEF Inv, Types, ClerkTask, jiraSide
  <2>7. \A g \in Files : fileStatus'[g] = fileStatus[g] \/ g = f
    BY <1>2, <1>6
  <2>8. \/ fileStatus' = fileStatus
        \/ f \notin acknowledged
           /\ \A d \in Clerks : Holding(clerk[d]) => clerk[d].file # f
    BY <1>2, <1>5, <1>6
  <2>9. Listed' BY <2>4, <2>5 DEF Inv, Listed
  <2>10. HoldersLocked' BY <2>2, <2>5, <2>7, <2>8 DEF Inv, HoldersLocked
  <2>11. HoldersApart' BY <2>2, <2>5 DEF Inv, HoldersApart
  <2>12. acknowledged' = acknowledged /\ acknowledged \subseteq Files
    BY <1>1 DEF jiraSide, Inv, Types
  <2>13. Kept' BY <2>7, <2>8, <2>12 DEF Inv, Kept
  <2>14. Known' BY <2>2, <2>5, <2>12 DEF Inv, Known
  <2> QED BY <2>6, <2>9, <2>10, <2>11, <2>13, <2>14 DEF Inv
<1>7. ASSUME NEW f \in Files, NEW s \in FileStatus, <<f, s>> \in clerk[c].todo,
             s # "uploading", fileStatus[f] = s,
             fileStatus' = [fileStatus EXCEPT ![f] = "uploading"],
             Doing(c, "upload", "claim"),
             clerk' = [clerk EXCEPT ![c].todo = clerk[c].todo \ {<<f, s>>},
                                    ![c].pc = "load", ![c].file = f]
      PROVE  Inv'
  <2> DEFINE t == [clerk[c] EXCEPT !.todo = clerk[c].todo \ {<<f, s>>},
                                   !.pc = "load", !.file = f]
  <2>1. t \in ClerkTask /\ t.todo \subseteq clerk[c].todo /\ t.pc = "load"
        /\ t.file = f
    BY <1>1, <1>7 DEF ClerkTask
  <2>2. clerk' = [clerk EXCEPT ![c] = t] BY <1>1, <1>7
  <2>3. t.todo \subseteq Files \X {"pending", "failed", "uploading"}
    BY <2>1 DEF Inv, Listed
  <2> HIDE DEF t
  <2>4. \A d \in Clerks : clerk'[d] = IF d = c THEN t ELSE clerk[d]
    BY <1>1, <2>2
  <2>5. Types'
    <3>1. fileStatus' \in [Files -> FileStatus] BY <1>2, <1>7 DEF FileStatus
    <3>2. clerk' \in [Clerks -> ClerkTask] BY <1>1, <2>1, <2>2
    <3> QED BY <1>1, <3>1, <3>2 DEF Inv, Types, ClerkTask, jiraSide
  <2>6. fileStatus'[f] = "uploading"
        /\ \A g \in Files \ {f} : fileStatus'[g] = fileStatus[g]
    BY <1>2, <1>7
  <2>7. f \notin acknowledged
        /\ \A d \in Clerks : Holding(clerk[d]) => clerk[d].file # f
    BY <1>5, <1>7
  <2>8. Listed' BY <2>3, <2>4 DEF Inv, Listed
  <2>9. HoldersLocked' BY <2>1, <2>4, <2>6, <2>7 DEF Inv, HoldersLocked
  <2>10. HoldersApart' BY <2>1, <2>4, <2>7 DEF Inv, HoldersApart
  <2>11. acknowledged' = acknowledged /\ acknowledged \subseteq Files
    BY <1>1 DEF jiraSide, Inv, Types
  <2>12. Kept' BY <2>6, <2>7, <2>11 DEF Inv, Kept
  <2>13. Known' BY <2>1, <2>4, <2>7, <2>11 DEF Inv, Known
  <2> QED BY <2>5, <2>8, <2>9, <2>10, <2>12, <2>13 DEF Inv
<1>8. Doing(c, "upload", "claim") BY DEF ClaimFile
<1>9. CASE clerk[c].todo = {} /\ GoTo(c, "count") /\ UNCHANGED fileStatus
  BY <1>3, <1>9
<1>10. ASSUME NEW f \in Files, NEW s \in FileStatus, <<f, s>> \in clerk[c].todo,
              s # "uploading", fileStatus[f] # s, UNCHANGED fileStatus,
              clerk' = [clerk EXCEPT ![c].todo = clerk[c].todo \ {<<f, s>>}]
       PROVE  Inv'
  <2>1. fileStatus' = [fileStatus EXCEPT ![f] = fileStatus[f]]
        /\ fileStatus[f] \in FileStatus
    BY <1>2, <1>10
  <2> QED BY <1>6, <1>8, <1>10, <2>1
<1>11. ASSUME NEW f \in Files, NEW s \in FileStatus, <<f, s>> \in clerk[c].todo,
              s # "uploading", fileStatus[f] = s,
              fileStatus' = [fileStatus EXCEPT ![f] = "skipped"],
              clerk' = [clerk EXCEPT ![c].todo = clerk[c].todo \ {<<f, s>>}]
       PROVE  Inv'
  <2>1. "skipped" \in FileStatus BY DEF FileStatus
  <2> QED BY <1>6, <1>8, <1>11, <2>1
<1> QED BY <1>4, <1>7, <1>8, <1>9, <1>10, <1>11, Zenon DEF ClaimFile

\* The file is sent, or it is known to have failed before that.
LEMMA LoadFileStep ==
  ASSUME Inv, NEW c \in Clerks, LoadFile(c)
  PROVE  Inv' /\ \A f \in acknowledged : sent'[f] = sent[f]
<1>1. clerk[c] \in ClerkTask /\ clerk \in [Clerks -> ClerkTask]
  BY TaskTypes DEF Inv
<1>2. Holding(clerk[c]) /\ clerk[c].pc = "load" BY DEF LoadFile, Doing, Holding
<1>3. clerk[c].file \in Files /\ clerk[c].file \notin acknowledged
  BY <1>2 DEF Inv, HoldersLocked, Known
<1>4. sent \in [Files -> Nat] /\ acknowledged \subseteq Files
  BY DEF Inv, Types
<1>5. UNCHANGED <<table, request, remote, copies, acknowledged, late, abandoned>>
  BY DEF LoadFile
<1>6. CASE Conclude(c, "failed") /\ UNCHANGED sent
  <2> DEFINE t == [clerk[c] EXCEPT !.pc = "record", !.res = "failed"]
  <2>1. t \in ClerkTask /\ t.todo = clerk[c].todo /\ t.pc = "record"
        /\ t.op = "upload" /\ t.file = clerk[c].file /\ t.res = "failed"
    BY <1>1, <1>2 DEF ClerkTask, Holding
  <2>2. clerk' = [clerk EXCEPT ![c] = t] BY <1>1, <1>6 DEF Conclude
  <2> HIDE DEF t
  <2>3. Types'
    BY <1>5, <1>6, <2>1, <2>2, TypesKept DEF Inv, jiraSide
  <2>4. \A d \in Clerks : clerk'[d] = IF d = c THEN t ELSE clerk[d]
    BY <1>1, <2>2
  <2>5. UNCHANGED <<fileStatus, acknowledged>> BY <1>5 DEF table
  <2>6. Listed' BY <2>1, <2>4 DEF Inv, Listed
  <2>7. HoldersLocked' BY <1>2, <2>1, <2>4, <2>5 DEF Inv, HoldersLocked
  <2>8. HoldersApart'
    <3>1. \A d \in Clerks : clerk'[d].file = clerk[d].file
            /\ (Holding(clerk'[d]) => Holding(clerk[d]))
      BY <1>2, <2>1, <2>4
    <3> QED BY <3>1 DEF Inv, HoldersApart
  <2>9. Kept' /\ Known' BY <1>3, <2>1, <2>4, <2>5 DEF Inv, Kept, Known
  <2> QED BY <1>6, <2>3, <2>6, <2>7, <2>8, <2>9 DEF Inv
<1>7. CASE GoTo(c, "await") /\ sent' = [sent EXCEPT ![clerk[c].file] = @ + 1]
  <2> DEFINE t == [clerk[c] EXCEPT !.pc = "await"]
  <2>1. t \in ClerkTask /\ t.todo = clerk[c].todo /\ t.pc = "await"
        /\ t.op = clerk[c].op /\ t.file = clerk[c].file
    BY <1>1 DEF ClerkTask
  <2>2. clerk' = [clerk EXCEPT ![c] = t] BY <1>1, <1>7 DEF GoTo
  <2> HIDE DEF t
  <2>3. sent' \in [Files -> Nat] BY <1>3, <1>4, <1>7
  <2>4. clerk' \in [Clerks -> ClerkTask] BY <1>1, <2>1, <2>2
  <2>5. Types'
    BY <1>5, <2>3, <2>4 DEF Inv, Types, ClerkTask, table
  <2>6. UNCHANGED <<fileStatus, acknowledged>> BY <1>5 DEF table
  <2>7. Inv' BY <1>2, <2>1, <2>2, <2>5, <2>6, SameHands
  <2>8. \A f \in acknowledged : sent'[f] = sent[f] BY <1>3, <1>4, <1>7
  <2> QED BY <2>7, <2>8
<1> QED BY <1>6, <1>7 DEF LoadFile

\* Jira's answer is what the record will say.
LEMMA UploadAnswerStep ==
  ASSUME Inv, NEW c \in Clerks, UploadAnswer(c)
  PROVE  Inv'
<1>1. clerk[c] \in ClerkTask /\ clerk \in [Clerks -> ClerkTask]
  BY TaskTypes DEF Inv
<1>2. Holding(clerk[c]) BY DEF UploadAnswer, Doing, Holding
<1>3. clerk[c].file \in Files /\ fileStatus[clerk[c].file] = "uploading"
  BY <1>2 DEF Inv, HoldersLocked
<1>4. clerk[c].file \notin acknowledged
  BY <1>2 DEF Inv, Known, UploadAnswer, Doing
<1>5. UNCHANGED <<table, request, remote, sent, late, abandoned>>
  BY DEF UploadAnswer
<1>7. PICK r \in {"uploaded", "failed"} :
        /\ Conclude(c, r)
        /\ acknowledged' = IF r = "uploaded" THEN acknowledged \cup {clerk[c].file}
                                             ELSE acknowledged
  BY DEF UploadAnswer
<1> DEFINE t == [clerk[c] EXCEPT !.pc = "record", !.res = r]
<1>8. t \in ClerkTask /\ t.todo = clerk[c].todo /\ t.pc = "record"
      /\ t.op = "upload" /\ t.file = clerk[c].file /\ t.res = r
  BY <1>1, <1>2, <1>7 DEF ClerkTask, Holding
<1>9. clerk' = [clerk EXCEPT ![c] = t] BY <1>1, <1>7 DEF Conclude
<1> HIDE DEF t
<1>10. clerk' \in [Clerks -> ClerkTask] BY <1>1, <1>8, <1>9
<1>11. Types'
  BY <1>3, <1>5, <1>7, <1>10 DEF Inv, Types, ClerkTask, table
<1>12. \A d \in Clerks : clerk'[d] = IF d = c THEN t ELSE clerk[d]
  BY <1>1, <1>9
<1>13. fileStatus' = fileStatus BY <1>5 DEF table
<1>14. Listed' BY <1>8, <1>12 DEF Inv, Listed
<1>15. \A d \in Clerks : clerk'[d].file = clerk[d].file
         /\ (Holding(clerk'[d]) => Holding(clerk[d]))
  BY <1>2, <1>8, <1>12
<1>16. HoldersLocked' BY <1>13, <1>15 DEF Inv, HoldersLocked
<1>17. HoldersApart' BY <1>15 DEF Inv, HoldersApart
<1>18. Kept' BY <1>3, <1>7, <1>13 DEF Inv, Kept
<1>19. Known'
  <2> SUFFICES ASSUME NEW d \in Clerks, Holding(clerk'[d])
               PROVE  /\ clerk'[d].pc # "record" => clerk'[d].file \notin acknowledged'
                      /\ clerk'[d].pc = "record" =>
                           /\ clerk'[d].res \in {"uploaded", "failed"}
                           /\ clerk'[d].file \in acknowledged' => clerk'[d].res = "uploaded"
    BY DEF Known
  <2>1. CASE d = c BY <1>4, <1>7, <1>8, <1>12, <2>1
  <2>2. CASE d # c
    <3>1. clerk[d].file # clerk[c].file /\ Holding(clerk[d]) /\ clerk'[d] = clerk[d]
      BY <1>2, <1>12, <2>2 DEF Inv, HoldersApart
    <3>2. clerk[d].file \in acknowledged' <=> clerk[d].file \in acknowledged
      BY <1>7, <3>1
    <3> QED BY <3>1, <3>2 DEF Inv, Known
  <2> QED BY <2>1, <2>2
<1> QED BY <1>11, <1>14, <1>16, <1>17, <1>18, <1>19 DEF Inv

\* The lock is given back with what the task knows.
LEMMA RecordFileStep ==
  ASSUME Inv, NEW c \in Clerks, RecordFile(c)
  PROVE  Inv'
<1>1. clerk[c] \in ClerkTask /\ clerk \in [Clerks -> ClerkTask]
  BY TaskTypes DEF Inv
<1>2. Holding(clerk[c]) /\ clerk[c].pc = "record"
  BY DEF RecordFile, Doing, Holding
<1>3. clerk[c].file \in Files /\ fileStatus[clerk[c].file] = "uploading"
  BY <1>2 DEF Inv, HoldersLocked
<1>4. /\ clerk[c].res \in {"uploaded", "failed"}
      /\ clerk[c].file \in acknowledged => clerk[c].res = "uploaded"
  BY <1>2 DEF Inv, Known
<1>5. UNCHANGED <<row, update, updates, jiraSide, abandoned>>
  BY DEF RecordFile
<1>6. fileStatus' = [fileStatus EXCEPT ![clerk[c].file] = clerk[c].res]
  BY <1>3 DEF RecordFile, Recorded
<1> DEFINE t == [clerk[c] EXCEPT !.pc = "claim", !.res = "none", !.file = NoFile]
<1>7. t \in ClerkTask /\ t.todo = clerk[c].todo /\ t.pc = "claim"
  BY <1>1 DEF ClerkTask
<1>8. clerk' = [clerk EXCEPT ![c] = t] BY <1>1 DEF RecordFile
<1>9. ~Holding(t) BY <1>7 DEF Holding
<1> HIDE DEF t
<1>10. clerk' \in [Clerks -> ClerkTask] BY <1>1, <1>7, <1>8
<1>11. fileStatus' \in [Files -> FileStatus]
  BY <1>4, <1>6 DEF Inv, Types, FileStatus
<1>12. Types'
  BY <1>5, <1>10, <1>11 DEF Inv, Types, ClerkTask, jiraSide
<1>13. \A d \in Clerks : clerk'[d] = IF d = c THEN t ELSE clerk[d]
  BY <1>1, <1>8
<1>14. fileStatus'[clerk[c].file] = clerk[c].res
       /\ \A g \in Files \ {clerk[c].file} : fileStatus'[g] = fileStatus[g]
  BY <1>3, <1>6 DEF Inv, Types
<1>15. acknowledged' = acknowledged /\ acknowledged \subseteq Files
  BY <1>5 DEF jiraSide, Inv, Types
<1>16. Listed' BY <1>7, <1>13 DEF Inv, Listed
<1>17. HoldersLocked'
  <2> SUFFICES ASSUME NEW d \in Clerks, Holding(clerk'[d])
               PROVE  clerk'[d].file \in Files
                      /\ fileStatus'[clerk'[d].file] = "uploading"
    BY DEF HoldersLocked
  <2>1. d # c /\ clerk'[d] = clerk[d] BY <1>9, <1>13
  <2>2. clerk[d].file # clerk[c].file /\ clerk[d].file \in Files
        /\ fileStatus[clerk[d].file] = "uploading"
    BY <1>2, <2>1 DEF Inv, HoldersApart, HoldersLocked
  <2> QED BY <1>14, <2>1, <2>2
<1>18. HoldersApart' BY <1>9, <1>13 DEF Inv, HoldersApart
<1>19. Kept' BY <1>4, <1>14, <1>15 DEF Inv, Kept
<1>20. Known' BY <1>9, <1>13, <1>15 DEF Inv, Known
<1> QED BY <1>12, <1>16, <1>17, <1>18, <1>19, <1>20 DEF Inv

-----------------------------------------------------------------------------
(* The updates: no file is held.                                           *)

Places == {"claim", "send", "await", "query", "settle", "final"}
Results == {"none", "success", "failed", "unknown", "uploaded", "partial"}

Learnt(u, pc, num, res) == [u EXCEPT !.pc = pc, !.num = num, !.res = res]

\* What a task learns leaves it a task.
LEMMA TaskLearns ==
  ASSUME NEW u \in ClerkTask, NEW pc \in Places, NEW num \in 0 .. MaxUpdates + 1,
         NEW res \in Results
  PROVE  LET t == Learnt(u, pc, num, res)
         IN  t \in ClerkTask /\ t.todo = u.todo /\ t.pc = pc /\ t.op = u.op
<1> DEFINE v == [u EXCEPT !.pc = pc]
           w == [v EXCEPT !.num = num]
           t == [w EXCEPT !.res = res]
<1>1. v \in ClerkTask /\ v.todo = u.todo /\ v.pc = pc /\ v.op = u.op
  BY DEF ClerkTask, Places
<1> HIDE DEF v
<1>2. w \in ClerkTask /\ w.todo = v.todo /\ w.pc = v.pc /\ w.op = v.op
  BY <1>1 DEF ClerkTask
<1> HIDE DEF w
<1>3. t \in ClerkTask /\ t.todo = w.todo /\ t.pc = w.pc /\ t.op = w.op
  BY <1>2 DEF ClerkTask, Results
<1>4. t = Learnt(u, pc, num, res) BY DEF Learnt, v, w
<1> QED BY <1>1, <1>2, <1>3, <1>4

\* The task goes to pc, with what it learned.
LEMMA Learns ==
  ASSUME Inv, NEW c \in Clerks, NEW pc \in Places, NEW num \in 0 .. MaxUpdates + 1,
         NEW res \in Results,
         clerk' = [clerk EXCEPT ![c] = Learnt(clerk[c], pc, num, res)],
         clerk[c].op # "upload" \/ pc = "final",
         UNCHANGED <<fileStatus, acknowledged>>,
         clerk' \in [Clerks -> ClerkTask] => Types'
  PROVE  Inv'
<1>1. clerk[c] \in ClerkTask /\ clerk \in [Clerks -> ClerkTask]
  BY TaskTypes DEF Inv
<1> DEFINE t == Learnt(clerk[c], pc, num, res)
<1>2. t \in ClerkTask /\ t.todo = clerk[c].todo /\ t.pc = pc /\ t.op = clerk[c].op
  BY <1>1, TaskLearns
<1>3. clerk' = [clerk EXCEPT ![c] = t] OBVIOUS
<1> HIDE DEF t
<1>4. ~Holding(t) BY <1>2 DEF Holding, Places
<1>5. t.todo \subseteq Files \X {"pending", "failed", "uploading"}
  BY <1>2 DEF Inv, Listed
<1>6. Types' BY <1>1, <1>2, <1>3
<1> QED BY <1>2, <1>3, <1>4, <1>5, <1>6, FreeHands

\* A record whose field is set to what it is, is the same record.
LEMMA SameFields ==
  ASSUME Inv, NEW c \in Clerks
  PROVE  /\ clerk[c].num \in 0 .. MaxUpdates + 1
         /\ clerk[c].res \in {"none", "success", "failed", "unknown",
                              "uploaded", "partial"}
         /\ \A pc : [clerk EXCEPT ![c].pc = pc]
                      = [clerk EXCEPT ![c] = [clerk[c] EXCEPT !.pc = pc,
                           !.num = clerk[c].num, !.res = clerk[c].res]]
         /\ \A pc, n : [clerk EXCEPT ![c].pc = pc, ![c].num = n]
                         = [clerk EXCEPT ![c] = [clerk[c] EXCEPT !.pc = pc,
                              !.num = n, !.res = clerk[c].res]]
         /\ \A pc, r : [clerk EXCEPT ![c].pc = pc, ![c].res = r]
                         = [clerk EXCEPT ![c] = [clerk[c] EXCEPT !.pc = pc,
                              !.num = clerk[c].num, !.res = r]]
<1>1. clerk[c] \in ClerkTask /\ clerk \in [Clerks -> ClerkTask]
  BY TaskTypes DEF Inv
<1>2. clerk[c].num \in 0 .. MaxUpdates + 1
      /\ clerk[c].res \in {"none", "success", "failed", "unknown", "uploaded",
                           "partial"}
  BY <1>1 DEF ClerkTask
<1>3. ASSUME NEW pc
      PROVE  [clerk EXCEPT ![c].pc = pc]
               = [clerk EXCEPT ![c] = [clerk[c] EXCEPT !.pc = pc,
                    !.num = clerk[c].num, !.res = clerk[c].res]]
  BY <1>1 DEF ClerkTask
<1>4. ASSUME NEW pc, NEW n
      PROVE  [clerk EXCEPT ![c].pc = pc, ![c].num = n]
               = [clerk EXCEPT ![c] = [clerk[c] EXCEPT !.pc = pc,
                    !.num = n, !.res = clerk[c].res]]
  BY <1>1 DEF ClerkTask
<1>5. ASSUME NEW pc, NEW r
      PROVE  [clerk EXCEPT ![c].pc = pc, ![c].res = r]
               = [clerk EXCEPT ![c] = [clerk[c] EXCEPT !.pc = pc,
                    !.num = clerk[c].num, !.res = r]]
  BY <1>1 DEF ClerkTask
<1> QED BY <1>2, <1>3, <1>4, <1>5

LEMMA PrepareStep ==
  ASSUME Inv, NEW c \in Clerks, PrepareRead(c) \/ PrepareSave(c)
  PROVE  Inv'
<1>1. CASE PrepareRead(c) BY <1>1, CallStep DEF PrepareRead
<1>2. CASE PrepareSave(c)
  <2>1. FreeClerk \in ClerkTask /\ FreeClerk.todo = {} /\ ~Holding(FreeClerk)
        /\ clerk' = [clerk EXCEPT ![c] = FreeClerk]
        /\ clerk \in [Clerks -> ClerkTask]
    BY <1>2, TaskTypes DEF Inv, PrepareSave, Dismiss
  <2>2. row \in [state : PublishedStates, revision : Nat, template : Documents]
    BY DEF Inv, Types
  <2>3. row' \in [state : PublishedStates, revision : Nat, template : Documents]
    BY <1>2, <2>2, Names DEF PrepareSave
  <2>4. UNCHANGED <<fileStatus, update, updates, jiraSide, abandoned>>
    BY <1>2 DEF PrepareSave
  <2>5. clerk' \in [Clerks -> ClerkTask] BY <2>1
  <2>6. Types'
    BY <2>3, <2>4, <2>5 DEF Inv, Types, ClerkTask, jiraSide
  <2>7. UNCHANGED <<fileStatus, acknowledged>> BY <2>4 DEF jiraSide
  <2> QED BY <2>1, <2>6, <2>7, FreeHands
<1> QED BY <1>1, <1>2

LEMMA ConfirmReadStep ==
  ASSUME Inv, NEW c \in Clerks, ConfirmRead(c) \/ ConfirmCas(c) \/ ReconcileUpdateRead(c)
  PROVE  Inv'
<1>1. CASE ConfirmRead(c) BY <1>1, CallStep DEF ConfirmRead
<1>2. CASE ConfirmCas(c) BY <1>2, MoveStep, Names DEF ConfirmCas
<1>3. CASE ReconcileUpdateRead(c) BY <1>3, CallStep DEF ReconcileUpdateRead
<1> QED BY <1>1, <1>2, <1>3

LEMMA NumberUpdateStep ==
  ASSUME Inv, NEW c \in Clerks, NumberUpdate(c)
  PROVE  Inv'
<1>1. updates + 1 \in 0 .. MaxUpdates + 1
  BY PublishedAssumption DEF Inv, Types
<1>2. clerk' = [clerk EXCEPT ![c] = [clerk[c] EXCEPT !.pc = "claim",
                  !.num = updates + 1, !.res = clerk[c].res]]
  <2>1. clerk[c] \in ClerkTask BY TaskTypes DEF Inv
  <2> QED BY <2>1 DEF NumberUpdate, ClerkTask
<1>3. UNCHANGED <<table, jiraSide, abandoned>> /\ clerk[c].op # "upload"
  BY DEF NumberUpdate, Doing
<1>4. clerk' \in [Clerks -> ClerkTask] => Types'
  BY <1>3 DEF Inv, Types, ClerkTask, table, jiraSide
<1>5. UNCHANGED <<fileStatus, acknowledged>> BY <1>3 DEF table, jiraSide
<1> QED BY <1>1, <1>2, <1>3, <1>4, <1>5, SameFields, Learns DEF Places, Results, Learnt

LEMMA ClaimUpdateStep ==
  ASSUME Inv, NEW c \in Clerks, ClaimUpdate(c)
  PROVE  Inv'
<1> DEFINE n == clerk[c].num
<1>1. UNCHANGED <<row, fileStatus, jiraSide, abandoned>> /\ clerk[c].op # "upload"
  BY DEF ClaimUpdate, Doing
<1>2. UNCHANGED <<fileStatus, acknowledged>> BY <1>1 DEF jiraSide
<1>3. CASE /\ UpdateClaimable(n)
           /\ update' = [update EXCEPT ![n] = [status |-> "pending",
                                               doc |-> clerk[c].doc]]
           /\ updates' = n
           /\ GoTo(c, "send")
  <2>1. n \in UpdateNumbers /\ n \in 0 .. MaxUpdates
    BY <1>3, PublishedAssumption DEF UpdateClaimable, UpdateNumbers
  <2>4. clerk' \in [Clerks -> ClerkTask] => Types'
    BY <1>1, <1>3, <2>1 DEF Inv, Types, jiraSide
  <2>5. clerk' = [clerk EXCEPT ![c] = [clerk[c] EXCEPT !.pc = "send",
                    !.num = clerk[c].num, !.res = clerk[c].res]]
    BY <1>3, SameFields DEF GoTo
  <2> QED BY <1>1, <1>2, <2>4, <2>5, SameFields, Learns DEF Places, Results, Learnt
<1>4. CASE Dismiss(c) /\ UNCHANGED <<update, updates>>
  <2>1. UNCHANGED <<table, jiraSide>> /\ abandoned' \in 0 .. MaxAbandoned
    BY <1>1, <1>4 DEF table, Inv, Types
  <2> QED BY <1>4, <2>1, Dismissed
<1> QED BY <1>3, <1>4 DEF ClaimUpdate

LEMMA SendUpdateStep ==
  ASSUME Inv, NEW c \in Clerks, SendUpdate(c)
  PROVE  Inv'
<1>1. UNCHANGED <<table, remote, sent, copies, acknowledged, late, abandoned>>
      /\ clerk[c].op # "upload"
  BY DEF SendUpdate, Doing
<1>3. clerk' \in [Clerks -> ClerkTask] => Types'
  BY <1>1 DEF Inv, Types, table
<1>4. clerk' = [clerk EXCEPT ![c] = [clerk[c] EXCEPT !.pc = "await",
                  !.num = clerk[c].num, !.res = clerk[c].res]]
  BY SameFields DEF SendUpdate, GoTo
<1>5. UNCHANGED <<fileStatus, acknowledged>> BY <1>1 DEF table
<1> QED BY <1>1, <1>3, <1>4, <1>5, SameFields, Learns DEF Places, Results, Learnt

LEMMA UpdateAnswerStep ==
  ASSUME Inv, NEW c \in Clerks, UpdateAnswer(c)
  PROVE  Inv'
<1>1. UNCHANGED <<table, jiraSide, abandoned>> /\ clerk[c].op # "upload"
  BY DEF UpdateAnswer, Doing
<1>2. PICK r \in {"success", "failed", "unknown"} :
        clerk' = [clerk EXCEPT ![c].pc = "settle", ![c].res = r]
  BY DEF UpdateAnswer
<1>3. clerk' = [clerk EXCEPT ![c] = [clerk[c] EXCEPT !.pc = "settle",
                  !.num = clerk[c].num, !.res = r]]
  <2>1. clerk[c] \in ClerkTask BY TaskTypes DEF Inv
  <2> QED BY <1>2, <2>1 DEF ClerkTask
<1>4. clerk' \in [Clerks -> ClerkTask] => Types'
  BY <1>1 DEF Inv, Types, ClerkTask, table, jiraSide
<1>5. UNCHANGED <<fileStatus, acknowledged>> BY <1>1 DEF table, jiraSide
<1> QED BY <1>1, <1>3, <1>4, <1>5, SameFields, Learns DEF Places, Results, Learnt

\* Confirmed or reconciled: the attempt is settled, then the row.
LEMMA SettleUpdateStep ==
  ASSUME Inv, NEW c \in Clerks, SettleUpdate(c)
  PROVE  Inv'
<1> DEFINE n == clerk[c].num
           r == clerk[c].res
<1>1. UNCHANGED <<row, fileStatus, updates, jiraSide, abandoned>>
      /\ clerk[c].pc = "settle"
  BY DEF SettleUpdate
<1>3. CASE update' = [update EXCEPT ![n].status = r] /\ GoTo(c, "final")
  <2>2. clerk' \in [Clerks -> ClerkTask] => Types'
    BY <1>1 DEF Inv, Types, jiraSide
  <2>3. clerk' = [clerk EXCEPT ![c] = [clerk[c] EXCEPT !.pc = "final",
                    !.num = clerk[c].num, !.res = clerk[c].res]]
    BY <1>3, SameFields DEF GoTo
  <2>4. UNCHANGED <<fileStatus, acknowledged>> BY <1>1 DEF jiraSide
  <2> QED BY <2>2, <2>3, <2>4, SameFields, Learns DEF Places, Results, Learnt
<1>4. CASE Dismiss(c) /\ UNCHANGED update
  <2>1. UNCHANGED <<table, jiraSide>> /\ abandoned' \in 0 .. MaxAbandoned
    BY <1>1, <1>4 DEF table, Inv, Types
  <2> QED BY <1>4, <2>1, Dismissed
<1> QED BY <1>3, <1>4 DEF SettleUpdate

LEMMA FinishUpdateStep ==
  ASSUME Inv, NEW c \in Clerks, FinishUpdate(c)
  PROVE  Inv'
<1>1. UpdateTarget(clerk[c].res) \in PublishedStates
  BY Names DEF UpdateTarget
<1> QED BY <1>1, MoveStep DEF FinishUpdate

LEMMA ReconcileStep ==
  ASSUME Inv, NEW c \in Clerks, ReconcileUpdateLatest(c) \/ CompareRemote(c)
  PROVE  Inv'
<1>0. clerk[c] \in ClerkTask BY TaskTypes DEF Inv
<1>1. UNCHANGED <<table, jiraSide, abandoned>> /\ clerk[c].op # "upload"
  BY DEF ReconcileUpdateLatest, CompareRemote, Doing
<1>2. clerk' \in [Clerks -> ClerkTask] => Types'
  BY <1>1 DEF Inv, Types, ClerkTask, table, jiraSide
<1>3. UNCHANGED <<fileStatus, acknowledged>> BY <1>1 DEF table, jiraSide
<1>4. CASE clerk' = [clerk EXCEPT ![c].pc = "query", ![c].num = updates]
  <2>1. updates \in 0 .. MaxUpdates + 1
    BY PublishedAssumption DEF Inv, Types
  <2>2. clerk' = [clerk EXCEPT ![c] = [clerk[c] EXCEPT !.pc = "query",
                    !.num = updates, !.res = clerk[c].res]]
    BY <1>0, <1>4 DEF ClerkTask
  <2> QED BY <1>1, <1>2, <1>3, <2>1, <2>2, SameFields, Learns DEF Places, Results, Learnt
<1>5. CASE clerk' = [clerk EXCEPT ![c].pc = "settle", ![c].res = "success"]
  <2>1. clerk' = [clerk EXCEPT ![c] = [clerk[c] EXCEPT !.pc = "settle",
                    !.num = clerk[c].num, !.res = "success"]]
    BY <1>0, <1>5 DEF ClerkTask
  <2> QED BY <1>1, <1>2, <1>3, <2>1, SameFields, Learns DEF Places, Results, Learnt
<1>6. CASE Dismiss(c)
  <2>1. UNCHANGED <<table, jiraSide>> /\ abandoned' \in 0 .. MaxAbandoned
    BY <1>1 DEF Inv, Types
  <2> QED BY <1>6, <2>1, Dismissed
<1> QED BY <1>4, <1>5, <1>6 DEF ReconcileUpdateLatest, CompareRemote

LEMMA AbandonStep ==
  ASSUME Inv, NEW c \in Clerks, AbandonCall(c)
  PROVE  Inv'
<1>1. Dismiss(c) /\ UNCHANGED <<table, jiraSide>> BY DEF AbandonCall
<1>2. abandoned' \in 0 .. MaxAbandoned
  BY PublishedAssumption DEF AbandonCall, Inv, Types
<1> QED BY <1>1, <1>2, Dismissed

LEMMA JiraStep ==
  ASSUME Inv, NEW n \in UpdateNumbers, JiraUpdates(n)
  PROVE  Inv'
<1>1. UNCHANGED <<table, clerk, sent, copies, acknowledged, abandoned>>
  BY DEF JiraUpdates
<1>5. Types'
  BY <1>1 DEF Inv, Types, table, JiraUpdates
<1> QED BY <1>1, <1>5 DEF Inv, Listed, HoldersLocked, HoldersApart, Kept, Known, table

-----------------------------------------------------------------------------
(* Every step of a call, and what it sends.                                *)

LEMMA UploadStep ==
  ASSUME Inv, NEW c \in Clerks, Upload(c)
  PROVE  Inv' /\ \A f \in acknowledged : sent'[f] = sent[f]
<1>1. CASE LoadFile(c) BY <1>1, LoadFileStep
<1>2. CASE ~LoadFile(c)
  <2>1. Inv'
    BY <1>2, UploadReadStep, ListFilesStep, ClaimFileStep, UploadAnswerStep,
       RecordFileStep, CountStep DEF Upload
  <2>2. sent' = sent
    BY <1>2 DEF Upload, UploadRead, Call, UploadCas, ListFiles, ClaimFile,
       UploadAnswer, RecordFile, CountFailed, UploadFinal, jiraSide
  <2> QED BY <2>1, <2>2
<1> QED BY <1>1, <1>2

LEMMA ReviseStep ==
  ASSUME Inv, NEW c \in Clerks, Revise(c)
  PROVE  Inv' /\ sent' = sent
<1>1. Inv'
  BY PrepareStep, ConfirmReadStep, NumberUpdateStep, ClaimUpdateStep,
     SendUpdateStep, UpdateAnswerStep, SettleUpdateStep, FinishUpdateStep,
     ReconcileStep DEF Revise
<1>2. sent' = sent
  BY DEF Revise, PrepareRead, PrepareSave, ConfirmRead, Call, ConfirmCas,
     NumberUpdate, ClaimUpdate, SendUpdate, UpdateAnswer, SettleUpdate,
     FinishUpdate, ReconcileUpdateRead, ReconcileUpdateLatest, CompareRemote,
     jiraSide
<1> QED BY <1>1, <1>2

LEMMA NextStep ==
  ASSUME Inv, [PublishedNext]_publishedVars
  PROVE  Inv' /\ \A f \in acknowledged : sent'[f] = sent[f]
<1>1. CASE \E c \in Clerks : Upload(c) BY <1>1, UploadStep
<1>2. CASE \E c \in Clerks : Revise(c) BY <1>2, ReviseStep
<1>3. CASE \E c \in Clerks : AbandonCall(c)
  BY <1>3, AbandonStep DEF AbandonCall, jiraSide
<1>4. CASE \E n \in UpdateNumbers : JiraUpdates(n)
  BY <1>4, JiraStep DEF JiraUpdates
<1>5. CASE UNCHANGED publishedVars
  BY <1>5 DEF publishedVars, table, jiraSide, Inv, Types, Listed, HoldersLocked,
     HoldersApart, Kept, Known
<1> QED BY <1>1, <1>2, <1>3, <1>4, <1>5 DEF PublishedNext

\* Inv is inductive (services/attachment_service.py: upload_pending).
THEOREM PublishedInvariance == PublishedSpec => []Inv
<1>1. Inv /\ [PublishedNext]_publishedVars => Inv' BY NextStep
<1> QED BY InitInv, <1>1, PTL DEF PublishedSpec

\* Whichever calls race, repeat or die, a file whose upload Jira acknowledged
\* is never sent again.
THEOREM AcknowledgedIsNotResentHolds == PublishedSpec => AcknowledgedIsNotResent
<1>1. Inv /\ [PublishedNext]_publishedVars =>
        [\A f \in acknowledged : sent'[f] = sent[f]]_publishedVars
  BY NextStep
<1> QED BY PublishedInvariance, <1>1, PTL DEF PublishedSpec, AcknowledgedIsNotResent

-----------------------------------------------------------------------------
(* Updates.  The state UPDATING is the lock of an update, as SUBMITTING is *)
(* of a submission: the winner of the compare-and-swap is the only confirm *)
(* task past it with the row's revision (Single), and until it has claimed *)
(* its attempt every earlier one has ended (Knows).                        *)

Ended(n) == update[n].status \in {"success", "failed"}
AllEnded == \A n \in UpdateNumbers : n <= updates => Ended(n)

\* The task works on an attempt it sent or read.
Numbered(t) == \/ t.op = "confirm" /\ t.pc \in {"send", "await", "settle", "final"}
               \/ t.op = "reconcile" /\ t.pc \in {"query", "settle", "final"}

Shape(t) ==
  \/ t.op = "none" /\ t.pc = "idle"
  \/ t.op = "upload" /\ t.pc \in {"cas", "list", "claim", "load", "await",
                                  "record", "count", "final"}
  \/ t.op = "prepare" /\ t.pc = "save"
  \/ t.op = "confirm" /\ t.pc \in {"cas", "latest", "claim", "send", "await",
                                   "settle", "final"}
  \/ t.op = "reconcile" /\ t.pc \in {"latest", "query", "settle", "final"}

\* What a task knows if the row has still the revision it has.
KnowsRow(t) ==
  t.pc # "idle" /\ t.rev = row.revision =>
    /\ t.op = "upload" => row.state \in {"CREATED", "ATTACHING", "ATTACHMENT_PARTIAL"}
    /\ t.op = "prepare" => row.state \in {"COMPLETE", "ATTACHMENT_PARTIAL"}
    /\ t.op = "confirm" =>
         row.state = IF t.pc = "cas" THEN "UPDATE_REVIEW" ELSE "UPDATING"
    /\ t.op = "reconcile" => row.state = "UPDATE_UNKNOWN"
    /\ Numbered(t) => t.num = updates

HasLock(t) == t.op = "confirm" /\ t.pc \in {"latest", "claim"}

Knows(t) ==
  /\ Shape(t)
  /\ t.pc # "idle" => t.rev <= row.revision
  /\ Numbered(t) => t.num \in UpdateNumbers /\ t.num <= updates
  /\ KnowsRow(t)
  /\ HasLock(t) => /\ t.rev = row.revision
                   /\ AllEnded
                   /\ t.pc = "claim" => t.num = updates + 1
  /\ Numbered(t) /\ t.pc = "final" /\ t.res # "unknown" => Ended(t.num)
  /\ Numbered(t) /\ t.pc \in {"settle", "final"} =>
       t.res \in {"success", "failed", "unknown"}

PastCas(t) == t.op = "confirm" /\ t.pc # "cas"

Single == \A c, d \in Clerks :
  c # d /\ PastCas(clerk[c]) /\ PastCas(clerk[d]) => clerk[c].rev # clerk[d].rev

Numbers == \A n \in UpdateNumbers : /\ n <= updates <=> update[n].status # "none"
                                    /\ n < updates => Ended(n)

Unlocked == row.state \notin {"UPDATING", "UPDATE_UNKNOWN"} => AllEnded

UpdateTypes == update \in [UpdateNumbers -> [status : UpdateStatus,
                                             doc : Documents \cup {"none"}]]

Resolved == /\ UpdateTypes /\ Numbers /\ Unlocked
            /\ \A c \in Clerks : Knows(clerk[c])
            /\ Single

LEMMA ResolvedInit == PublishedInit => Resolved
<1> SUFFICES ASSUME PublishedInit PROVE Resolved OBVIOUS
<1>1. \A c \in Clerks : clerk[c] = FreeClerk BY DEF PublishedInit
<1>2. UpdateTypes BY DEF PublishedInit, UpdateTypes, UpdateStatus
<1>3. Numbers /\ Unlocked
  BY DEF PublishedInit, Numbers, Unlocked, AllEnded, UpdateNumbers
<1>4. (\A c \in Clerks : Knows(clerk[c])) /\ Single
  BY <1>1 DEF Knows, KnowsRow, Shape, Numbered, HasLock, Single, PastCas, FreeClerk
<1> QED BY <1>2, <1>3, <1>4 DEF Resolved

LEMMA Plain ==
  ASSUME Inv
  PROVE  /\ row.revision \in Nat /\ updates \in Nat
         /\ \A c \in Clerks : clerk[c].rev \in Nat /\ clerk[c].num \in Nat
         /\ \A n \in UpdateNumbers : n \in Nat \ {0}
  BY PublishedAssumption DEF Inv, Types, ClerkTask, UpdateNumbers

\* Attempts that ended stay so.
EndedStay == \A n \in UpdateNumbers : Ended(n) => Ended(n)'

\* A task that rests keeps what it knows: the row and the attempts stay, or
\* the row is written and the task does not hold its lock, or an attempt is
\* claimed by the only task that has the row's revision.
LEMMA Rests ==
  ASSUME Inv, Inv', NEW d \in Clerks, Knows(clerk[d]), clerk'[d] = clerk[d],
         EndedStay,
         \/ row' = row /\ updates' = updates
         \/ /\ row'.revision = row.revision + 1
            /\ updates' = updates
            /\ ~HasLock(clerk[d])
         \/ /\ row' = row
            /\ updates' = updates + 1
            /\ clerk[d].pc # "idle" => clerk[d].rev # row.revision
  PROVE  Knows(clerk[d])'
<1> DEFINE t == clerk[d]
<1>1. /\ row.revision \in Nat /\ updates \in Nat /\ row'.revision \in Nat
      /\ updates' \in Nat /\ t.rev \in Nat /\ t.num \in Nat
  BY Plain
<1>2. Shape(t)' /\ (Numbered(t)' <=> Numbered(t)) /\ (HasLock(t)' <=> HasLock(t))
  BY DEF Knows, Shape, Numbered, HasLock
<1>3. CASE row' = row /\ updates' = updates
  BY <1>1, <1>2, <1>3 DEF Knows, KnowsRow, EndedStay, AllEnded
<1>4. CASE /\ row'.revision = row.revision + 1 /\ updates' = updates
           /\ ~HasLock(t)
  BY <1>1, <1>2, <1>4 DEF Knows, KnowsRow, EndedStay
<1>5. CASE /\ row' = row /\ updates' = updates + 1
           /\ t.pc # "idle" => t.rev # row.revision
  <2>1. ~HasLock(t) BY <1>5 DEF Knows, HasLock
  <2> QED BY <1>1, <1>2, <1>5, <2>1 DEF Knows, KnowsRow, EndedStay
<1> QED BY <1>3, <1>4, <1>5

\* A step of c that writes neither the row nor the attempts.
LEMMA Private ==
  ASSUME Inv, Inv', Resolved, NEW c \in Clerks,
         UNCHANGED <<row, update, updates>>,
         \A d \in Clerks \ {c} : clerk'[d] = clerk[d],
         Knows(clerk[c])',
         PastCas(clerk[c])' => PastCas(clerk[c]) /\ clerk'[c].rev = clerk[c].rev
  PROVE  Resolved'
<1>1. EndedStay BY DEF EndedStay, Ended
<1>2. \A d \in Clerks : Knows(clerk[d])' BY <1>1, Rests DEF Resolved
<1>3. Single' BY DEF Resolved, Single, PastCas
<1>4. UpdateTypes' /\ Numbers' /\ Unlocked'
  BY DEF Resolved, UpdateTypes, Numbers, Unlocked, AllEnded, Ended
<1> QED BY <1>2, <1>3, <1>4 DEF Resolved

LEMMA FreeKnows ==
  ASSUME NEW c \in Clerks, clerk'[c] = FreeClerk
  PROVE  Knows(clerk[c])' /\ ~PastCas(clerk[c])'
  BY DEF Knows, KnowsRow, Shape, Numbered, HasLock, PastCas, FreeClerk

LEMMA Leaves ==
  ASSUME Inv, Inv', Resolved, NEW c \in Clerks, Dismiss(c),
         UNCHANGED <<row, update, updates>>
  PROVE  Resolved'
<1>1. clerk'[c] = FreeClerk /\ \A d \in Clerks \ {c} : clerk'[d] = clerk[d]
  BY DEF Dismiss, Inv, Types
<1> QED BY <1>1, FreeKnows, Private

\* A step of c that writes the row it has the revision of.
LEMMA Writes ==
  ASSUME Inv, Inv', Resolved, NEW c \in Clerks,
         UNCHANGED <<update, updates>>,
         clerk[c].pc # "idle", clerk[c].rev = row.revision, ~HasLock(clerk[c]),
         row'.revision = row.revision + 1,
         row'.state \in {"UPDATING", "UPDATE_UNKNOWN"} \/ AllEnded,
         \A d \in Clerks \ {c} : clerk'[d] = clerk[d],
         Knows(clerk[c])',
         PastCas(clerk[c])' => clerk'[c].rev = row.revision + 1
  PROVE  Resolved'
<1>0. /\ row.revision \in Nat /\ \A d \in Clerks : clerk[d].rev \in Nat
      /\ Knows(clerk[c])
  BY Plain DEF Resolved
<1>1. EndedStay BY DEF EndedStay, Ended
<1>2. ASSUME NEW d \in Clerks \ {c} PROVE ~HasLock(clerk[d])
  <2> SUFFICES ASSUME HasLock(clerk[d]) PROVE FALSE OBVIOUS
  <2>1. /\ clerk[d].rev = row.revision /\ Knows(clerk[d])
        /\ clerk[d].op = "confirm" /\ clerk[d].pc \in {"latest", "claim"}
    BY DEF Resolved, Knows, HasLock
  <2>2. row.state = "UPDATING" BY <2>1 DEF Knows, KnowsRow
  <2>3. PastCas(clerk[c]) BY <1>0, <2>2 DEF Knows, KnowsRow, Shape, PastCas
  <2> QED BY <2>1, <2>3 DEF Resolved, Single, PastCas
<1>3. \A d \in Clerks : Knows(clerk[d])' BY <1>1, <1>2, Rests DEF Resolved
<1>4. Single'
  <2>1. \A d \in Clerks \ {c} : PastCas(clerk[d])' => clerk'[d].rev <= row.revision
    BY DEF Resolved, Knows, PastCas, Shape
  <2>2. \A d \in Clerks \ {c} : PastCas(clerk[d])' <=> PastCas(clerk[d])
    BY DEF PastCas
  <2> QED BY <1>0, <2>1, <2>2 DEF Resolved, Single
<1>5. UpdateTypes' /\ Numbers' /\ Unlocked'
  BY DEF Resolved, UpdateTypes, Numbers, Unlocked, AllEnded, Ended
<1> QED BY <1>3, <1>4, <1>5 DEF Resolved

-----------------------------------------------------------------------------
(* Updates: the steps.                                                     *)

\* A call begins in a state it accepts, and past no compare-and-swap.
LEMMA BeginKnows ==
  ASSUME Inv, Inv', Resolved, NEW c \in Clerks,
         \/ UploadRead(c) \/ PrepareRead(c) \/ ConfirmRead(c)
         \/ ReconcileUpdateRead(c)
  PROVE  Resolved'
<1>1. PICK op, pc : /\ Call(c, op, pc)
                    /\ \/ /\ op = "upload" /\ pc = "cas"
                          /\ row.state \in {"CREATED", "ATTACHMENT_PARTIAL"}
                       \/ /\ op = "prepare" /\ pc = "save"
                          /\ row.state \in {"COMPLETE", "ATTACHMENT_PARTIAL"}
                       \/ /\ op = "confirm" /\ pc = "cas"
                          /\ row.state = "UPDATE_REVIEW"
                       \/ /\ op = "reconcile" /\ pc = "latest"
                          /\ row.state = "UPDATE_UNKNOWN"
  BY DEF UploadRead, PrepareRead, ConfirmRead, ReconcileUpdateRead
<1>2. /\ clerk'[c].op = op /\ clerk'[c].pc = pc /\ clerk'[c].rev = row.revision
      /\ \A d \in Clerks \ {c} : clerk'[d] = clerk[d]
  BY <1>1 DEF Call, FreeClerk, Inv, Types
<1>3. UNCHANGED <<row, update, updates>> BY <1>1 DEF Call, table
<1>4. row.revision \in Nat BY Plain
<1>5. ~Numbered(clerk[c])' /\ ~HasLock(clerk[c])' /\ ~PastCas(clerk[c])'
  BY <1>1, <1>2 DEF Numbered, HasLock, PastCas
<1>6. Shape(clerk[c])' BY <1>1, <1>2 DEF Shape
<1>7. Knows(clerk[c])'
  BY <1>1, <1>2, <1>3, <1>4, <1>5, <1>6 DEF Knows, KnowsRow
<1> QED BY <1>2, <1>3, <1>5, <1>7, Private

\* A step of a task with no update in its hands.
LEMMA UploadGoesOn ==
  ASSUME Inv, Inv', Resolved, NEW c \in Clerks,
         UNCHANGED <<row, update, updates>>,
         \A d \in Clerks \ {c} : clerk'[d] = clerk[d],
         clerk[c].op = "upload", clerk[c].pc # "idle",
         clerk'[c].op = "upload", clerk'[c].rev = clerk[c].rev,
         clerk'[c].pc \in {"claim", "load", "await", "record", "count", "final"}
  PROVE  Resolved'
<1>1. Knows(clerk[c])'
  BY DEF Resolved, Knows, KnowsRow, Shape, Numbered, HasLock
<1>2. ~PastCas(clerk[c])' BY DEF PastCas
<1> QED BY <1>1, <1>2, Private

\* A task that uploads keeps what it read of the row.
LEMMA UploadTask ==
  ASSUME Inv, NEW c \in Clerks, ~Dismiss(c),
         \/ ListFiles(c) \/ ClaimFile(c) \/ LoadFile(c) \/ UploadAnswer(c)
         \/ RecordFile(c) \/ CountFailed(c)
  PROVE  /\ clerk'[c].op = "upload" /\ clerk'[c].rev = clerk[c].rev
         /\ clerk'[c].doc = clerk[c].doc
         /\ clerk'[c].pc \in {"claim", "load", "await", "record", "count", "final"}
         /\ clerk[c].op = "upload" /\ clerk[c].pc # "idle"
         /\ \A d \in Clerks \ {c} : clerk'[d] = clerk[d]
<1>1. /\ clerk \in [Clerks -> ClerkTask] /\ clerk[c].op = "upload"
      /\ clerk[c].pc # "idle"
  BY DEF Inv, Types, ListFiles, ClaimFile, LoadFile, UploadAnswer, RecordFile,
     CountFailed, Doing
<1>2. \A d \in Clerks \ {c} : clerk'[d] = clerk[d]
  BY <1>1 DEF ListFiles, ClaimFile, LoadFile, UploadAnswer, RecordFile,
     CountFailed, GoTo, Conclude
<1>3. /\ clerk'[c].op = "upload" /\ clerk'[c].rev = clerk[c].rev
      /\ clerk'[c].doc = clerk[c].doc
      /\ clerk'[c].pc \in {"claim", "load", "await", "record", "count", "final"}
  <2>1. CASE ListFiles(c)
    <3>1. PICK todo : clerk' = [clerk EXCEPT ![c].pc = "claim", ![c].todo = todo]
      BY <2>1 DEF ListFiles
    <3> QED BY <1>1, <3>1 DEF ClerkTask
  <2>2. CASE ClaimFile(c)
    <3>1. CASE GoTo(c, "count") BY <1>1, <3>1 DEF GoTo, ClerkTask
    <3>2. CASE ~GoTo(c, "count")
      <4>1. PICK f \in Files, s \in FileStatus :
              \/ clerk' = [clerk EXCEPT ![c].todo = clerk[c].todo \ {<<f, s>>}]
              \/ clerk' = [clerk EXCEPT ![c].todo = clerk[c].todo \ {<<f, s>>},
                                        ![c].pc = "load", ![c].file = f]
        BY <2>2, <3>2 DEF ClaimFile
      <4> DEFINE rest == clerk[c].todo \ {<<f, s>>}
      <4>2. clerk[c].pc = "claim" BY <2>2 DEF ClaimFile, Doing
      <4>3. \/ clerk' = [clerk EXCEPT ![c].todo = rest]
            \/ clerk' = [clerk EXCEPT ![c].todo = rest, ![c].pc = "load",
                                      ![c].file = f]
        BY <4>1
      <4> HIDE DEF rest
      <4>4. CASE clerk' = [clerk EXCEPT ![c].todo = rest]
        BY <1>1, <4>2, <4>4 DEF ClerkTask
      <4>5. CASE clerk' = [clerk EXCEPT ![c].todo = rest, ![c].pc = "load",
                                        ![c].file = f]
        BY <1>1, <4>5 DEF ClerkTask
      <4> QED BY <4>3, <4>4, <4>5
    <3> QED BY <3>1, <3>2
  <2>3. CASE LoadFile(c) BY <1>1, <2>3 DEF LoadFile, Conclude, GoTo, ClerkTask
  <2>4. CASE UploadAnswer(c) BY <1>1, <2>4 DEF UploadAnswer, Conclude, ClerkTask
  <2>5. CASE RecordFile(c) BY <1>1, <2>5 DEF RecordFile, ClerkTask
  <2>6. CASE CountFailed(c) BY <1>1, <2>6 DEF CountFailed, ClerkTask
  <2> QED BY <2>1, <2>2, <2>3, <2>4, <2>5, <2>6
<1> QED BY <1>1, <1>2, <1>3

LEMMA UploadKnows ==
  ASSUME Inv, Inv', Resolved, NEW c \in Clerks,
         \/ ListFiles(c) \/ ClaimFile(c) \/ LoadFile(c) \/ UploadAnswer(c)
         \/ RecordFile(c) \/ CountFailed(c)
  PROVE  Resolved'
<1>1. UNCHANGED <<row, update, updates>>
  BY DEF ListFiles, ClaimFile, LoadFile, UploadAnswer, RecordFile, CountFailed,
     table
<1>2. CASE Dismiss(c) BY <1>1, <1>2, Leaves
<1>3. CASE ~Dismiss(c) BY <1>1, <1>3, UploadTask, UploadGoesOn
<1> QED BY <1>2, <1>3

\* What a move leaves in the row.
LEMMA MovesRow ==
  ASSUME Inv, NEW s \in PublishedStates, NEW r \in Nat,
         row' = [row EXCEPT !.state = s, !.revision = r]
  PROVE  row'.state = s /\ row'.revision = r /\ row'.template = row.template
  BY DEF Inv, Types

\* A task that ends with its write.
LEMMA WritesAndLeaves ==
  ASSUME Inv, Inv', Resolved, NEW c \in Clerks,
         UNCHANGED <<update, updates>>, Dismiss(c),
         clerk[c].pc # "idle", clerk[c].rev = row.revision, ~HasLock(clerk[c]),
         row'.revision = row.revision + 1,
         row'.state \in {"UPDATING", "UPDATE_UNKNOWN"} \/ AllEnded
  PROVE  Resolved'
<1>1. clerk'[c] = FreeClerk /\ \A d \in Clerks \ {c} : clerk'[d] = clerk[d]
  BY DEF Dismiss, Inv, Types
<1> QED BY <1>1, FreeKnows, Writes

\* The files: no update is under way.
LEMMA UploadMoves ==
  ASSUME Inv, Inv', Resolved, NEW c \in Clerks, UploadCas(c) \/ UploadFinal(c)
  PROVE  Resolved'
<1>1. /\ clerk[c].op = "upload" /\ clerk[c].pc # "idle"
      /\ UNCHANGED <<update, updates>>
  BY DEF UploadCas, UploadFinal, Doing
<1>2. PICK s \in {"COMPLETE", "ATTACHING", "ATTACHMENT_PARTIAL"},
           pc \in {"idle", "list"} :
        /\ Move(c, s, pc)
        /\ pc = "list" => s = "ATTACHING"
  BY DEF UploadCas, UploadFinal
<1>3. CASE Dismiss(c) /\ UNCHANGED row BY <1>1, <1>3, Leaves
<1>4. CASE ~(Dismiss(c) /\ UNCHANGED row)
  <2>1. /\ clerk[c].rev = row.revision
        /\ row' = [row EXCEPT !.state = s, !.revision = row.revision + 1]
        /\ pc = "idle" => Dismiss(c)
        /\ pc # "idle" => clerk' = [clerk EXCEPT ![c].pc = pc,
                                                 ![c].rev = row.revision + 1]
    BY <1>2, <1>4 DEF Move, MoveAccepted, Dismiss
  <2>2. row.revision \in Nat /\ ~HasLock(clerk[c]) BY <1>1, Plain DEF HasLock
  <2>3. row'.state = s /\ row'.revision = row.revision + 1
    <3>1. s \in PublishedStates /\ row.revision + 1 \in Nat BY <2>2, Names
    <3> QED BY <2>1, <3>1, MovesRow
  <2>4. AllEnded
    <3>1. row.state \in {"CREATED", "ATTACHING", "ATTACHMENT_PARTIAL"}
      BY <1>1, <2>1 DEF Resolved, Knows, KnowsRow
    <3> QED BY <3>1 DEF Resolved, Unlocked
  <2>5. CASE pc = "idle" BY <1>1, <2>1, <2>2, <2>3, <2>4, <2>5, WritesAndLeaves
  <2>6. CASE pc = "list"
    <3>1. s = "ATTACHING" BY <1>2, <2>6
    <3>2. /\ clerk'[c].op = "upload" /\ clerk'[c].pc = "list"
          /\ clerk'[c].rev = row.revision + 1
          /\ \A d \in Clerks \ {c} : clerk'[d] = clerk[d]
      BY <1>1, <2>1, <2>6 DEF Inv, Types, ClerkTask
    <3>3. Knows(clerk[c])' /\ ~PastCas(clerk[c])'
      BY <2>2, <2>3, <3>1, <3>2
      DEF Knows, KnowsRow, Shape, Numbered, HasLock, PastCas
    <3> QED BY <1>1, <2>1, <2>2, <2>3, <2>4, <3>2, <3>3, Writes
  <2> QED BY <2>5, <2>6
<1> QED BY <1>3, <1>4

LEMMA PrepareResolves ==
  ASSUME Inv, Inv', Resolved, NEW c \in Clerks, PrepareSave(c)
  PROVE  Resolved'
<1>1. /\ clerk[c].op = "prepare" /\ clerk[c].pc = "save" /\ Dismiss(c)
      /\ UNCHANGED <<update, updates>>
  BY DEF PrepareSave, Doing
<1>2. CASE UNCHANGED row BY <1>1, <1>2, Leaves
<1>3. CASE row' # row
  <2>1. clerk[c].rev = row.revision /\ row'.revision = row.revision + 1
    BY <1>3 DEF PrepareSave, MoveAccepted
  <2>2. row.state \in {"COMPLETE", "ATTACHMENT_PARTIAL"}
    BY <1>1, <2>1 DEF Resolved, Knows, KnowsRow
  <2>3. AllEnded /\ ~HasLock(clerk[c]) BY <1>1, <2>2 DEF Resolved, Unlocked, HasLock
  <2> QED BY <1>1, <2>1, <2>3, WritesAndLeaves
<1> QED BY <1>2, <1>3

\* The winner of the compare-and-swap takes the lock.
LEMMA ConfirmTakesLock ==
  ASSUME Inv, Inv', Resolved, NEW c \in Clerks, ConfirmCas(c)
  PROVE  Resolved'
<1>1. /\ clerk[c].op = "confirm" /\ clerk[c].pc = "cas"
      /\ UNCHANGED <<update, updates>> /\ Move(c, "UPDATING", "latest")
  BY DEF ConfirmCas, Doing
<1>2. CASE Dismiss(c) /\ UNCHANGED row BY <1>1, <1>2, Leaves
<1>3. CASE ~(Dismiss(c) /\ UNCHANGED row)
  <2>1. /\ clerk[c].rev = row.revision
        /\ row' = [row EXCEPT !.state = "UPDATING", !.revision = row.revision + 1]
        /\ clerk' = [clerk EXCEPT ![c].pc = "latest",
                                  ![c].rev = row.revision + 1]
    BY <1>1, <1>3 DEF Move, MoveAccepted
  <2>2. /\ row.revision \in Nat /\ ~HasLock(clerk[c])
        /\ row.state = "UPDATE_REVIEW"
    BY <1>1, <2>1, Plain DEF HasLock, Resolved, Knows, KnowsRow
  <2>3. row'.state = "UPDATING" /\ row'.revision = row.revision + 1
    <3>1. "UPDATING" \in PublishedStates /\ row.revision + 1 \in Nat
      BY <2>2, Names
    <3> QED BY <2>1, <3>1, MovesRow
  <2>4. AllEnded' /\ updates' = updates
    BY <1>1, <2>2 DEF Resolved, Unlocked, AllEnded, Ended
  <2>5. /\ clerk'[c].op = "confirm" /\ clerk'[c].pc = "latest"
        /\ clerk'[c].rev = row.revision + 1
        /\ \A d \in Clerks \ {c} : clerk'[d] = clerk[d]
    BY <1>1, <2>1 DEF Inv, Types, ClerkTask
  <2>6. Knows(clerk[c])'
    BY <2>2, <2>3, <2>4, <2>5 DEF Knows, KnowsRow, Shape, Numbered, HasLock
  <2> QED BY <1>1, <2>1, <2>2, <2>3, <2>5, <2>6, Writes
<1> QED BY <1>2, <1>3

\* The last write: the attempt has ended, or the state says that nobody knows.
LEMMA FinishResolves ==
  ASSUME Inv, Inv', Resolved, NEW c \in Clerks, FinishUpdate(c)
  PROVE  Resolved'
<1> DEFINE s == UpdateTarget(clerk[c].res)
<1>1. /\ clerk[c].op \in {"confirm", "reconcile"} /\ clerk[c].pc = "final"
      /\ UNCHANGED <<update, updates>> /\ Move(c, s, "idle")
  BY DEF FinishUpdate
<1>2. s \in {"COMPLETE", "UPDATE_RETRYABLE", "UPDATE_UNKNOWN"}
      /\ (s # "UPDATE_UNKNOWN" => clerk[c].res # "unknown")
  BY DEF UpdateTarget
<1> HIDE DEF s
<1>3. CASE UNCHANGED row
  <2>1. Dismiss(c) BY <1>1 DEF Move, Dismiss
  <2> QED BY <1>1, <1>3, <2>1, Leaves
<1>4. CASE row' # row
  <2>1. /\ clerk[c].rev = row.revision /\ Dismiss(c)
        /\ row' = [row EXCEPT !.state = s, !.revision = row.revision + 1]
    BY <1>1, <1>4 DEF Move, MoveAccepted, Dismiss
  <2>2. row.revision \in Nat /\ ~HasLock(clerk[c]) /\ Numbered(clerk[c])
    BY <1>1, Plain DEF HasLock, Numbered
  <2>3. row'.state = s /\ row'.revision = row.revision + 1
    <3>1. s \in PublishedStates /\ row.revision + 1 \in Nat
      BY <1>2, <2>2, Names
    <3> QED BY <2>1, <3>1, MovesRow
  <2>4. s = "UPDATE_UNKNOWN" \/ AllEnded
    <3>1. clerk[c].num = updates /\ updates \in Nat
      BY <1>1, <2>1, <2>2, Plain DEF Resolved, Knows, KnowsRow
    <3>2. s # "UPDATE_UNKNOWN" => Ended(updates)
      BY <1>1, <1>2, <2>2, <3>1 DEF Resolved, Knows
    <3>3. \A n \in UpdateNumbers : n < updates => Ended(n)
      BY DEF Resolved, Numbers
    <3>4. \A n \in UpdateNumbers : n <= updates => n < updates \/ n = updates
      BY <3>1, Plain
    <3> QED BY <3>2, <3>3, <3>4 DEF AllEnded
  <2> QED BY <1>1, <2>1, <2>2, <2>3, <2>4, WritesAndLeaves
<1> QED BY <1>3, <1>4

\* The next attempt is numbered while every earlier one has ended.
LEMMA NumberResolves ==
  ASSUME Inv, Inv', Resolved, NEW c \in Clerks, NumberUpdate(c)
  PROVE  Resolved'
<1>1. /\ clerk[c].op = "confirm" /\ clerk[c].pc = "latest"
      /\ UNCHANGED <<row, update, updates>>
      /\ clerk' = [clerk EXCEPT ![c].pc = "claim", ![c].num = updates + 1]
  BY DEF NumberUpdate, Doing, table
<1>2. /\ clerk'[c].op = "confirm" /\ clerk'[c].pc = "claim"
      /\ clerk'[c].num = updates + 1 /\ clerk'[c].rev = clerk[c].rev
      /\ \A d \in Clerks \ {c} : clerk'[d] = clerk[d]
  BY <1>1 DEF Inv, Types, ClerkTask
<1>3. HasLock(clerk[c]) /\ PastCas(clerk[c]) BY <1>1 DEF HasLock, PastCas
<1>4. Knows(clerk[c])'
  <2>1. Knows(clerk[c]) BY DEF Resolved
  <2>2. AllEnded' BY <1>1, <1>3, <2>1 DEF Knows, AllEnded, Ended
  <2>3. ~Numbered(clerk[c])' /\ Shape(clerk[c])' BY <1>2 DEF Numbered, Shape
  <2> QED BY <1>1, <1>2, <1>3, <2>1, <2>2, <2>3 DEF Knows, KnowsRow
<1> QED BY <1>1, <1>2, <1>3, <1>4, Private

\* The attempt is claimed: its task is the only one that has the row's revision.
LEMMA ClaimResolves ==
  ASSUME Inv, Inv', Resolved, NEW c \in Clerks, ClaimUpdate(c)
  PROVE  Resolved'
<1> DEFINE n == clerk[c].num
<1>1. /\ clerk[c].op = "confirm" /\ clerk[c].pc = "claim" /\ UNCHANGED row
      /\ Knows(clerk[c]) /\ HasLock(clerk[c])
  BY DEF ClaimUpdate, Doing, Resolved, HasLock
<1>2. CASE Dismiss(c) /\ UNCHANGED <<update, updates>> BY <1>1, <1>2, Leaves
<1>3. CASE ~(Dismiss(c) /\ UNCHANGED <<update, updates>>)
  <2>1. /\ n \in UpdateNumbers /\ updates' = n /\ GoTo(c, "send")
        /\ update' = [update EXCEPT ![n] = [status |-> "pending",
                                            doc |-> clerk[c].doc]]
    BY <1>3 DEF ClaimUpdate, UpdateClaimable
  <2>2. /\ n = updates + 1 /\ AllEnded /\ clerk[c].rev = row.revision
        /\ row.state = "UPDATING" /\ updates \in Nat /\ row.revision \in Nat
    BY <1>1, Plain DEF Knows, KnowsRow
  <2>3. \A m \in UpdateNumbers \ {n} : update'[m] = update[m]
    BY <2>1 DEF Resolved, UpdateTypes
  <2>4. update'[n].status = "pending" /\ update[n].status = "none"
    BY <1>3, <2>1 DEF ClaimUpdate, UpdateClaimable, Resolved, UpdateTypes
  <2>5. EndedStay BY <2>3, <2>4 DEF EndedStay, Ended
  <2>6. /\ clerk'[c].op = "confirm" /\ clerk'[c].pc = "send"
        /\ clerk'[c].rev = clerk[c].rev /\ clerk'[c].num = n
        /\ \A d \in Clerks \ {c} : clerk'[d] = clerk[d]
    BY <1>1, <2>1 DEF GoTo, Inv, Types, ClerkTask
  <2>7. ASSUME NEW d \in Clerks \ {c} PROVE Knows(clerk[d])'
    <3>1. Knows(clerk[d]) BY DEF Resolved
    <3>2. clerk[d].pc # "idle" => clerk[d].rev # row.revision
      BY <1>1, <2>2, <3>1 DEF Knows, KnowsRow, Shape, Resolved, Single, PastCas
    <3> QED BY <1>1, <2>1, <2>2, <2>5, <2>6, <3>1, <3>2, Rests
  <2>8. Knows(clerk[c])'
    BY <1>1, <2>1, <2>2, <2>6 DEF Knows, KnowsRow, Shape, Numbered, HasLock
  <2>9. Single' BY <1>1, <2>6 DEF Resolved, Single, PastCas
  <2>10. UpdateTypes'
    <3>1. clerk[c].doc \in Documents \cup {"none"}
      BY DEF Inv, Types, ClerkTask
    <3> QED BY <2>1, <3>1 DEF Resolved, UpdateTypes, UpdateStatus
  <2>11. Numbers'
    <3>1. ASSUME NEW m \in UpdateNumbers
          PROVE  /\ m <= n <=> update'[m].status # "none"
                 /\ m < n => Ended(m)'
      <4>1. m \in Nat BY Plain
      <4>2. CASE m = n BY <2>2, <2>4, <4>1, <4>2
      <4>3. CASE m # n
        BY <2>2, <2>3, <4>1, <4>3 DEF Resolved, Numbers, AllEnded, Ended
      <4> QED BY <4>2, <4>3
    <3> QED BY <2>1, <3>1 DEF Numbers
  <2>12. Unlocked' BY <1>1, <2>2 DEF Unlocked
  <2> QED BY <2>6, <2>7, <2>8, <2>9, <2>10, <2>11, <2>12 DEF Resolved
<1> QED BY <1>2, <1>3

\* Sent, answered, looked up or compared: the attempt stays in the task's hands.
LEMMA AttemptKept ==
  ASSUME Inv, Inv', Resolved, NEW c \in Clerks,
         UNCHANGED <<row, update, updates>>,
         clerk[c].op \in {"confirm", "reconcile"}, Numbered(clerk[c]),
         clerk'[c].op = clerk[c].op, clerk'[c].rev = clerk[c].rev,
         clerk'[c].num = clerk[c].num,
         \/ clerk[c].op = "confirm" /\ clerk'[c].pc = "await"
         \/ /\ clerk'[c].pc = "settle"
            /\ clerk'[c].res \in {"success", "failed", "unknown"},
         \A d \in Clerks \ {c} : clerk'[d] = clerk[d]
  PROVE  Resolved'
<1>1. Knows(clerk[c])'
  BY DEF Resolved, Knows, KnowsRow, Shape, Numbered, HasLock
<1>2. PastCas(clerk[c])' => PastCas(clerk[c]) BY DEF Numbered, PastCas
<1> QED BY <1>1, <1>2, Private

LEMMA AnswerResolves ==
  ASSUME Inv, Inv', Resolved, NEW c \in Clerks,
         SendUpdate(c) \/ UpdateAnswer(c) \/ CompareRemote(c)
  PROVE  Resolved'
<1>0. UNCHANGED <<row, update, updates>>
  BY DEF SendUpdate, UpdateAnswer, CompareRemote, table
<1>1. CASE Dismiss(c) BY <1>0, <1>1, Leaves
<1>2. CASE ~Dismiss(c)
  <2>1. clerk \in [Clerks -> ClerkTask] BY DEF Inv, Types
  <2>2. CASE SendUpdate(c)
    BY <1>0, <2>1, <2>2, AttemptKept
    DEF SendUpdate, GoTo, Doing, Numbered, ClerkTask
  <2>3. CASE UpdateAnswer(c)
    BY <1>0, <2>1, <2>3, AttemptKept DEF UpdateAnswer, Doing, Numbered, ClerkTask
  <2>4. CASE CompareRemote(c)
    BY <1>0, <1>2, <2>1, <2>4, AttemptKept
    DEF CompareRemote, Doing, Numbered, ClerkTask
  <2> QED BY <2>2, <2>3, <2>4
<1> QED BY <1>1, <1>2

\* A settled attempt: what had ended stays as it was.
LEMMA SettleResolves ==
  ASSUME Inv, Inv', Resolved, NEW c \in Clerks, SettleUpdate(c)
  PROVE  Resolved'
<1> DEFINE n == clerk[c].num  res == clerk[c].res  old == update[n].status
<1>1. /\ clerk[c].pc = "settle" /\ UNCHANGED <<row, updates>> /\ Knows(clerk[c])
  BY DEF SettleUpdate, Resolved
<1>2. /\ Numbered(clerk[c]) /\ n \in UpdateNumbers /\ n <= updates
      /\ res \in {"success", "failed", "unknown"} /\ n \in Nat
  BY <1>1, Plain DEF Knows, Shape, Numbered
<1>3. CASE Dismiss(c) /\ UNCHANGED update BY <1>1, <1>3, Leaves
<1>4. CASE ~(Dismiss(c) /\ UNCHANGED update)
  <2>1. /\ old \in {"pending", "unknown"} \/ old = res
        /\ update' = [update EXCEPT ![n].status = res] /\ GoTo(c, "final")
    BY <1>4 DEF SettleUpdate
  <2>2. /\ \A m \in UpdateNumbers \ {n} : update'[m] = update[m]
        /\ update'[n].status = res /\ UpdateTypes'
    BY <1>2, <2>1 DEF Resolved, UpdateTypes, UpdateStatus
  <2>3. EndedStay BY <2>1, <2>2 DEF EndedStay, Ended
  <2>4. /\ clerk'[c].op = clerk[c].op /\ clerk'[c].pc = "final"
        /\ clerk'[c].rev = clerk[c].rev /\ clerk'[c].num = n /\ clerk'[c].res = res
        /\ \A d \in Clerks \ {c} : clerk'[d] = clerk[d]
    BY <2>1 DEF GoTo, Inv, Types, ClerkTask
  <2>5. \A d \in Clerks \ {c} : Knows(clerk[d])'
    BY <1>1, <2>3, <2>4, Rests DEF Resolved
  <2>6. Knows(clerk[c])'
    <3>1. res # "unknown" => Ended(n)' BY <1>2, <2>2, <2>4 DEF Ended
    <3> QED BY <1>1, <1>2, <2>4, <3>1 DEF Knows, KnowsRow, Shape, Numbered, HasLock
  <2>7. Single' BY <1>1, <2>4 DEF Resolved, Single, PastCas
  <2>8. Numbers'
    <3>1. \A m \in UpdateNumbers : m < updates => Ended(m)'
      BY <2>3 DEF Resolved, Numbers, EndedStay
    <3>2. \A m \in UpdateNumbers : m <= updates <=> update'[m].status # "none"
      BY <1>2, <2>2 DEF Resolved, Numbers
    <3> QED BY <1>1, <3>1, <3>2 DEF Numbers
  <2>9. Unlocked' BY <1>1, <2>3 DEF Resolved, Unlocked, AllEnded, EndedStay
  <2> QED BY <2>2, <2>5, <2>6, <2>7, <2>8, <2>9 DEF Resolved
<1> QED BY <1>3, <1>4

LEMMA LookUpResolves ==
  ASSUME Inv, Inv', Resolved, NEW c \in Clerks, ReconcileUpdateLatest(c)
  PROVE  Resolved'
<1>1. /\ clerk[c].op = "reconcile" /\ clerk[c].pc = "latest"
      /\ UNCHANGED <<row, update, updates>> /\ Knows(clerk[c])
  BY DEF ReconcileUpdateLatest, Doing, table, Resolved
<1>2. CASE Dismiss(c) BY <1>1, <1>2, Leaves
<1>3. CASE ~Dismiss(c)
  <2>1. updates > 0 /\ clerk' = [clerk EXCEPT ![c].pc = "query", ![c].num = updates]
    BY <1>3 DEF ReconcileUpdateLatest
  <2>2. updates \in UpdateNumbers
    BY <2>1, PublishedAssumption DEF Inv, Types, UpdateNumbers
  <2>3. /\ clerk'[c].op = "reconcile" /\ clerk'[c].pc = "query"
        /\ clerk'[c].rev = clerk[c].rev /\ clerk'[c].num = updates
        /\ \A d \in Clerks \ {c} : clerk'[d] = clerk[d]
    BY <1>1, <2>1 DEF Inv, Types, ClerkTask
  <2>4. Knows(clerk[c])' /\ ~PastCas(clerk[c])'
    BY <1>1, <2>2, <2>3, Plain
    DEF Knows, KnowsRow, Shape, Numbered, HasLock, PastCas
  <2> QED BY <1>1, <2>3, <2>4, Private
<1> QED BY <1>2, <1>3

LEMMA ResolvedStep ==
  ASSUME Inv, Inv', Resolved, [PublishedNext]_publishedVars
  PROVE  Resolved'
<1>1. ASSUME NEW c \in Clerks, Upload(c) PROVE Resolved'
  BY <1>1, BeginKnows, UploadMoves, UploadKnows DEF Upload
<1>2. ASSUME NEW c \in Clerks, Revise(c) PROVE Resolved'
  BY <1>2, BeginKnows, PrepareResolves, ConfirmTakesLock, NumberResolves,
     ClaimResolves, AnswerResolves, SettleResolves, FinishResolves, LookUpResolves
  DEF Revise
<1>3. ASSUME NEW c \in Clerks, AbandonCall(c) PROVE Resolved'
  BY <1>3, Leaves DEF AbandonCall, table
<1>4. CASE \/ \E n \in UpdateNumbers : JiraUpdates(n)
           \/ UNCHANGED publishedVars
  <2>1. UNCHANGED <<row, update, updates, clerk>>
    BY <1>4 DEF JiraUpdates, publishedVars, table
  <2> QED BY <2>1 DEF Resolved, UpdateTypes, Numbers, Unlocked, AllEnded, Ended,
       Knows, KnowsRow, HasLock, Single
<1> QED BY <1>1, <1>2, <1>3, <1>4 DEF PublishedNext

\* Resolved is inductive (services/submission_service.py:
\* confirm_published_update, reconcile_update).
THEOREM UpdatesResolved == PublishedSpec => []Resolved
<1>1. Inv /\ Inv' /\ Resolved /\ [PublishedNext]_publishedVars => Resolved'
  BY ResolvedStep
<1> QED BY ResolvedInit, PublishedInvariance, <1>1, PTL DEF PublishedSpec

\* An update is attempted only when every earlier one is known to have ended,
\* whichever tasks confirm, reconcile or die.
THEOREM NoUpdateWhileUnresolvedHolds == PublishedSpec => []NoUpdateWhileUnresolved
<1>1. Inv /\ Resolved => NoUpdateWhileUnresolved
  <2> SUFFICES ASSUME Inv, Resolved, NEW n \in 1 .. updates, n < updates
               PROVE  update[n].status \in {"success", "failed"}
    BY DEF NoUpdateWhileUnresolved
  <2>1. n \in UpdateNumbers
    BY PublishedAssumption DEF Inv, Types, UpdateNumbers
  <2> QED BY <2>1 DEF Resolved, Numbers, Ended
<1> QED BY PublishedInvariance, UpdatesResolved, <1>1, PTL

-----------------------------------------------------------------------------
(* The content.  A draft's template changes only when an update of it is   *)
(* prepared, and the issue only when one is applied.  The task that holds  *)
(* the state UPDATING sends the template it is the holder of, so an update *)
(* that is applied while its sender waits makes the two agree, and one     *)
(* that is applied afterwards is late (Match).  COMPLETE is written only   *)
(* by a task that knows of the agreement (Faithful).                       *)

Match == \/ remote = row.template
         \/ \E n \in late : remote = update[n].doc

\* The row has still the revision the task has.
Current(t) == t.pc # "idle" /\ t.rev = row.revision

\* The task was told, or is about to be told, that its update was applied.
Assured(t) ==
  \/ t.op \in {"confirm", "reconcile"} /\ t.pc \in {"settle", "final"}
     /\ t.res = "success"
  \/ t.op = "confirm" /\ t.pc = "await" /\ request[t.num] = "applied"

Faithful(t) ==
  /\ t.pc # "idle" => t.doc \in Documents
  /\ PastCas(t) => t.rev = row.revision
  /\ Current(t) => t.doc = row.template
  /\ t.op = "confirm" /\ t.pc \in {"send", "await"} => update[t.num].doc = t.doc
  /\ Current(t) /\ Assured(t) => Match

NobodyWorks ==
  row.state \in {"CREATED", "ATTACHING", "ATTACHMENT_PARTIAL", "COMPLETE"} => Match

\* Only attempts that were claimed are sent.
Asked == \A n \in UpdateNumbers :
           /\ n <= updates => update[n].doc \in Documents
           /\ n > updates => request[n] = "unsent" /\ n \notin late

JiraTypes == /\ request \in [UpdateNumbers -> Requests]
             /\ remote \in Documents /\ late \subseteq UpdateNumbers
             /\ copies \in [Files -> Nat]

Matched == /\ JiraTypes /\ Asked /\ NobodyWorks
           /\ \A c \in Clerks : Faithful(clerk[c])

LEMMA MatchedInit == PublishedInit => Matched
<1> SUFFICES ASSUME PublishedInit PROVE Matched OBVIOUS
<1>1. \A c \in Clerks : clerk[c] = FreeClerk BY DEF PublishedInit
<1>2. JiraTypes BY DEF PublishedInit, JiraTypes, Requests
<1>3. Asked BY PublishedAssumption DEF PublishedInit, Asked, UpdateNumbers
<1>4. NobodyWorks BY DEF PublishedInit, NobodyWorks, Match
<1>5. \A c \in Clerks : Faithful(clerk[c])
  BY <1>1 DEF Faithful, PastCas, Current, FreeClerk
<1> QED BY <1>2, <1>3, <1>4, <1>5 DEF Matched

LEMMA FreeFaithful ==
  ASSUME NEW c \in Clerks, clerk'[c] = FreeClerk
  PROVE  Faithful(clerk[c])'
  BY DEF Faithful, PastCas, Current, FreeClerk

\* There is one task past the compare-and-swap.
LEMMA Alone ==
  ASSUME Resolved, Matched, NEW c \in Clerks, NEW d \in Clerks \ {c},
         clerk[c].pc # "idle", clerk[c].rev = row.revision
  PROVE  ~PastCas(clerk[d])
<1> SUFFICES ASSUME PastCas(clerk[d]) PROVE FALSE OBVIOUS
<1>1. clerk[d].rev = row.revision BY DEF Matched, Faithful
<1>2. Knows(clerk[c]) /\ Knows(clerk[d]) BY DEF Resolved
<1>3. row.state = "UPDATING"
  BY <1>1, <1>2 DEF Knows, KnowsRow, Shape, PastCas
<1>4. PastCas(clerk[c]) BY <1>2, <1>3 DEF Knows, KnowsRow, Shape, PastCas
<1> QED BY <1>1, <1>4 DEF Resolved, Single

\* A step of c that writes neither the row nor the attempts, nor reaches Jira.
LEMMA Quiet ==
  ASSUME Matched, JiraTypes', NEW c \in Clerks,
         UNCHANGED <<row, update, updates, request, remote, late>>,
         \A d \in Clerks \ {c} : clerk'[d] = clerk[d],
         Faithful(clerk[c])'
  PROVE  Matched'
<1>1. Asked' /\ NobodyWorks' BY DEF Matched, Asked, NobodyWorks, Match
<1>2. \A d \in Clerks \ {c} : Faithful(clerk[d])'
  BY DEF Matched, Faithful, PastCas, Current, Assured, Match
<1> QED BY <1>1, <1>2 DEF Matched

LEMMA QuietLeaves ==
  ASSUME Inv, Matched, JiraTypes', NEW c \in Clerks, Dismiss(c),
         UNCHANGED <<row, update, updates, request, remote, late>>
  PROVE  Matched'
<1>1. clerk'[c] = FreeClerk /\ \A d \in Clerks \ {c} : clerk'[d] = clerk[d]
  BY DEF Dismiss, Inv, Types
<1> QED BY <1>1, FreeFaithful, Quiet

\* A step of c that writes the row it has the revision of.
LEMMA WritesFaithfully ==
  ASSUME Inv, Inv', Resolved, Matched, NEW c \in Clerks,
         UNCHANGED <<update, updates, request, remote, late, copies>>,
         clerk[c].pc # "idle", clerk[c].rev = row.revision,
         row'.revision = row.revision + 1,
         \A d \in Clerks \ {c} : clerk'[d] = clerk[d],
         Faithful(clerk[c])', NobodyWorks'
  PROVE  Matched'
<1>1. JiraTypes' /\ Asked' BY DEF Matched, JiraTypes, Asked
<1>2. ASSUME NEW d \in Clerks \ {c} PROVE Faithful(clerk[d])'
  <2>1. ~PastCas(clerk[d]) BY Alone
  <2>2. clerk[d].pc # "idle" => clerk[d].rev <= row.revision
    BY DEF Resolved, Knows
  <2>3. ~Current(clerk[d])' BY <2>2, Plain DEF Current
  <2>4. ~PastCas(clerk[d])' BY <2>1 DEF PastCas
  <2> QED BY <2>3, <2>4 DEF Matched, Faithful, PastCas
<1> QED BY <1>1, <1>2 DEF Matched

-----------------------------------------------------------------------------
(* The content: the steps.                                                 *)

\* A move leaves the template as it was.
LEMMA MoveMatches ==
  ASSUME Inv, Inv', Resolved, Matched, NEW c \in Clerks, NEW s \in PublishedStates,
         NEW pc \in {"idle", "list", "latest"}, Move(c, s, pc),
         UNCHANGED <<update, updates, jiraSide>>, clerk[c].pc # "idle",
         Current(clerk[c]) =>
           s \in {"UPDATING", "UPDATE_RETRYABLE", "UPDATE_UNKNOWN"} \/ Match
  PROVE  Matched'
<1>1. UNCHANGED <<update, updates, request, remote, late, copies>> BY DEF jiraSide
<1>2. CASE Dismiss(c) /\ UNCHANGED row
  <2>1. JiraTypes' BY <1>1 DEF Matched, JiraTypes
  <2> QED BY <1>1, <1>2, <2>1, QuietLeaves
<1>3. CASE ~(Dismiss(c) /\ UNCHANGED row)
  <2>1. /\ clerk[c].rev = row.revision
        /\ row' = [row EXCEPT !.state = s, !.revision = row.revision + 1]
        /\ pc = "idle" => Dismiss(c)
        /\ pc # "idle" => clerk' = [clerk EXCEPT ![c].pc = pc,
                                                 ![c].rev = row.revision + 1]
    BY <1>3 DEF Move, MoveAccepted, Dismiss
  <2>2. /\ row'.state = s /\ row'.revision = row.revision + 1
        /\ row'.template = row.template
    <3>1. row.revision + 1 \in Nat BY Plain
    <3> QED BY <2>1, <3>1, MovesRow
  <2>3. NobodyWorks'
    BY <1>1, <2>1, <2>2 DEF NobodyWorks, Match, Current
  <2>4. CASE pc = "idle"
    <3>1. clerk'[c] = FreeClerk /\ \A d \in Clerks \ {c} : clerk'[d] = clerk[d]
      BY <2>1, <2>4 DEF Dismiss, Inv, Types
    <3> QED BY <1>1, <2>1, <2>2, <2>3, <3>1, FreeFaithful, WritesFaithfully
  <2>5. CASE pc # "idle"
    <3>1. /\ clerk'[c].pc = pc /\ clerk'[c].rev = row.revision + 1
          /\ clerk'[c].doc = clerk[c].doc
          /\ \A d \in Clerks \ {c} : clerk'[d] = clerk[d]
      BY <2>1, <2>5 DEF Inv, Types, ClerkTask
    <3>2. Faithful(clerk[c])'
      BY <2>1, <2>2, <2>5, <3>1 DEF Matched, Faithful, Current, Assured, PastCas
    <3> QED BY <1>1, <2>1, <2>2, <2>3, <3>1, <3>2, WritesFaithfully
  <2> QED BY <2>4, <2>5
<1> QED BY <1>2, <1>3

LEMMA MovesMatch ==
  ASSUME Inv, Inv', Resolved, Matched, NEW c \in Clerks,
         UploadCas(c) \/ UploadFinal(c) \/ ConfirmCas(c) \/ FinishUpdate(c)
  PROVE  Matched'
<1>1. clerk[c].pc # "idle" /\ UNCHANGED <<update, updates, jiraSide>>
  BY DEF UploadCas, UploadFinal, ConfirmCas, FinishUpdate, Doing
<1>2. CASE UploadCas(c) \/ UploadFinal(c)
  <2>1. PICK s \in {"COMPLETE", "ATTACHING", "ATTACHMENT_PARTIAL"},
             pc \in {"idle", "list"} : Move(c, s, pc)
    BY <1>2 DEF UploadCas, UploadFinal
  <2>2. clerk[c].op = "upload" BY <1>2 DEF UploadCas, UploadFinal, Doing
  <2>3. Current(clerk[c]) => Match
    BY <2>2 DEF Current, Resolved, Knows, KnowsRow, Matched, NobodyWorks
  <2>4. s \in PublishedStates BY Names
  <2> QED BY <1>1, <2>1, <2>3, <2>4, MoveMatches
<1>3. CASE ConfirmCas(c)
  BY <1>1, <1>3, MoveMatches, Names DEF ConfirmCas
<1>4. CASE FinishUpdate(c)
  <2> DEFINE s == UpdateTarget(clerk[c].res)
  <2>1. /\ s \in {"COMPLETE", "UPDATE_RETRYABLE", "UPDATE_UNKNOWN"}
        /\ s = "COMPLETE" => clerk[c].res = "success"
    BY DEF UpdateTarget
  <2>2. s = "COMPLETE" => Assured(clerk[c])
    BY <1>4, <2>1 DEF FinishUpdate, Assured
  <2>3. Move(c, s, "idle") BY <1>4 DEF FinishUpdate
  <2> HIDE DEF s
  <2>4. s \in PublishedStates BY <2>1, Names
  <2>5. Current(clerk[c]) => s \in {"UPDATE_RETRYABLE", "UPDATE_UNKNOWN"} \/ Match
    BY <2>1, <2>2 DEF Matched, Faithful
  <2> QED BY <1>1, <2>3, <2>4, <2>5, MoveMatches
<1> QED BY <1>2, <1>3, <1>4

\* A new template is saved with the state UPDATE_REVIEW.
LEMMA PrepareMatches ==
  ASSUME Inv, Inv', Resolved, Matched, NEW c \in Clerks, PrepareSave(c)
  PROVE  Matched'
<1>1. /\ clerk[c].pc = "save" /\ Dismiss(c) /\ UNCHANGED <<update, updates, jiraSide>>
  BY DEF PrepareSave, Doing
<1>2. UNCHANGED <<update, updates, request, remote, late, copies>>
  BY <1>1 DEF jiraSide
<1>3. CASE UNCHANGED row
  <2>1. JiraTypes' BY <1>2 DEF Matched, JiraTypes
  <2> QED BY <1>1, <1>2, <1>3, <2>1, QuietLeaves
<1>4. CASE row' # row
  <2>1. /\ clerk[c].rev = row.revision /\ row'.revision = row.revision + 1
        /\ row'.state = "UPDATE_REVIEW"
    BY <1>4 DEF PrepareSave, MoveAccepted
  <2>2. NobodyWorks' BY <2>1 DEF NobodyWorks
  <2>3. clerk'[c] = FreeClerk /\ \A d \in Clerks \ {c} : clerk'[d] = clerk[d]
    BY <1>1 DEF Dismiss, Inv, Types
  <2> QED BY <1>1, <1>2, <2>1, <2>2, <2>3, FreeFaithful, WritesFaithfully
<1> QED BY <1>3, <1>4

\* A call begins with the row's template.
LEMMA BeginMatches ==
  ASSUME Inv, Resolved, Matched, NEW c \in Clerks,
         \/ UploadRead(c) \/ PrepareRead(c) \/ ConfirmRead(c)
         \/ ReconcileUpdateRead(c)
  PROVE  Matched'
<1>1. PICK op, pc : Call(c, op, pc) /\ pc \in {"cas", "save", "latest"}
                    /\ (op = "confirm" => pc = "cas")
  BY DEF UploadRead, PrepareRead, ConfirmRead, ReconcileUpdateRead
<1>2. UNCHANGED <<row, update, updates, request, remote, late, copies>>
  BY <1>1 DEF Call, table, jiraSide
<1>3. /\ clerk'[c].op = op /\ clerk'[c].pc = pc /\ clerk'[c].rev = row.revision
      /\ clerk'[c].doc = row.template
      /\ \A d \in Clerks \ {c} : clerk'[d] = clerk[d]
  BY <1>1 DEF Call, FreeClerk, Inv, Types
<1>4. row.template \in Documents BY DEF Inv, Types
<1>5. Faithful(clerk[c])'
  BY <1>1, <1>2, <1>3, <1>4 DEF Faithful, PastCas, Current, Assured
<1>6. JiraTypes' BY <1>2 DEF Matched, JiraTypes
<1> QED BY <1>2, <1>3, <1>5, <1>6, Quiet

\* The files are no update.
LEMMA UploadMatches ==
  ASSUME Inv, Inv', Resolved, Matched, NEW c \in Clerks,
         \/ ListFiles(c) \/ ClaimFile(c) \/ LoadFile(c) \/ UploadAnswer(c)
         \/ RecordFile(c) \/ CountFailed(c)
  PROVE  Matched'
<1>1. UNCHANGED <<row, update, updates, request, remote, late>>
  BY DEF ListFiles, ClaimFile, LoadFile, UploadAnswer, RecordFile, CountFailed,
     table, jiraSide
<1>2. JiraTypes'
  <2>1. CASE UNCHANGED copies BY <1>1, <2>1 DEF Matched, JiraTypes
  <2>2. CASE UploadAnswer(c) /\ copies' # copies
    <3>1. copies' = [copies EXCEPT ![clerk[c].file] = @ + 1]
      BY <2>2 DEF UploadAnswer
    <3>2. clerk[c].file \in Files
      BY <2>2 DEF UploadAnswer, Doing, Holding, Inv, HoldersLocked
    <3>3. copies' \in [Files -> Nat] BY <3>1, <3>2 DEF Matched, JiraTypes
    <3> QED BY <1>1, <3>3 DEF Matched, JiraTypes
  <2> QED
    BY <2>1, <2>2
    DEF ListFiles, ClaimFile, LoadFile, RecordFile, CountFailed, jiraSide
<1>3. CASE Dismiss(c) BY <1>1, <1>2, <1>3, QuietLeaves
<1>4. CASE ~Dismiss(c)
  <2>1. /\ clerk'[c].op = "upload" /\ clerk'[c].rev = clerk[c].rev
        /\ clerk'[c].doc = clerk[c].doc /\ clerk[c].pc # "idle"
        /\ \A d \in Clerks \ {c} : clerk'[d] = clerk[d]
    BY <1>4, UploadTask
  <2>2. Faithful(clerk[c])'
    BY <1>1, <2>1 DEF Matched, Faithful, PastCas, Current, Assured
  <2> QED BY <1>1, <1>2, <2>1, <2>2, Quiet
<1> QED BY <1>3, <1>4

\* Numbered, answered, looked up or compared: who is told of success has it
\* from the issue.
LEMMA AnswerMatches ==
  ASSUME Inv, Inv', Resolved, Matched, NEW c \in Clerks,
         \/ NumberUpdate(c) \/ UpdateAnswer(c) \/ ReconcileUpdateLatest(c)
         \/ CompareRemote(c) \/ AbandonCall(c)
  PROVE  Matched'
<1>1. UNCHANGED <<row, update, updates, request, remote, late, copies>>
  BY DEF NumberUpdate, UpdateAnswer, ReconcileUpdateLatest, CompareRemote,
     AbandonCall, table, jiraSide
<1>2. JiraTypes' BY <1>1 DEF Matched, JiraTypes
<1>3. CASE Dismiss(c) BY <1>1, <1>2, <1>3, QuietLeaves
<1>4. ASSUME clerk'[c].op = clerk[c].op, clerk'[c].rev = clerk[c].rev,
             clerk'[c].doc = clerk[c].doc, clerk[c].pc # "idle",
             \A d \in Clerks \ {c} : clerk'[d] = clerk[d],
             PastCas(clerk[c])' => PastCas(clerk[c]),
             clerk'[c].pc \notin {"send", "await"},
             Current(clerk[c]) /\ Assured(clerk[c])' => Match
      PROVE  Matched'
  <2>1. Match' <=> Match BY <1>1 DEF Match
  <2>2. Faithful(clerk[c])'
    BY <1>1, <1>4, <2>1 DEF Matched, Faithful, PastCas, Current
  <2> QED BY <1>1, <1>2, <1>4, <2>2, Quiet
<1>5. clerk \in [Clerks -> ClerkTask] BY DEF Inv, Types
<1>6. CASE NumberUpdate(c)
  <2>1. /\ clerk[c].op = "confirm" /\ clerk[c].pc = "latest"
        /\ clerk' = [clerk EXCEPT ![c].pc = "claim", ![c].num = updates + 1]
    BY <1>6 DEF NumberUpdate, Doing
  <2>2. /\ clerk'[c].op = "confirm" /\ clerk'[c].pc = "claim"
        /\ clerk'[c].rev = clerk[c].rev /\ clerk'[c].doc = clerk[c].doc
        /\ \A d \in Clerks \ {c} : clerk'[d] = clerk[d]
    BY <1>5, <2>1 DEF ClerkTask
  <2> QED BY <1>4, <2>1, <2>2 DEF PastCas, Assured
<1>7. CASE UpdateAnswer(c)
  <2>1. PICK r : /\ clerk[c].op = "confirm" /\ clerk[c].pc = "await"
                 /\ clerk' = [clerk EXCEPT ![c].pc = "settle", ![c].res = r]
                 /\ r = "success" => request[clerk[c].num] = "applied"
    BY <1>7 DEF UpdateAnswer, Doing
  <2>2. /\ clerk'[c].op = "confirm" /\ clerk'[c].pc = "settle"
        /\ clerk'[c].rev = clerk[c].rev /\ clerk'[c].doc = clerk[c].doc
        /\ clerk'[c].res = r
        /\ \A d \in Clerks \ {c} : clerk'[d] = clerk[d]
    BY <1>5, <2>1 DEF ClerkTask
  <2>3. Assured(clerk[c])' => Assured(clerk[c]) BY <2>1, <2>2 DEF Assured
  <2> QED BY <1>4, <2>1, <2>2, <2>3 DEF PastCas, Matched, Faithful
<1>8. CASE ReconcileUpdateLatest(c) /\ ~Dismiss(c)
  <2>1. /\ clerk[c].op = "reconcile" /\ clerk[c].pc = "latest"
        /\ clerk' = [clerk EXCEPT ![c].pc = "query", ![c].num = updates]
    BY <1>8 DEF ReconcileUpdateLatest, Doing
  <2>2. /\ clerk'[c].op = "reconcile" /\ clerk'[c].pc = "query"
        /\ clerk'[c].rev = clerk[c].rev /\ clerk'[c].doc = clerk[c].doc
        /\ \A d \in Clerks \ {c} : clerk'[d] = clerk[d]
    BY <1>5, <2>1 DEF ClerkTask
  <2> QED BY <1>4, <2>1, <2>2 DEF PastCas, Assured
<1>9. CASE CompareRemote(c) /\ ~Dismiss(c)
  <2>1. /\ clerk[c].op = "reconcile" /\ clerk[c].pc = "query"
        /\ remote = clerk[c].doc
        /\ clerk' = [clerk EXCEPT ![c].pc = "settle", ![c].res = "success"]
    BY <1>9 DEF CompareRemote, Doing, FieldsMatch
  <2>2. /\ clerk'[c].op = "reconcile" /\ clerk'[c].pc = "settle"
        /\ clerk'[c].rev = clerk[c].rev /\ clerk'[c].doc = clerk[c].doc
        /\ \A d \in Clerks \ {c} : clerk'[d] = clerk[d]
    BY <1>5, <2>1 DEF ClerkTask
  <2>3. Current(clerk[c]) => Match BY <2>1 DEF Matched, Faithful, Match
  <2> QED BY <1>4, <2>1, <2>2, <2>3 DEF PastCas
<1> QED BY <1>3, <1>6, <1>7, <1>8, <1>9 DEF AbandonCall

\* The attempt takes the task's document.
LEMMA ClaimMatches ==
  ASSUME Inv, Inv', Resolved, Matched, NEW c \in Clerks, ClaimUpdate(c)
  PROVE  Matched'
<1> DEFINE n == clerk[c].num
<1>1. /\ clerk[c].op = "confirm" /\ clerk[c].pc = "claim"
      /\ UNCHANGED <<row, request, remote, late, copies>>
      /\ Knows(clerk[c]) /\ HasLock(clerk[c])
  BY DEF ClaimUpdate, Doing, Resolved, HasLock, jiraSide
<1>2. JiraTypes' BY <1>1 DEF Matched, JiraTypes
<1>3. CASE Dismiss(c) /\ UNCHANGED <<update, updates>>
  BY <1>1, <1>2, <1>3, QuietLeaves
<1>4. CASE ~(Dismiss(c) /\ UNCHANGED <<update, updates>>)
  <2>1. /\ n \in UpdateNumbers /\ updates' = n /\ GoTo(c, "send")
        /\ update' = [update EXCEPT ![n] = [status |-> "pending",
                                            doc |-> clerk[c].doc]]
    BY <1>4 DEF ClaimUpdate, UpdateClaimable
  <2>2. /\ n = updates + 1 /\ clerk[c].rev = row.revision
        /\ row.state = "UPDATING" /\ updates \in Nat
    BY <1>1, Plain DEF Knows, KnowsRow
  <2>3. /\ \A m \in UpdateNumbers \ {n} : update'[m] = update[m]
        /\ update'[n].doc = clerk[c].doc
    BY <2>1 DEF Resolved, UpdateTypes
  <2>4. /\ clerk'[c].op = "confirm" /\ clerk'[c].pc = "send"
        /\ clerk'[c].rev = clerk[c].rev /\ clerk'[c].num = n
        /\ clerk'[c].doc = clerk[c].doc
        /\ \A d \in Clerks \ {c} : clerk'[d] = clerk[d]
    BY <1>1, <2>1 DEF GoTo, Inv, Types, ClerkTask
  <2>5. Match => Match'
    <3>1. \A m \in late : update'[m] = update[m]
      BY <2>2, <2>3, Plain DEF Matched, Asked, JiraTypes
    <3> QED BY <1>1, <3>1 DEF Match
  <2>6. Asked'
    <3>1. \A m \in UpdateNumbers : m \in Nat BY Plain
    <3>2. clerk[c].doc \in Documents BY <1>1 DEF Matched, Faithful
    <3> QED BY <1>1, <2>1, <2>2, <2>3, <3>1, <3>2 DEF Matched, Asked
  <2>7. NobodyWorks' BY <1>1, <2>2 DEF NobodyWorks
  <2>8. Faithful(clerk[c])'
    BY <1>1, <2>2, <2>3, <2>4 DEF Matched, Faithful, PastCas, Current, Assured
  <2>9. ASSUME NEW d \in Clerks \ {c} PROVE Faithful(clerk[d])'
    <3>1. ~PastCas(clerk[d]) BY <1>1, <2>2, Alone
    <3> QED
      BY <1>1, <2>4, <2>5, <3>1 DEF Matched, Faithful, PastCas, Current, Assured
  <2> QED BY <1>2, <2>6, <2>7, <2>8, <2>9 DEF Matched
<1> QED BY <1>3, <1>4

LEMMA SendMatches ==
  ASSUME Inv, Inv', Resolved, Matched, NEW c \in Clerks, SendUpdate(c)
  PROVE  Matched'
<1> DEFINE n == clerk[c].num
<1>1. /\ clerk[c].op = "confirm" /\ clerk[c].pc = "send"
      /\ UNCHANGED <<row, update, updates, remote, late, copies>>
      /\ request' = [request EXCEPT ![n] = "inflight"] /\ GoTo(c, "await")
  BY DEF SendUpdate, Doing, table
<1>2. n \in UpdateNumbers /\ n <= updates
  BY <1>1 DEF Resolved, Knows, Numbered
<1>3. /\ request'[n] = "inflight"
      /\ \A m \in UpdateNumbers \ {n} : request'[m] = request[m]
      /\ request' \in [UpdateNumbers -> Requests]
  BY <1>1, <1>2 DEF Matched, JiraTypes, Requests
<1>4. /\ clerk'[c].op = "confirm" /\ clerk'[c].pc = "await"
      /\ clerk'[c].rev = clerk[c].rev /\ clerk'[c].num = n
      /\ clerk'[c].doc = clerk[c].doc
      /\ \A d \in Clerks \ {c} : clerk'[d] = clerk[d]
  BY <1>1 DEF GoTo, Inv, Types, ClerkTask
<1>5. JiraTypes' BY <1>1, <1>3 DEF Matched, JiraTypes
<1>6. Asked'
  <2>1. n \in Nat /\ updates \in Nat /\ \A m \in UpdateNumbers : m \in Nat BY Plain
  <2> QED BY <1>1, <1>2, <1>3, <2>1 DEF Matched, Asked
<1>7. NobodyWorks' BY <1>1 DEF Matched, NobodyWorks, Match
<1>8. Faithful(clerk[c])'
  BY <1>1, <1>3, <1>4 DEF Matched, Faithful, PastCas, Current, Assured
<1>9. ASSUME NEW d \in Clerks \ {c} PROVE Faithful(clerk[d])'
  <2>1. PastCas(clerk[c]) /\ clerk[c].rev = row.revision
    BY <1>1 DEF Matched, Faithful, PastCas
  <2>2. ~PastCas(clerk[d]) BY <1>1, <2>1, Alone
  <2>3. Match' <=> Match BY <1>1 DEF Match
  <2> QED
    BY <1>1, <1>4, <2>2, <2>3 DEF Matched, Faithful, PastCas, Current, Assured
<1> QED BY <1>5, <1>6, <1>7, <1>8, <1>9 DEF Matched

LEMMA SettleMatches ==
  ASSUME Inv, Inv', Resolved, Matched, NEW c \in Clerks, SettleUpdate(c)
  PROVE  Matched'
<1> DEFINE n == clerk[c].num  res == clerk[c].res
<1>1. /\ clerk[c].pc = "settle" /\ Knows(clerk[c])
      /\ UNCHANGED <<row, updates, request, remote, late, copies>>
  BY DEF SettleUpdate, Resolved, jiraSide
<1>2. JiraTypes' BY <1>1 DEF Matched, JiraTypes
<1>3. CASE Dismiss(c) /\ UNCHANGED update BY <1>1, <1>2, <1>3, QuietLeaves
<1>4. CASE ~(Dismiss(c) /\ UNCHANGED update)
  <2>1. update' = [update EXCEPT ![n].status = res] /\ GoTo(c, "final")
    BY <1>4 DEF SettleUpdate
  <2>2. \A m \in UpdateNumbers : update'[m].doc = update[m].doc
    BY <2>1 DEF Resolved, UpdateTypes
  <2>3. /\ clerk'[c].op = clerk[c].op /\ clerk'[c].pc = "final"
        /\ clerk'[c].rev = clerk[c].rev /\ clerk'[c].res = res
        /\ clerk'[c].doc = clerk[c].doc
        /\ \A d \in Clerks \ {c} : clerk'[d] = clerk[d]
    BY <2>1 DEF GoTo, Inv, Types, ClerkTask
  <2>4. Match' <=> Match BY <1>1, <2>2 DEF Match, Matched, JiraTypes
  <2>5. Asked' BY <1>1, <2>2 DEF Matched, Asked
  <2>6. NobodyWorks' BY <1>1, <2>4 DEF Matched, NobodyWorks
  <2>7. Faithful(clerk[c])'
    BY <1>1, <2>3, <2>4 DEF Matched, Faithful, PastCas, Current, Assured
  <2>8. ASSUME NEW d \in Clerks \ {c} PROVE Faithful(clerk[d])'
    <3>1. clerk[d].op = "confirm" /\ clerk[d].pc \in {"send", "await"}
            => clerk[d].num \in UpdateNumbers
      BY DEF Resolved, Knows, Numbered
    <3> QED
      BY <1>1, <2>2, <2>3, <2>4, <3>1
      DEF Matched, Faithful, PastCas, Current, Assured
  <2> QED BY <1>2, <2>5, <2>6, <2>7, <2>8 DEF Matched
<1> QED BY <1>3, <1>4

\* Jira applies an update: the issue has the row's template, or it is late.
LEMMA JiraMatches ==
  ASSUME Inv, Inv', Resolved, Matched, NEW n \in UpdateNumbers, JiraUpdates(n)
  PROVE  Matched'
<1>1. UNCHANGED <<row, update, updates, clerk, copies>> /\ request[n] = "inflight"
  BY DEF JiraUpdates, table
<1>2. n <= updates /\ update[n].doc \in Documents
  <2>1. n \in Nat /\ updates \in Nat BY Plain
  <2> QED BY <1>1, <2>1 DEF Matched, Asked
<1>3. CASE /\ request' = [request EXCEPT ![n] = "applied"]
           /\ remote' = update[n].doc
           /\ late' = IF Awaited(n) THEN late ELSE late \cup {n}
  <2>1. Match'
    <3>1. CASE ~Awaited(n)
      <4>1. n \in late' /\ remote' = update'[n].doc BY <1>1, <1>3, <3>1
      <4> QED BY <4>1 DEF Match
    <3>2. CASE Awaited(n)
      <4>1. PICK c \in Clerks : Doing(c, "confirm", "await") /\ clerk[c].num = n
        BY <3>2 DEF Awaited
      <4>2. update[n].doc = row.template
        BY <4>1 DEF Doing, Matched, Faithful, PastCas, Current
      <4> QED BY <1>1, <1>3, <4>2 DEF Match
    <3> QED BY <3>1, <3>2
  <2>2. JiraTypes'
    BY <1>1, <1>2, <1>3 DEF Matched, JiraTypes, Requests
  <2>3. Asked'
    <3>1. ASSUME NEW m \in UpdateNumbers, m > updates
          PROVE  request'[m] = "unsent" /\ m \notin late'
      <4>1. m # n BY <1>2, <3>1, Plain
      <4> QED BY <1>3, <3>1, <4>1 DEF Matched, Asked, JiraTypes
    <3> QED BY <1>1, <3>1 DEF Matched, Asked
  <2>4. NobodyWorks' BY <2>1 DEF NobodyWorks
  <2>5. \A c \in Clerks : Faithful(clerk[c])'
    BY <1>1, <2>1 DEF Matched, Faithful, PastCas, Current
  <2> QED BY <2>2, <2>3, <2>4, <2>5 DEF Matched
<1>4. CASE /\ \E r \in {"rejected", "lost"} : request' = [request EXCEPT ![n] = r]
           /\ UNCHANGED <<remote, late>>
  <2>1. PICK r \in {"rejected", "lost"} : request' = [request EXCEPT ![n] = r]
    BY <1>4
  <2>2. /\ request' \in [UpdateNumbers -> Requests]
        /\ \A m \in UpdateNumbers : /\ request'[m] = "applied" => request[m] = "applied"
                                    /\ m # n => request'[m] = request[m]
    BY <2>1 DEF Matched, JiraTypes, Requests
  <2>3. JiraTypes' BY <1>1, <1>4, <2>2 DEF Matched, JiraTypes
  <2>4. Asked'
    <3>1. \A m \in UpdateNumbers : m > updates => m # n BY <1>2, Plain
    <3> QED BY <1>1, <1>4, <2>2, <3>1 DEF Matched, Asked
  <2>5. Match' <=> Match BY <1>1, <1>4 DEF Match
  <2>6. NobodyWorks' BY <1>1, <2>5 DEF Matched, NobodyWorks
  <2>7. ASSUME NEW c \in Clerks PROVE Faithful(clerk[c])'
    <3>1. clerk[c].op = "confirm" /\ clerk[c].pc = "await"
            => clerk[c].num \in UpdateNumbers
      BY DEF Resolved, Knows, Numbered
    <3>2. Assured(clerk[c])' => Assured(clerk[c])
      BY <1>1, <2>2, <3>1 DEF Assured
    <3> QED BY <1>1, <2>5, <3>2 DEF Matched, Faithful, PastCas, Current
  <2> QED BY <2>3, <2>4, <2>6, <2>7 DEF Matched
<1> QED BY <1>3, <1>4 DEF JiraUpdates

LEMMA MatchedStep ==
  ASSUME Inv, Inv', Resolved, Matched, [PublishedNext]_publishedVars
  PROVE  Matched'
<1>1. ASSUME NEW c \in Clerks, Upload(c) PROVE Matched'
  BY <1>1, BeginMatches, MovesMatch, UploadMatches DEF Upload
<1>2. ASSUME NEW c \in Clerks, Revise(c) PROVE Matched'
  BY <1>2, BeginMatches, PrepareMatches, MovesMatch, AnswerMatches, ClaimMatches,
     SendMatches, SettleMatches DEF Revise
<1>3. ASSUME NEW c \in Clerks, AbandonCall(c) PROVE Matched'
  BY <1>3, AnswerMatches
<1>4. CASE UNCHANGED publishedVars
  BY <1>4 DEF publishedVars, table, jiraSide, Matched, JiraTypes, Asked, NobodyWorks,
     Match, Faithful, PastCas, Current, Assured
<1> QED BY <1>1, <1>2, <1>3, <1>4, JiraMatches DEF PublishedNext

\* Matched is inductive (services/submission_service.py:
\* confirm_published_update, reconcile_update).
THEOREM ContentMatched == PublishedSpec => []Matched
<1>1. Inv /\ Inv' /\ Resolved /\ Matched /\ [PublishedNext]_publishedVars => Matched'
  BY MatchedStep
<1> QED
  BY MatchedInit, PublishedInvariance, UpdatesResolved, <1>1, PTL DEF PublishedSpec

\* The issue of a draft at rest has the draft's content, whichever updates
\* failed, were lost or were reconciled, unless one was applied after its
\* sender had stopped waiting for it.
THEOREM CompleteMatchesIssueHolds == PublishedSpec => []CompleteMatchesIssue
<1>1. Matched => CompleteMatchesIssue
  BY DEF Matched, NobodyWorks, Match, CompleteMatchesIssue
<1> QED BY ContentMatched, <1>1, PTL

\* Every task, table and request keeps its type.
THEOREM PublishedTypeCorrect == PublishedSpec => []PublishedTypeOK
<1>1. Inv /\ Resolved /\ Matched => PublishedTypeOK
  BY DEF Inv, Types, ClerkTask, Resolved, UpdateTypes, Matched, JiraTypes,
     PublishedTypeOK
<1> QED BY PublishedInvariance, UpdatesResolved, ContentMatched, <1>1, PTL

=============================================================================
