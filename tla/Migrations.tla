----------------------------- MODULE Migrations -----------------------------
(***************************************************************************)
(* Opening the workflow database (SQLiteWorkflowRepository.initialize):    *)
(* several processes, of several releases, may open one file at a time,    *)
(* and any of them may die at any step.  A migration, its row in           *)
(* schema_migrations and the version are one transaction, so they are one  *)
(* action; the rows it is compared with were read before it began.         *)
(***************************************************************************)
EXTENDS Naturals, Sequences

CONSTANTS Processes,
          Releases     \* the migrations each release ships, in order

ASSUME MigrationsAssumption == \A r \in Releases : r \in Seq(STRING)

VARIABLES
  history,      \* schema_migrations: the migration of each version
  userVersion,
  opener,       \* how far each process has come
  release,      \* the migrations it ships
  seen          \* the rows it has read

migrationVars == <<history, userVersion, opener, release, seen>>

OpenerState == [pc : {"closed", "connected", "listed", "migrate", "verify", "ready"},
                next : Nat]
Closed == [pc |-> "closed", next |-> 1]

MigrationsTypeOK ==
  /\ history \in Seq(STRING) /\ userVersion \in Nat
  /\ opener \in [Processes -> OpenerState]
  /\ release \in [Processes -> Releases]
  /\ seen \in [Processes -> Seq(STRING)]

MigrationsInit ==
  /\ history = <<>> /\ userVersion = 0
  /\ opener = [p \in Processes |-> Closed]
  /\ release \in [Processes -> Releases]
  /\ seen = [p \in Processes |-> <<>>]

-----------------------------------------------------------------------------

Latest(p) == Len(release[p])

OpenAt(p, pc) == opener' = [opener EXCEPT ![p].pc = pc]

\* The initialisation raises, or the process dies: an open transaction is
\* rolled back.
Quit(p) ==
  /\ opener' = [opener EXCEPT ![p] = Closed]
  /\ seen' = [seen EXCEPT ![p] = <<>>]

Connect(p) ==
  /\ opener[p].pc = "closed"
  /\ userVersion <= Latest(p)      \* else: workflow_schema_version_unknown
  /\ OpenAt(p, "connected")
  /\ UNCHANGED <<history, userVersion, release, seen>>

ListApplied(p) ==
  /\ opener[p].pc = "connected"
  /\ \/ /\ Len(history) <= Latest(p)
        /\ OpenAt(p, "migrate")
        /\ seen' = [seen EXCEPT ![p] = history]
     \/ Len(history) > Latest(p) /\ Quit(p)
  /\ UNCHANGED <<history, userVersion, release>>

\* Mutant of SameMigration: name and checksum are not compared.
AnyMigration(p, v) == TRUE
SameMigration(p, v) == seen[p][v] = release[p][v]

\* A version that was applied when the rows were read.
PassApplied(p) ==
  LET v == opener[p].next
  IN  /\ opener[p].pc = "migrate"
      /\ v <= Len(seen[p])
      /\ \/ /\ SameMigration(p, v)
            /\ opener' = [opener EXCEPT ![p].next = v + 1]
            /\ UNCHANGED seen
         \/ ~SameMigration(p, v) /\ Quit(p)
      /\ UNCHANGED <<history, userVersion, release>>

\* Mutant of Apply: CREATE ... IF NOT EXISTS and INSERT OR IGNORE.
ApplyOrIgnore(p, v) ==
  /\ history' = IF v \in DOMAIN history THEN history
                                       ELSE Append(history, release[p][v])
  /\ userVersion' = v
  /\ opener' = [opener EXCEPT ![p].next = v + 1]
  /\ UNCHANGED seen

\* What the migration creates, or its row, is there already, and the
\* transaction fails; or nothing is, and it commits.
Apply(p, v) ==
  \/ /\ v \in DOMAIN history
     /\ Quit(p)
     /\ UNCHANGED <<history, userVersion>>
  \/ /\ v \notin DOMAIN history
     /\ history' = Append(history, release[p][v])
     /\ userVersion' = v
     /\ opener' = [opener EXCEPT ![p].next = v + 1]
     /\ UNCHANGED seen

ApplyMigration(p) ==
  LET v == opener[p].next
  IN  /\ opener[p].pc = "migrate"
      /\ v \in (Len(seen[p]) + 1) .. Latest(p)
      /\ Apply(p, v)
      /\ UNCHANGED release

\* The version and the rows are read again.
VerifyHistory(p) ==
  /\ opener[p].pc = "migrate"
  /\ opener[p].next > Latest(p)
  /\ \/ Len(history) = Latest(p) /\ OpenAt(p, "verify") /\ UNCHANGED seen
     \/ Len(history) # Latest(p) /\ Quit(p)
  /\ UNCHANGED <<history, userVersion, release>>

VerifyVersion(p) ==
  /\ opener[p].pc = "verify"
  /\ \/ userVersion = Latest(p) /\ OpenAt(p, "ready") /\ UNCHANGED seen
     \/ userVersion # Latest(p) /\ Quit(p)
  /\ UNCHANGED <<history, userVersion, release>>

\* It dies, or is locked out past the busy timeout.
CloseDatabase(p) ==
  /\ opener[p].pc # "closed"
  /\ Quit(p)
  /\ UNCHANGED <<history, userVersion, release>>

MigrationsNext ==
  \E p \in Processes :
    \/ Connect(p) \/ ListApplied(p) \/ PassApplied(p) \/ ApplyMigration(p)
    \/ VerifyHistory(p) \/ VerifyVersion(p) \/ CloseDatabase(p)

MigrationsSpec == MigrationsInit /\ [][MigrationsNext]_migrationVars

-----------------------------------------------------------------------------
(* Properties.                                                             *)

\* A process that opened the database has each of its migrations there, as it
\* ships them, whichever releases raced it to apply them, and the version never
\* disagrees with the rows.
ReadyMeansMigrated ==
  /\ userVersion = Len(history)
  /\ \A p \in Processes : opener[p].pc = "ready" =>
       \A v \in 1 .. Latest(p) : v \in DOMAIN history /\ history[v] = release[p][v]

=============================================================================
