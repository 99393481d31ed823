----------------------------- MODULE UserStore -----------------------------
(***************************************************************************)
(* The credential and language file (user_store.py): a write is made in a  *)
(* thread while the store's lock is held, and memory follows a write that  *)
(* succeeded.  A cancelled caller gives the lock back, but a thread that   *)
(* has begun goes on.  The process may die at any point; a file is damaged *)
(* only from outside, since every write replaces it whole.                 *)
(*                                                                         *)
(* Serialising is one action (no I/O).  A document is good or unreadable:  *)
(* one whose languages parse and whose credentials do not is unreadable.   *)
(***************************************************************************)
EXTENDS FiniteSets, Naturals

CONSTANTS Users, Tokens, Languages,
          Threads,            \* of the executor
          Nothing, Unreadable,
          MaxCancelled, MaxDamage

ASSUME UserStoreAssumption ==
  /\ Nothing \notin Tokens \cup Languages \cup Threads
  /\ MaxCancelled \in Nat /\ MaxDamage \in Nat

VARIABLES
  credentials, languages,  \* in memory
  main, prev,              \* the file and its previous copy
  holder,                  \* the thread whose caller holds the lock
  thread,
  serving,                 \* the store has been initialised
  diverged,                \* history: the file was last written for a caller
                           \* that was cancelled, or damaged
  cancelled, damage        \* bounded

storeMemory == <<credentials, languages>>
storeFiles == <<main, prev>>
faults == <<cancelled, damage>>
userStoreVars == <<storeMemory, storeFiles, holder, thread, serving, diverged, faults>>

Credentials == [Users -> Tokens \cup {Nothing}]
Preferences == [Users -> Languages \cup {Nothing}]
Document == [credentials : Credentials, languages : Preferences]

\* No file and an unreadable one are told from each other and from a document.
ASSUME DocumentAssumption ==
  Nothing \notin Document /\ Unreadable \notin Document /\ Nothing # Unreadable

NoOne == [u \in Users |-> Nothing]
Resting == [pc |-> "resting", op |-> "none", creds |-> NoOne, langs |-> NoOne]

UserStoreTypeOK ==
  /\ credentials \in Credentials /\ languages \in Preferences
  /\ main \in Document \cup {Nothing, Unreadable}
  /\ prev \in Document \cup {Nothing, Unreadable}
  /\ holder \in Threads \cup {Nothing}
  /\ thread \in [Threads ->
       [pc : {"resting", "load", "previous", "serialize", "copy", "replace",
              "done", "failed"},
        op : {"none", "load", "credentials", "language"},
        creds : Credentials, langs : Preferences]]
  /\ serving \in BOOLEAN /\ diverged \in BOOLEAN
  /\ cancelled \in 0 .. MaxCancelled /\ damage \in 0 .. MaxDamage

UserStoreInit ==
  /\ credentials = NoOne /\ languages = NoOne
  /\ main = Nothing /\ prev = Nothing
  /\ holder = Nothing
  /\ thread = [t \in Threads |-> Resting]
  /\ serving = FALSE /\ diverged = FALSE
  /\ cancelled = 0 /\ damage = 0

-----------------------------------------------------------------------------

Step(t, pc) == thread' = [thread EXCEPT ![t].pc = pc]

\* A caller takes the lock and a thread for the document it wants written.
Engage(t, op, creds, langs) ==
  /\ holder = Nothing
  /\ thread[t].pc = "resting"
  /\ holder' = t
  /\ thread' = [thread EXCEPT ![t] =
       [pc |-> IF op = "load" THEN "load" ELSE "serialize", op |-> op,
        creds |-> creds, langs |-> langs]]
  /\ UNCHANGED <<storeMemory, storeFiles, serving, diverged, faults>>

StoreCredentials(t, u, v) ==
  /\ serving
  /\ Engage(t, "credentials", [credentials EXCEPT ![u] = v], NoOne)

RemoveCredentials(t, u) ==
  /\ serving
  /\ credentials[u] # Nothing
  /\ Engage(t, "credentials", [credentials EXCEPT ![u] = Nothing], NoOne)

SetLanguage(t, u, l) ==
  /\ serving
  /\ Engage(t, "language", credentials, [languages EXCEPT ![u] = l])

InitializeStore(t) == ~serving /\ Engage(t, "load", NoOne, NoOne)

-----------------------------------------------------------------------------
(* Loading, with recovery.                                                 *)

LoadMain(t) ==
  /\ thread[t].pc = "load"
  /\ \/ /\ main \in Document
        /\ languages' = main.languages
        /\ thread' = [thread EXCEPT ![t].pc = "done",
                                    ![t].creds = main.credentials]
        /\ diverged' = FALSE
        /\ UNCHANGED main
     \/ /\ main = Nothing
        /\ Step(t, "previous")
        /\ UNCHANGED <<main, languages, diverged>>
     \/ /\ main = Unreadable
        /\ main' \in {Nothing, Unreadable}    \* moved aside, if possible
        /\ Step(t, "previous")
        /\ UNCHANGED <<languages, diverged>>
  /\ UNCHANGED <<credentials, prev, holder, serving, faults>>

\* What is read from the previous copy is written to the file again.
LoadPrevious(t) ==
  /\ thread[t].pc = "previous"
  /\ \/ /\ prev \in Document
        /\ languages' = prev.languages
        /\ thread' = [thread EXCEPT ![t].pc = "serialize",
                                    ![t].creds = prev.credentials]
     \/ prev \notin Document /\ Step(t, "done") /\ UNCHANGED languages
  /\ UNCHANGED <<credentials, storeFiles, holder, serving, diverged, faults>>

-----------------------------------------------------------------------------
(* _write_store, in the thread.                                            *)

\* Checking the document by parsing it sets the languages in memory.
Serialize(t) ==
  LET langs == IF thread[t].op = "language" THEN thread[t].langs ELSE languages
  IN  /\ thread[t].pc = "serialize"
      /\ \/ /\ languages' = langs
            /\ thread' = [thread EXCEPT ![t].pc = "copy", ![t].langs = langs]
         \/ Step(t, "failed") /\ UNCHANGED languages      \* too large
      /\ UNCHANGED <<credentials, storeFiles, holder, serving, diverged, faults>>

\* The file, whatever is in it, becomes the previous copy; errors are ignored.
CopyPrevious(t) ==
  /\ thread[t].pc = "copy"
  /\ prev' \in IF main = Nothing THEN {prev} ELSE {prev, main}
  /\ Step(t, "replace")
  /\ UNCHANGED <<storeMemory, main, holder, serving, diverged, faults>>

\* fsync and rename, or an OSError that leaves the file as it was.
ReplaceMain(t) ==
  /\ thread[t].pc = "replace"
  /\ \/ /\ main' = [credentials |-> thread[t].creds, languages |-> thread[t].langs]
        /\ diverged' = (holder # t)
        /\ Step(t, "done")
     \/ Step(t, "failed") /\ UNCHANGED <<main, diverged>>
  /\ UNCHANGED <<storeMemory, prev, holder, serving, faults>>

\* Mutant of Adopted: memory follows the write whether or not it succeeded.
AlwaysAdopted(t) == TRUE
\* A document that could not be written is dropped; one that was loaded is
\* used even if writing it back failed.
Adopted(t) == thread[t].pc = "done" \/ thread[t].op = "load"

\* The thread ends and its caller, if there still is one, goes on.
EndWrite(t) ==
  /\ thread[t].pc \in {"done", "failed"}
  /\ thread' = [thread EXCEPT ![t] = Resting]
  /\ \/ /\ holder = t
        /\ holder' = Nothing
        /\ serving' = TRUE
        /\ credentials' = IF Adopted(t) /\ thread[t].op # "language"
                            THEN thread[t].creds ELSE credentials
        /\ languages' = IF Adopted(t) /\ thread[t].op = "language"
                          THEN thread[t].langs ELSE languages
     \/ holder # t /\ UNCHANGED <<holder, serving, storeMemory>>
  /\ UNCHANGED <<storeFiles, diverged, faults>>

-----------------------------------------------------------------------------
(* Cancellation, crash, damage.                                            *)

\* The handler's deadline passes while it waits for the thread.
CancelWrite(t) ==
  /\ serving
  /\ holder = t
  /\ cancelled < MaxCancelled
  /\ cancelled' = cancelled + 1
  /\ holder' = Nothing
  /\ thread' = IF thread[t].pc = "serialize"    \* it may not have begun
                 THEN [thread EXCEPT ![t] = Resting] ELSE thread
  /\ diverged' = (diverged \/ thread[t].pc = "done")
  /\ UNCHANGED <<storeMemory, storeFiles, serving, damage>>

CrashStore ==
  /\ holder # Nothing \/ serving
  /\ serving' = FALSE
  /\ holder' = Nothing
  /\ thread' = [t \in Threads |-> Resting]
  /\ credentials' = NoOne /\ languages' = NoOne
  /\ UNCHANGED <<storeFiles, diverged, faults>>

DamageMain ==
  /\ main \in Document
  /\ damage < MaxDamage
  /\ damage' = damage + 1
  /\ main' = Unreadable
  /\ diverged' = TRUE
  /\ UNCHANGED <<storeMemory, prev, holder, thread, serving, cancelled>>

-----------------------------------------------------------------------------

UserStoreNext ==
  \/ \E t \in Threads :
       \/ InitializeStore(t) \/ LoadMain(t) \/ LoadPrevious(t)
       \/ Serialize(t) \/ CopyPrevious(t) \/ ReplaceMain(t) \/ EndWrite(t)
       \/ CancelWrite(t)
       \/ \E u \in Users :
            \/ RemoveCredentials(t, u)
            \/ \E v \in Tokens : StoreCredentials(t, u, v)
            \/ \E l \in Languages : SetLanguage(t, u, l)
  \/ CrashStore \/ DamageMain

UserStoreSpec == UserStoreInit /\ [][UserStoreNext]_userStoreVars

-----------------------------------------------------------------------------
(* Properties.                                                             *)

\* What the next start would load.
Reloaded == IF main \in Document THEN main.credentials
            ELSE IF prev \in Document THEN prev.credentials
            ELSE NoOne

InFlight(u) == {thread[t].creds[u] : t \in {s \in Threads :
                  thread[s].op = "credentials" /\ thread[s].pc # "resting"}}

\* If the process dies now, each user's credentials are found as memory has
\* them, or as a write in progress leaves them, unless the file was damaged or
\* last written by a thread whose caller had given up.
RestartFindsCredentials ==
  serving /\ ~diverged =>
    \A u \in Users : Reloaded[u] \in {credentials[u]} \cup InFlight(u)

\* "memory is updated only after a complete validated snapshot is persisted"
\* (user_store.py:3): with no write in progress, no cancelled one and no
\* damage, the languages in memory are those of the file.
LanguagesAreOnDisk ==
  serving /\ holder = Nothing /\ cancelled = 0 /\ damage = 0 =>
    languages = IF main \in Document THEN main.languages ELSE NoOne

\* "Preserve the last good primary as .prev" (user_store.py:363): the
\* previous copy can always be read.
PreviousIsGood == prev # Unreadable

=============================================================================
