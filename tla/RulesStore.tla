----------------------------- MODULE RulesStore -----------------------------
(***************************************************************************)
(* The runtime rules (rules.py): a file anyone may edit, its previous      *)
(* version, and the rules in memory.  A call holds the store's lock over   *)
(* its reads and writes, each made in a thread.                            *)
(*                                                                         *)
(* A signature changes with every write, so only whether the file still    *)
(* has the observed one is kept.  Texts that fail validation, and an       *)
(* absent file, are NoRules.                                               *)
(***************************************************************************)
EXTENDS Naturals

CONSTANTS RuleTexts, NoRules,
          MaxStray        \* bound on the writes that outlive their call

ASSUME RulesAssumption == NoRules \notin RuleTexts /\ MaxStray \in Nat

VARIABLES
  primary, backup,  \* the two files
  current,          \* in memory; NoRules before initialize
  observed,         \* the file has the signature last observed
  call,             \* the call that holds the lock, and the text it has read
                    \* or was given
  stray,            \* writes whose call was cancelled
  strayed,          \* how many there were
  missed            \* history: the observed file was not taken over, for one
                    \* of the reasons NoChangeIsMissed names

rulesFiles == <<primary, backup>>
rulesVars == <<rulesFiles, current, observed, call, stray, strayed, missed>>

Idle == [op |-> "none", text |-> NoRules]

RulesTypeOK ==
  /\ primary \in RuleTexts \cup {NoRules} /\ backup \in RuleTexts \cup {NoRules}
  /\ current \in RuleTexts \cup {NoRules}
  /\ observed \in BOOLEAN /\ missed \in BOOLEAN
  /\ call \in [op : {"none", "init", "init_backup", "init_restore", "stat",
                     "read", "adopt", "replace", "replace_primary", "reread",
                     "restore", "restat"},
               text : RuleTexts \cup {NoRules}]
  /\ stray \subseteq ({"primary", "backup"} \X RuleTexts)
  /\ strayed \in 0 .. MaxStray

RulesInit ==
  /\ primary \in RuleTexts \cup {NoRules} /\ backup \in RuleTexts \cup {NoRules}
  /\ current = NoRules /\ observed = FALSE /\ missed = FALSE
  /\ call = Idle /\ stray = {} /\ strayed = 0

-----------------------------------------------------------------------------

Continue(op, text) == call' = [op |-> op, text |-> text]
Return == call' = Idle

\* _atomic_write succeeds: the file changes, and so does its signature.
WritePrimary(text) ==
  primary' = text /\ observed' = FALSE /\ missed' = FALSE /\ UNCHANGED backup
WriteBackup(text) == backup' = text /\ UNCHANGED <<primary, observed, missed>>

\* Someone saves, spoils or deletes the file.
EditFile(text) ==
  /\ text # primary
  /\ WritePrimary(text)
  /\ UNCHANGED <<current, call, stray, strayed>>

\* The signature is taken: a file that is not the one in memory is missed.
Observe == observed' = TRUE /\ missed' = (primary # current)

-----------------------------------------------------------------------------
(* initialize                                                              *)

InitializeRules ==
  /\ call = Idle /\ current = NoRules
  /\ Continue("init", NoRules)
  /\ UNCHANGED <<rulesFiles, current, observed, stray, strayed, missed>>

\* Reading a file may fail whatever is in it.
ReadAtStart ==
  /\ call.op = "init"
  /\ \/ primary # NoRules /\ Continue("init_backup", primary)
     \/ backup # NoRules /\ Continue("init_restore", backup)
     \/ Return
  /\ UNCHANGED <<rulesFiles, current, observed, stray, strayed, missed>>

BackupAtStart ==
  /\ call.op = "init_backup"
  /\ \/ /\ WriteBackup(call.text)
        /\ current' = call.text
        /\ Continue("restat", NoRules)
     \/ Return /\ UNCHANGED <<rulesFiles, observed, missed, current>>
  /\ UNCHANGED <<stray, strayed>>

RestoreAtStart ==
  /\ call.op = "init_restore"
  /\ \/ WritePrimary(call.text)
     \/ UNCHANGED <<rulesFiles, observed, missed>>
  /\ current' = call.text
  /\ Continue("restat", NoRules)
  /\ UNCHANGED <<stray, strayed>>

\* The last step of initialize and of replace.
Restat ==
  /\ call.op = "restat"
  /\ Observe
  /\ Return
  /\ UNCHANGED <<rulesFiles, current, stray, strayed>>

-----------------------------------------------------------------------------
(* current_rules                                                           *)

AskForRules ==
  /\ call = Idle /\ current # NoRules
  /\ Continue("stat", NoRules)
  /\ UNCHANGED <<rulesFiles, current, observed, stray, strayed, missed>>

CompareSignature ==
  /\ call.op = "stat"
  /\ \/ observed /\ Return /\ UNCHANGED observed
     \/ ~observed /\ observed' = TRUE /\ Continue("read", NoRules)
  /\ UNCHANGED <<rulesFiles, current, stray, strayed, missed>>

\* The rules in memory stay when the file cannot be read.
ReadChanged ==
  /\ call.op = "read"
  /\ \/ /\ primary # NoRules
        /\ IF primary = current THEN Return ELSE Continue("adopt", primary)
        /\ UNCHANGED missed
     \/ /\ Return
        /\ missed' = (observed /\ primary # current)
  /\ UNCHANGED <<rulesFiles, current, observed, stray, strayed>>

\* Mutant of Adopt: the signature is taken after the file was read.
AdoptAndObserve ==
  /\ call.op = "adopt"
  /\ backup' = current
  /\ current' = call.text
  /\ observed' = TRUE
  /\ Return
  /\ UNCHANGED <<primary, stray, strayed, missed>>

\* The old rules become the previous version; if they cannot be written the
\* call raises and the new ones are not used.
Adopt ==
  /\ call.op = "adopt"
  /\ \/ WriteBackup(current) /\ current' = call.text
     \/ /\ missed' = observed
        /\ UNCHANGED <<rulesFiles, observed, current>>
  /\ Return
  /\ UNCHANGED <<stray, strayed>>

-----------------------------------------------------------------------------
(* replace                                                                 *)

ReplaceRules(text) ==
  /\ call = Idle /\ current # NoRules
  /\ Continue("replace", text)
  /\ UNCHANGED <<rulesFiles, current, observed, stray, strayed, missed>>

\* A write, after which the call goes on at op; or it fails.
BackupReplaced ==
  /\ call.op = "replace"
  /\ \/ WriteBackup(current) /\ Continue("replace_primary", call.text)
     \/ Continue("restore", NoRules) /\ UNCHANGED <<rulesFiles, observed, missed>>
  /\ UNCHANGED <<current, stray, strayed>>

WriteReplacement ==
  /\ call.op = "replace_primary"
  /\ \/ WritePrimary(call.text) /\ Continue("reread", NoRules)
     \/ Continue("restore", NoRules) /\ UNCHANGED <<rulesFiles, observed, missed>>
  /\ UNCHANGED <<current, stray, strayed>>

RereadReplacement ==
  /\ call.op = "reread"
  /\ \/ primary # NoRules /\ current' = primary /\ Continue("restat", NoRules)
     \/ Continue("restore", NoRules) /\ UNCHANGED current
  /\ UNCHANGED <<rulesFiles, observed, stray, strayed, missed>>

RestorePrimary ==
  /\ call.op = "restore"
  /\ \/ WritePrimary(current)
     \/ UNCHANGED <<rulesFiles, observed, missed>>
  /\ Return
  /\ UNCHANGED <<current, stray, strayed>>

-----------------------------------------------------------------------------
(* The caller of current_rules or replace is cancelled: the lock is given   *)
(* back, a thread that was writing goes on.                                 *)

WriteOf == CASE call.op = "adopt" -> {<<"backup", current>>}
             [] call.op = "replace" -> {<<"backup", current>>}
             [] call.op = "replace_primary" -> {<<"primary", call.text>>}
             [] call.op = "restore" -> {<<"primary", current>>}
             [] OTHER -> {}

CancelRules ==
  /\ call # Idle /\ current # NoRules
  /\ strayed < MaxStray
  /\ strayed' = strayed + 1
  /\ stray' \in {stray, stray \cup WriteOf}
  /\ missed' = (missed \/ (call.op \in {"read", "adopt"} /\ observed
                             /\ primary # current))
  /\ Return
  /\ UNCHANGED <<rulesFiles, current, observed>>

StrayWriteLands ==
  /\ \E w \in stray :
       /\ stray' = stray \ {w}
       /\ IF w[1] = "primary" THEN WritePrimary(w[2]) ELSE WriteBackup(w[2])
  /\ UNCHANGED <<current, call, strayed>>

RestartRules ==
  /\ current' = NoRules /\ observed' = FALSE /\ missed' = FALSE
  /\ call' = Idle /\ stray' = {}
  /\ UNCHANGED <<rulesFiles, strayed>>

-----------------------------------------------------------------------------

RulesNext ==
  \/ InitializeRules \/ ReadAtStart \/ BackupAtStart \/ RestoreAtStart \/ Restat
  \/ AskForRules \/ CompareSignature \/ ReadChanged \/ Adopt
  \/ BackupReplaced \/ WriteReplacement \/ RereadReplacement \/ RestorePrimary
  \/ CancelRules \/ StrayWriteLands \/ RestartRules
  \/ \E t \in RuleTexts : ReplaceRules(t)
  \/ \E t \in RuleTexts \cup {NoRules} : EditFile(t)

RulesSpec == RulesInit /\ [][RulesNext]_rulesVars

-----------------------------------------------------------------------------
(* Properties.                                                             *)

\* When no call is in progress, a readable file whose signature was observed
\* holds the rules in use: an edit between any two steps is noticed by a later
\* call.  The exceptions are a call that failed or was cancelled after it
\* observed the signature, and an edit between the last read of initialize or
\* replace and its signature.
NoChangeIsMissed ==
  call = Idle /\ current # NoRules /\ observed /\ primary # NoRules /\ ~missed
    => current = primary

=============================================================================
