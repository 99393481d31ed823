--------------------------- MODULE GeminiGateway ---------------------------
(***************************************************************************)
(* An analysis asks one model after another for a template, from the one   *)
(* that answered last (infrastructure/gemini_gateway.py), under a single   *)
(* deadline.  Analyses of several drafts run at a time and share only that *)
(* preference.  A failure is automatic (429, a timeout, 5xx), which is     *)
(* retried with the next model, or final.                                  *)
(***************************************************************************)
EXTENDS Integers, FiniteSets

CONSTANTS Analyses, Models, MaxRetries   \* models are 0 .. Models - 1

ASSUME GeminiAssumption == Models \in Nat \ {0} /\ MaxRetries \in Nat

VARIABLES
  preferred,   \* the model that answered last
  run,         \* each analysis: where it waits, the preference it began with,
               \* and its attempt
  asks         \* history: how often each analysis asked each model

geminiVars == <<preferred, run, asks>>

ModelNumbers == 0 .. Models - 1

GeminiTypeOK ==
  /\ preferred \in ModelNumbers
  /\ run \in [Analyses -> [pc : {"new", "model", "pause", "prefer", "template", "error"},
                           from : ModelNumbers, offset : 0 .. MaxRetries,
                           model : ModelNumbers]]
  /\ asks \in [Analyses -> [ModelNumbers -> Nat]]

GeminiInit ==
  /\ preferred = 0
  /\ run = [a \in Analyses |-> [pc |-> "new", from |-> 0, offset |-> 0, model |-> 0]]
  /\ asks = [a \in Analyses |-> [m \in ModelNumbers |-> 0]]

-----------------------------------------------------------------------------

RunsAt(a, pc) == run[a].pc = pc
RunTo(a, pc) == run' = [run EXCEPT ![a].pc = pc]

Attempts == IF Models < MaxRetries + 1 THEN Models ELSE MaxRetries + 1

\* Mutant of ModelOf: the preference is read again for every attempt.
ModelOfNow(a, from, offset) == (preferred + offset) % Models
ModelOf(a, from, offset) == (from + offset) % Models

Ask(a, from, offset) ==
  LET m == ModelOf(a, from, offset)
  IN  /\ run' = [run EXCEPT ![a] = [pc |-> "model", from |-> from,
                                    offset |-> offset, model |-> m]]
      /\ asks' = [asks EXCEPT ![a][m] = @ + 1]
      /\ UNCHANGED preferred

\* A prompt past its budget is refused before; that changes nothing.
AskFirstModel(a) == RunsAt(a, "new") /\ Ask(a, preferred, 0)

ModelAnswers(a) ==
  /\ RunsAt(a, "model")
  /\ RunTo(a, "prefer")
  /\ UNCHANGED <<preferred, asks>>

\* A final failure, or an answer that does not parse, ends the analysis.
ModelFails(a) ==
  /\ RunsAt(a, "model")
  /\ \/ RunTo(a, "error")
     \/ run[a].offset + 1 < Attempts /\ RunTo(a, "pause")
  /\ UNCHANGED <<preferred, asks>>

AskNextModel(a) == RunsAt(a, "pause") /\ Ask(a, run[a].from, run[a].offset + 1)

PreferModel(a) ==
  /\ RunsAt(a, "prefer")
  /\ preferred' = run[a].model
  /\ RunTo(a, "template")
  /\ UNCHANGED asks

AnalysisTimesOut(a) ==
  /\ run[a].pc \in {"model", "pause", "prefer"}
  /\ RunTo(a, "error")
  /\ UNCHANGED <<preferred, asks>>

GeminiNext ==
  \E a \in Analyses :
    \/ AskFirstModel(a) \/ ModelAnswers(a) \/ ModelFails(a) \/ AskNextModel(a)
    \/ PreferModel(a) \/ AnalysisTimesOut(a)

GeminiSpec == GeminiInit /\ [][GeminiNext]_geminiVars

-----------------------------------------------------------------------------
(* Properties.                                                             *)

\* An analysis asks no model twice, whatever other analyses make the preferred
\* one meanwhile: a retry always goes to a model that has not failed it.
NoModelIsAskedTwice == \A a \in Analyses, m \in ModelNumbers : asks[a][m] <= 1

=============================================================================
