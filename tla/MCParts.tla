------------------------------ MODULE MCParts ------------------------------
(***************************************************************************)
(* The components that stand alone, checked in one run: they share no      *)
(* state, so a behaviour is one of the component that "focus" names, while *)
(* the others rest in an initial state.                                    *)
(***************************************************************************)
EXTENDS ResourceLimiter, PublishedDraft, Intake, UserStore, RulesStore,
        Migrations, Conversation, Connectivity, Lifecycle, GeminiGateway,
        Retention

VARIABLE focus

partsVars == <<focus, limiterVars, publishedVars, intakeVars, userStoreVars,
               rulesVars, migrationVars, conversationVars, connectivityVars,
               lifecycleVars, geminiVars, retentionVars>>

\* A release ships the migrations of an earlier one and its own, and two may
\* differ in what they ship next.
ReleasesShipped == {<<"initial">>, <<"initial", "indexes">>, <<"initial", "cards">>,
                    <<"initial", "indexes", "cards">>}

AnyOf(S) == CHOOSE x \in S : TRUE

\* Of more calls than actors two are of one actor: of which one, and which two
\* they are, makes no difference.
TwoCalls == AnyOf({S \in SUBSET Calls : Cardinality(S) = 2})

PartsInit ==
  /\ focus \in {"limiter", "published", "intake", "users",
               "rules", "migrations", "conversation", "connectivity",
               "lifecycle", "gemini", "retention"}
  /\ LimiterInit
  /\ \A c \in IF focus = "limiter" THEN TwoCalls ELSE Calls :
       actor[c] = AnyOf(Actors)
  /\ PublishedInit
  /\ focus # "published" => remote = AnyOf(Documents)
  /\ IntakeInit
  /\ UserStoreInit
  /\ RulesInit
  /\ focus # "rules" => primary = NoRules /\ backup = NoRules
  /\ MigrationsInit
  /\ focus # "migrations" => release = [p \in Processes |-> AnyOf(Releases)]
  /\ ConversationInit
  /\ focus # "conversation" => jobQueue
  /\ ConnectivityInit
  /\ focus # "connectivity" => enabled /\ allowStart /\ tunnel = "down"
  /\ LifecycleInit
  /\ focus # "lifecycle" => concurrent
  /\ GeminiInit
  /\ RetentionInit
  /\ focus # "retention" => \A d \in Cases : ~stored[d].deadline

PartsNext ==
  \/ focus = "limiter" /\ LimiterNext
     /\ UNCHANGED <<focus, publishedVars, intakeVars, userStoreVars,
                    rulesVars, migrationVars, conversationVars, connectivityVars,
                    lifecycleVars, geminiVars, retentionVars>>
  \/ focus = "published" /\ PublishedNext
     /\ UNCHANGED <<focus, limiterVars, intakeVars, userStoreVars,
                    rulesVars, migrationVars, conversationVars, connectivityVars,
                    lifecycleVars, geminiVars, retentionVars>>
  \/ focus = "intake" /\ IntakeNext
     /\ UNCHANGED <<focus, limiterVars, publishedVars, userStoreVars,
                    rulesVars, migrationVars, conversationVars, connectivityVars,
                    lifecycleVars, geminiVars, retentionVars>>
  \/ focus = "users" /\ UserStoreNext
     /\ UNCHANGED <<focus, limiterVars, publishedVars, intakeVars,
                    rulesVars, migrationVars, conversationVars, connectivityVars,
                    lifecycleVars, geminiVars, retentionVars>>
  \/ focus = "rules" /\ RulesNext
     /\ UNCHANGED <<focus, limiterVars, publishedVars, intakeVars,
                    userStoreVars, migrationVars, conversationVars, connectivityVars,
                    lifecycleVars, geminiVars, retentionVars>>
  \/ focus = "migrations" /\ MigrationsNext
     /\ UNCHANGED <<focus, limiterVars, publishedVars, intakeVars,
                    userStoreVars, rulesVars, conversationVars, connectivityVars,
                    lifecycleVars, geminiVars, retentionVars>>
  \/ focus = "conversation" /\ ConversationNext
     /\ UNCHANGED <<focus, limiterVars, publishedVars, intakeVars,
                    userStoreVars, rulesVars, migrationVars, connectivityVars,
                    lifecycleVars, geminiVars, retentionVars>>
  \/ focus = "connectivity" /\ ConnectivityNext
     /\ UNCHANGED <<focus, limiterVars, publishedVars, intakeVars,
                    userStoreVars, rulesVars, migrationVars, conversationVars,
                    lifecycleVars, geminiVars, retentionVars>>
  \/ focus = "lifecycle" /\ LifecycleNext
     /\ UNCHANGED <<focus, limiterVars, publishedVars, intakeVars,
                    userStoreVars, rulesVars, migrationVars, conversationVars,
                    connectivityVars, geminiVars, retentionVars>>
  \/ focus = "gemini" /\ GeminiNext
     /\ UNCHANGED <<focus, limiterVars, publishedVars, intakeVars,
                    userStoreVars, rulesVars, migrationVars, conversationVars,
                    connectivityVars, lifecycleVars, retentionVars>>
  \/ focus = "retention" /\ RetentionNext
     /\ UNCHANGED <<focus, limiterVars, publishedVars, intakeVars, userStoreVars,
                    rulesVars, migrationVars, conversationVars,
                    connectivityVars, lifecycleVars, geminiVars>>

PartsSpec == PartsInit /\ [][PartsNext]_partsVars

\* Every component keeps to its types.
TypesOK ==
  /\ LimiterTypeOK
  /\ PublishedTypeOK
  /\ IntakeTypeOK
  /\ UserStoreTypeOK
  /\ RulesTypeOK
  /\ MigrationsTypeOK
  /\ ConversationTypeOK
  /\ ConnectivityTypeOK
  /\ LifecycleTypeOK
  /\ GeminiTypeOK
  /\ RetentionTypeOK

=============================================================================
