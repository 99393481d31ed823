SPECIFICATION ConversationSpec
CONSTANT Identities = {"empty"}
CHECK_DEADLOCK FALSE
INVARIANTS AcceptedPatIsBound
