SPECIFICATION ConversationSpec
CONSTANT Identities = {"known"}
CHECK_DEADLOCK FALSE
PROPERTY DraftTextReachesDraft
