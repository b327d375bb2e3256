CONSTANTS
    cloexec = TRUE
    title = TRUE
    MaxLines = 5
    MaxText = 2
SPECIFICATION FairSpec
INVARIANTS TypeOK AnswersAreOwn ValuesComeBack ChildIsReaped
PROPERTIES CommandsReturn ConversationsEnd
CHECK_DEADLOCK FALSE
