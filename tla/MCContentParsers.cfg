SPECIFICATION Spec
CONSTANTS
    Answers <- MCAnswers
    Segments <- MCSegments
    MaxSegments = 3
    Functions <- MCFunctions
    Parameters <- MCParameters
    JsonCalls <- MCJsonCalls
INVARIANTS TypeOK ThinkingSplit NothingInvented ChunksDoNotMatter
CHECK_DEADLOCK FALSE
