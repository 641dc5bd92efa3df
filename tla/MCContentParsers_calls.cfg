SPECIFICATION Spec
CONSTANTS
    Answers <- MCAnswers
    Segments <- MCCalls
    MaxSegments = 1
    Functions <- MCFunctions
    Parameters <- MCParameters
    JsonCalls <- MCJsonCalls
INVARIANTS CallsAccurate
CHECK_DEADLOCK FALSE
