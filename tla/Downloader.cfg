SPECIFICATION Spec
CONSTANTS
    RequestLen = 5
    AnswerLen = 6
INVARIANTS
    EndsForAReason
PROPERTIES
    EndsUnlessBroken
CHECK_DEADLOCK FALSE
