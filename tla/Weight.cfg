SPECIFICATION Spec
CONSTANTS
    Tasks = {1, 2, 3, 4}
    Weights = {0, 1, 2}
    Word = 8
INVARIANTS TypeOK AnswersAreRight
CHECK_DEADLOCK FALSE
