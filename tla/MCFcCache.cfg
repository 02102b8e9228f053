SPECIFICATION Spec
CONSTANTS
    Topics = {"pos", "pack"}
    Words = {w1, w2}
    Getters <- MCGetters
    Guarded = {"pack"}
    MaxSample = 2
INVARIANTS
    TypeOK
    RegularRead
    AnswersMoveForward
CHECK_DEADLOCK FALSE
