\* Every order of calls, periods that fit an int and periods that do not.
SPECIFICATION Spec
CONSTANTS
    INT_MAX = 7
    NoPeriod = NoPeriod
    Version <- OldAndNew
    global_to_full <- ThreeSensors
    Periods <- ShortAndLong
INVARIANTS
    TypeOK
    RateAsAsked
    SuccessIsTrue
