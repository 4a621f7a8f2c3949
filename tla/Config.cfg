SPECIFICATION ConfigSpec
CONSTANTS
    Models = {"m1"}
    Fields = {"a", "b"}
    Code = "d"
    Plain = {"d", "x"}
    Ref = "ref"
    Secret = "secret"
    NoVal = "none"
    Nobody = "nobody"
    Valid <- MCValid
    EditKeys <- MCEditKeys
    EditVals = {"x", "ref"}
    SetKeys <- MCSetKeys
    Overlap = FALSE
    EditBound = 2
    CallBound = 3
CHECK_DEADLOCK FALSE
INVARIANTS OriginTruthful FileHoldsNoDefaults
PROPERTIES  EditReaches
