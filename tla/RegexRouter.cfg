SPECIFICATION RSpec
CONSTANTS
    Phrases = {0, 1, 2, 3, 4}
    Length <- MCLength
    Distance <- MCDistance
    FastPaths = {0}
    Master <- MCMaster
    Answers <- MCAnswers
    MaxItems = 3
    MaxMacros = 1
INVARIANTS
    LookupIsNearest
    LearnedIsKept
