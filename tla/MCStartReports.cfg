SPECIFICATION FairSpec
CONSTANTS
    Declared <- MCDeclared
    Needs <- MCNeeds
    Always = "always"
    Absent = Absent
    r1 = r1
    r2 = r2
    Readers = {r1, r2}
INVARIANTS
    TypeOK
    EachReportIsItsOwn
    AnswersCanBeRetaken
PROPERTIES
    EveryGetIsAnswered
    ImplementsPromise
