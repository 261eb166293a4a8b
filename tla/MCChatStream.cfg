SPECIFICATION Spec
CONSTANTS
    Letters = {"a", "space", "executing"}
    Arguments = {"a", "executing"}
    Chunks <- MCChunks
    Tools = {scale}
    Sessions = {c1, c2}
    MaxTurns = 2
    MaxCalls = 2
    MaxEvents = 5
    None = None
INVARIANTS TypeOK TypewriterRuns BlocksPointHome ApprovalsShown
PROPERTIES KeepsPromise AnswerEnds
CHECK_DEADLOCK FALSE
