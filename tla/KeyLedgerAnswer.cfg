SPECIFICATION KeySpec
CONSTANTS
    KeyRequests = {q1, q2}
    MaxKeys = 2
    MaxKeyCalls = 3
INVARIANT AnswerIsBalance
CHECK_DEADLOCK FALSE
