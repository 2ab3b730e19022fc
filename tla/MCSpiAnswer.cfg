\* One query: the command and the NOP that is to fetch the answer.
CONSTANTS
    Calls <- Reads
    Answers <- Responses
    MinHalf = 2
    MaxHalf = 3
    Gap = 4
    MaxCalls = 1
    MaxRestarts = 0
SPECIFICATION Spec
INVARIANTS
    AnswerIsRead
