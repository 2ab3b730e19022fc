\* Any two calls in a row, one restart of the host anywhere.
CONSTANTS
    Calls <- DriverCalls
    Answers <- Responses
    MinHalf = 2
    MaxHalf = 3
    Gap = 4
    MaxCalls = 2
    MaxRestarts = 1
SPECIFICATION Spec
PROPERTIES
    CallsArrive
    ReceivedAsSent
