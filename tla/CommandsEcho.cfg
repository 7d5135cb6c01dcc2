SPECIFICATION Spec
CONSTANTS
    MaxQueue = 1
    MaxPipe = 2
    MaxAsked = 1
    Sent <- PhoneQuery
INVARIANT ResponsesAreNotExecuted
