\* One call with the code's own limits.
SPECIFICATION Spec
CONSTANTS
  MaxRetries = 2
  MaxRedirects = 5
  Refusals <- MCRefusals
INVARIANTS OneWaitPerRetry FinalIsFinal
PROPERTIES ImplementsGet
\* The call returns.
CHECK_DEADLOCK FALSE
