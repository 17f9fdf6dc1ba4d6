SPECIFICATION FairStreamSpec
CONSTANTS
  Events = {e1}
  ReadCount = 2
  MaxRetryAttempts = 1
  MaxFailures = 3
INVARIANTS NothingForgotten HandledOnce
PROPERTIES Settles
