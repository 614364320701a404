SPECIFICATION Spec
CONSTANTS
  MaxReq = 2
  QueueBound = 2
INVARIANT AnswerIsOwn
