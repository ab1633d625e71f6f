\* One event fits the queue, a message has two frames at most.
SPECIFICATION FairSpec
CONSTANTS
  Modes = {"threads", "tasks"}
  QueueSize = 1
  MaxSize = 2
  MaxEvents = 3
INVARIANTS DeliveredInOrder LeftClean
PROPERTIES NothingAfterClose ExitEnds ReceiveAnsweredInTasks
