SPECIFICATION Spec
CONSTANTS
  Capacity = 3
  Bucket = {1, 2}
  Zero = 0
  Threads <- TwoThreads
  Pusher = "analyzer"
INVARIANT
  IInv
PROPERTY
  SlidingSpec
