SPECIFICATION Spec
CONSTANTS
  BucketDuration = 2
  Events <- MCEvents
  Percent = 50
  InCap = 2
  MaxEvents = 2
  MaxTime = 5
INVARIANTS
  TypeOK
  EventsKept
  BucketsExplained
  WindowsTile
  PromptBuckets
  BufferedCounted
