SPECIFICATION Spec
CONSTANTS
  Hosts <- TwoHosts
  Buckets <- MCBuckets
  Capacity = 3
  SpikeMultiplier <- TwoAndAHalf
  LatencyMultiplier <- TwoAndAHalf
  ErrorRateThreshold <- OneIn200
  HostFloodFraction <- TwoFifths
  SilenceThreshold = 2
  MinBaselineSamples = 2
  AlertCooldown = 2
  MaxBuckets = 5
  MaxTime = 2
INVARIANTS
  TypeOK
  CooldownKept
  NoFalseAlarm
  NothingMissed
