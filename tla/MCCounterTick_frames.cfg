SPECIFICATION LiveSpec
CONSTANTS
  r1 = r1
  r2 = r2
  Replicas <- MCReplicas
  Milestones <- MCMilestones
  FaultKinds = {"produce", "redis", "resend", "crash", "loss"}
  MaxFaults = 2
  MaxTotal = 2
CHECK_DEADLOCK FALSE
INVARIANTS
  TypeOK
  MilestoneOnce
PROPERTIES
  CounterFirst
  FramesConverge
  MilestoneAnnounced
