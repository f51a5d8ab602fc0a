SPECIFICATION Spec
CONSTANTS
  Run = {r1, r2}
  Section <- MCSection
  Threshold <- MCThreshold
  Ttl <- MCTtl
  Gap <- MCGap
  Cooldown = 2
  MaxRetries = 1
  MaxLag = 1
  MaxOutages = 2
  MaxFailures = 1
INVARIANTS TypeOK NoFalseAlarm LastMessageTells
CHECK_DEADLOCK FALSE
PROPERTY OutageIsToldIfSeen
