SPECIFICATION Spec
CONSTANTS
  Run = {r1}
  Section <- MCSection
  Threshold <- MCThreshold
  Ttl <- MCTtl
  Gap <- MCGap
  Cooldown = 2
  MaxRetries = 1
  MaxLag = 1
  MaxOutages = 1
  MaxFailures = 0

CHECK_DEADLOCK FALSE
PROPERTY QuoteOutageIsTold
