\* Two providers, one of them remote; the second failure quarantines.
SPECIFICATION FairSpec
CONSTANTS
  anthropic = anthropic
  local = local
  s1 = s1
  Order <- MCOrder
  Local <- MCLocal
  Scans <- OneScan
  MaxFailures = 2
  Forced <- MCForced
INVARIANTS TypeOK ThresholdQuarantines
PROPERTIES OpensWhenDue Settles
