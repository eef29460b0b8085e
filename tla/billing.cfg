\* One address at either provider; an attempt that fails or is given up.
SPECIFICATION FairSpec
CONSTANTS
  Clients = {c1}
  Attempts = {d1, d2}
  Limit <- MCLimit
  Title <- MCTitle
  Products <- MCProducts
  MaxQueue = 2
  MaxFaults = 1
  MaxUsed = 3
  None = None
INVARIANTS TypeOK RowFollowsProvider QuietRowCurrent
PROPERTIES PaidAccountOpens PaidQuotaReturns
