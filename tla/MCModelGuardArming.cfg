CONSTANTS
  r1 = r1
  r2 = r2
  r3 = r3
  r4 = r4
  r5 = r5
  leader = leader
  worker = worker
  NoRequest = NoRequest
  Requests <- MCRequests
  Roles <- MCRoles
  RoleOf <- MCRoleOf
  Reservation <- MCReservation
  Usages <- MCUsages
  MaxTokens <- MCMaxTokens
  MaxRequestsPerRole <- MCPerRole
  MaxRequests = 3
  MaxConcurrency = 2
SPECIFICATION FairSpec
PROPERTY UncertainPreventsArming
