SPECIFICATION AllSpec
CONSTANTS
  c1 = c1
  c2 = c2
  Clients <- MCClients
  Domains <- OneDomain
  Entries <- WithWildcard
  Patterns <- ExactAndAny
  Headers = {h1}
  NoHeaders = none
  Threads = {"t1", "t2"}
  MaxCalls = 3
  MaxGrants = 2
  MaxAge = 2
SYMMETRY Symmetry
INVARIANTS
  DenialHolds
  AdmissionLinearizable
  CredentialsReadAfterVerdict
  GrantKept
PROPERTIES
  RefreshHeals
