SPECIFICATION Spec
CONSTANTS
  c1 = c1
  c2 = c2
  Clients <- MCClients
  Domains <- OneDomain
  Entries <- WithWildcard
  Patterns <- NoPatterns
  Headers = {h1}
  NoHeaders = none
SYMMETRY Symmetry
INVARIANT DenyOverridesAllow
