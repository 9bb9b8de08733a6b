SPECIFICATION FairSpec
CONSTANTS
  Host = {h1, h2}
  Admin = {h1, h2}
  Front = {}
  Nobody = Nobody
  Gone = Gone
  Plugin = {p}
  MaxRelease = 2
  MaxRevoked = 1
PROPERTIES NeverDowngraded RevocationReaches
