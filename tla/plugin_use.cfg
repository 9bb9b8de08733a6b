SPECIFICATION Spec
CONSTANTS
  Host = {h1, h2}
  Admin = {h1}
  Front = {h2}
  Nobody = Nobody
  Gone = Gone
  Plugin = {p}
  MaxRelease = 2
  MaxRevoked = 1
INVARIANTS PermittedRunsAreCurrent DisabledIsIdle
