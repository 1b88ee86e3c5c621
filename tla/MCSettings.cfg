\* Saves, restarts at any step and WiFi events, with a default network.
SPECIFICATION Spec
CONSTANTS
  Ssids <- MCSsids
  Pwds <- MCPwds
  Speeds <- MCSpeeds
  DefaultSsid <- MCDefault
  DefaultPwd <- MCDefaultPwd
  DefaultSpeed <- MCSpeed
  QEvents = 2
  Absent = Absent
INVARIANTS
  TypeOK
  LinkWatched
PROPERTIES
  BootUsesSaved
