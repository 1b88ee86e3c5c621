\* Flashes against client requests and Tester Present.
SPECIFICATION Spec
CONSTANTS
  Jobs <- MCJobs
  Offers <- MCOffers
  Raw <- MCRaw
  MaxPayload = 5
  BscMax = 2
  MaxFlashes = 2
  MaxRaw = 2
\* With the flashes and requests of the bounds done and Tester Present off, all tasks wait.
CHECK_DEADLOCK FALSE
INVARIANTS
  TypeOK
  LockAndBit
  OkMeansDone
  OneTpPerFlash
PROPERTIES
  ImplementsProcedure
  TpGoesOn
