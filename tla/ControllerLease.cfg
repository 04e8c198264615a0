SPECIFICATION FairSpec
CONSTANTS
  Holder = {h1, h2}
  None = None
  MaxFaults = 2
INVARIANTS TypeOK TermsExclusive CurrentTermHeld CronFenced
PROPERTIES ImplementsContract LeaseLostStandsDown FailoverCompletes
CHECK_DEADLOCK FALSE
