SPECIFICATION RedisSpec
CONSTANTS
  Process = {h1, h2, h3}
  NoProcess = NoProcess
  MaxIncr = 5
SYMMETRY RedisSymmetry
INVARIANTS TermsUnique KeyKeptWhileLeading
CHECK_DEADLOCK FALSE
