SPECIFICATION RedisSpec
CONSTANTS
  Process = {h1, h2}
  NoProcess = NoProcess
  MaxIncr = 3
PROPERTIES RedisImplementsContract
CHECK_DEADLOCK FALSE
