\* One stray peer, which may say anything; two failed accepts end the target.
SPECIFICATION FairSessionSpec
CONSTANTS
  Ini = Ini
  Strays = {s1}
  NoConn = NoConn
  MAX_FAILURES = 2
INVARIANTS HandshakeInStep ReasonIsTrue
PROPERTIES HandshakeEnds SessionsEndTogether WorkersExit
\* A session ends for good.
CHECK_DEADLOCK FALSE
