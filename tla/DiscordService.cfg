\* Three commands and wakes, two users of /link, two reconciles at a time.
\* Every bound may be used up, and then the service rests: no deadlock check.
SPECIFICATION DiscordSpec
CONSTANTS
  Caller = {a, b, c}
  Linker = {u1, u2}
  Nobody = Nobody
  MaxSaves = 2
  MaxEditsWake = 1
  MaxReissues = 1
  MaxDeletes = 1
  Reconciler = {t1, t2}
  MaxGatewayFaults = 1
  MaxServiceDeaths = 1
  RelayTurn = {greet, q1}
  Arrival = greet
  MaxRelayRows = 3
  MaxRelayFaults = 1
  Request = {k1, k2}
  NoRequest = NoRequest
  MaxInFlight = 2
  MaxBuffered = 2
  MaxChunks = 2
INVARIANT OneConnection
INVARIANT StaleUndone
INVARIANT LossReported
INVARIANT SomeoneDials
INVARIANT LinkOnce
INVARIANT GatewayMatchesRow
INVARIANT RelayOnce
INVARIANT RequestsAccounted
PROPERTY GivenUpForCause
SYMMETRY Symmetric
CHECK_DEADLOCK FALSE
