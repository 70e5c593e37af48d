\* One name, a request and an agent, two reconnections of two attempts each. A
\* panic may leave the manager locked for ever: the system may really stop.
CONSTANTS
  States = {s1}
  Handlers = {h}
  Agents = {a}
  Reconnects = {1, 2}
  MaxAttempts = 2
  None = None
SPECIFICATION Spec
INVARIANTS StartingHasStarter StoppedHoldsNothing CancelReachesLive
PROPERTIES CancelledReconnectEnds
CHECK_DEADLOCK FALSE
