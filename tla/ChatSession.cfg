\* Two requests, one of them over a web socket or not, two rounds of one tool call
\* each, a history of four messages, one deletion by the user, failure or crash.
CONSTANTS
  Requests = {q1, q2}
  Http = {q2}
  None = none
  MaxToolRounds = 1
  MaxCalls = 1
  HistoryLimit = 4
  MaxMishaps = 1
SPECIFICATION Spec
INVARIANTS TypeOK CancelledLeavesNoTrace NoStaleEntry ResultsFollowCalls
