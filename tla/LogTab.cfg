SPECIFICATION FairSpec
CONSTANTS
  a = a  b = b  i = i  j = j
  Logs = {a, b, i, j}
  Journals = {i, j}
  None = None
  PageLines = 2
  Slack = 1
  MaxLines = 3
  MaxWritten <- MCMaxWritten
  MaxRequests = 2
  Errors = TRUE
INVARIANTS  FlagsHonest
PROPERTIES NumbersStick SpinnersStop
CHECK_DEADLOCK FALSE
