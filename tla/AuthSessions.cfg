SPECIFICATION Spec
CONSTANTS
  Emails = {"a"}
  Passwords = {"p", "q"}
  Names = {"m"}
  Handlers = {h1, h2}
  SessionTTL = 1
  ResetTTL = 1
  MaxClock = 2
  Budget = 6
CHECK_DEADLOCK FALSE
INVARIANTS
  OneAccountPerEmail
  ResetEndsSessions
PROPERTIES
  PasswordOnlyByLink
  UsedLinksKept
