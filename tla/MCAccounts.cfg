SPECIFICATION Spec
CONSTANTS
  Users = {u1, u2}
  NoUser = NoUser
  Browsers = {b1, b2}
  NoBrowser = NoBrowser
  Requests = {r1, r2}
  MaxIds = 2
  MaxAttempts = 2
  MaxSessions = 2
  MaxDisturbed = 1
SYMMETRY Symmetry
INVARIANTS TypeOK RowsHaveAnAccount ConsentIsOfTheAsker AttemptSignsInOnce StoredTokenIsKeptOrRevoked DeletedIsGone
CHECK_DEADLOCK FALSE
