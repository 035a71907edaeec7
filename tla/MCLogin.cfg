SPECIFICATION Spec
CONSTANTS
  Workers = {w1, w2, w3}
  MySQLs = {m1}
  Users = {u}
  Passwords = {old, new}
  NoPassword = NoPassword
  TTL = 2
  MaxChanges = 1
  Names <- MCNames
  Hmac <- MCHmac
INVARIANTS
  TypeOK
  OneHolder
  NoLostWakeup
  TokenNamesItsUser
PROPERTIES
  LoginsEnd
  OldOnesStayAway
  OldOnesFade
CHECK_DEADLOCK FALSE
