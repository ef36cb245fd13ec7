SPECIFICATION Spec
CONSTANTS
  MaxReconn = 5
  DNS_TABLE_SIZE = 2
  Keys = TRUE
INVARIANT DiscoveryAlive
INVARIANT NoSilentStall
INVARIANT LoginForgotten
PROPERTY ComesBack
