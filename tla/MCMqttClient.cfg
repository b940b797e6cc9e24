CONSTANTS
  KeepAlive = 3
  WdtTimeout = 11
  DnsRetries = 3
  ConnectRetries = 3
  MaxPings = 2

SPECIFICATION CallSpec

INVARIANTS
  TypeOK
  FlagTracksSession
  NoSessionLeftBehind
  KeepaliveChain
  SessionHasReader
  FirstConnectIsClean

PROPERTIES
  DeadReaderNeverFeeds
  ImplementsLink
  CallReturns
