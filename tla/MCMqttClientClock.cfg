CONSTANTS
  KeepAlive = 2
  WdtTimeout = 7
  DnsRetries = 1
  ConnectRetries = 2
  MaxPings = 2

SPECIFICATION ClockSpec

PROPERTIES
  ReaderDeathEndsInReset
  SilentBrokerEndsInReset
  StaleFlagEnds
