CONSTANTS
  KeepAlive = 3
  WdtTimeout = 11
  DnsRetries = 2
  ConnectRetries = 2
  MaxPings = 2
  ConnectBy = 5
  AnswerBy = 2

SPECIFICATION HealthySpec

INVARIANTS
  NoWatchdogReset
  TimeoutsSound
