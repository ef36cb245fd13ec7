SPECIFICATION LiveSpec
CHECK_DEADLOCK FALSE
CONSTANTS
  Debounce = 2
  Delay = 4
  Hold = 9
  NoAddr = NoAddr
  Parts = {"key", "uart", "uplink", "mqtt", "upgrade", "platform", "light", "dns",
           "netconn", "autoip", "timers"}
INVARIANT NeverDeaf
PROPERTY RestartNotPostponed
PROPERTY LongPressWasHeld
PROPERTY KeyReleased
PROPERTY UartServed
PROPERTY BacklogDrains
PROPERTY IotLive
PROPERTY RequestAnswered
PROPERTY StackLive
