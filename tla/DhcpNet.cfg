SPECIFICATION Spec
CONSTANTS
  SelectTries = 1
  RebindTries = 1
  RebootTries = 1
  CheckTries = 1
  MaxRtx = 0
  TimerMod = 2
  LeaseTime = 2
  MAX_STATION_NUM = 2
  DHCPS_MAX_LEASE = 2
  Octet = 5
  Stations = {c1}
  Guests = {g}
  ApAddresses = {1}
  Ranges <- DefaultOnly
  GuestAddresses = {3}
  QueueLen = 1
INVARIANT LeasesSound
INVARIANT NeverStalls
