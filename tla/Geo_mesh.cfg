CONSTANTS
  Nodes = {self, p, d}
  Self = self
  Enabled = {self, p}
  Ipv4 = {self, p}
  Ipv6 = {p, d}
  DefaultNodes = {d}
  ResponseCount = 1
  MeshModes = {TRUE, FALSE}
  Interval = 2
  MaxDelay = 5
  Senders = {p}
SPECIFICATION GeoSpec
INVARIANTS
  AnswersWithTheLiving
  LivePeerKept
  DeadPeerExcluded
PROPERTIES
  ProbeHysteresis
