\* Two runs and the profile between them; every kind of target and of exclusion.
SPECIFICATION Spec
CONSTANTS
  known = known
  plain = plain
  odd = odd
  lost = lost
  Octets = 2
  OctetBits = 2
  MaxHosts = 15
  Names = {known, plain, odd, lost}
  resolve_hostname <- MCresolve_hostname
  listed_ending = {known}
  odd_spelling = {odd}
  NoAddress = NoAddress
  Junk = Junk
  MaxPort = 5
  top_1000_ports <- MCtop_1000_ports
  top_100_ports <- MCtop_100_ports
  FirstArgs <- MCFirstArgs
  SecondArgs <- MCSecondArgs
  Silent = {4, 6}
INVARIANTS TargetsAreMeant PortsAreMeant ProfileRestores FoundIsReported
