SPECIFICATION FairSpec
CONSTANTS
  Ours <- MCOurs
  Foreign <- MCForeign
  Links <- MCLinks
  PCAP_SNAPLEN = 3
  PCAPNG_MAX_PACKET = 4
  MaxFrames = 2
  MaxSignals = 2
INVARIANTS SavedIsRead CutIsPrefix
PROPERTIES StopsEnd
CHECK_DEADLOCK FALSE
