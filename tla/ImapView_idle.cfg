\* One message with all its flags, in a label; notifications may be late or lost.
SPECIFICATION FairSpec
CONSTANTS
  MaxUID = 1
  FlagValues = {"plain", "seen", "deleted"}
  Returns = TRUE
  InArchive = FALSE
  MaxWire = 2
INVARIANT FlagsAgreeUnlessMuted
PROPERTY IdleConverges
