\* The Archive: three messages that come and go, all marked deleted.
SPECIFICATION Spec
CONSTANTS
  MaxUID = 3
  FlagValues = {"deleted"}
  Returns = FALSE
  InArchive = TRUE
  MaxWire = 2
INVARIANTS TypeOK SameNumberingUnlessBroken
PROPERTIES NoFalseExpungeUnlessFiled RightTarget
