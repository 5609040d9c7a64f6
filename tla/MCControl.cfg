SPECIFICATION MCSpec
CONSTANTS
  Chosen = {"attended", "unattended"}
  AutomaticIntervention = FALSE
  Situations <- MCSituations
  Writers <- Everyone
INVARIANT
  StopsForFaults
PROPERTIES
  ResumesWhatItMay
  ControlFollowsFaults
