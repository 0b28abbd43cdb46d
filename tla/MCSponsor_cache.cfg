SPECIFICATION Spec
CONSTANTS
  Slides = {s1, s2, s3}
  MaxSlides = 3
  Modes = {"calm", "rough"}
  None = none
SYMMETRY SponsorSymmetry
INVARIANTS
  OwnPicture
PROPERTIES
  NeverEmptied
