CONSTANTS
  Displays <- MCDisplays
  Extensions <- MCExtensions
  NoDisplay = "none"
SPECIFICATION Spec
INVARIANTS
  ModeIsSinks
PROPERTIES
  OutputFollowsSink
  PictureStays
