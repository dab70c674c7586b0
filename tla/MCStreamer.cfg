CONSTANTS
  v1 = v1
  v2 = v2
  desktop = desktop
  window = window
  Screens <- MCScreens
  Nothing = Nothing
  Viewers <- MCViewers
  MaxErrors = 1
SPECIFICATION StFairSpec
INVARIANTS NoLostWake ViewersAreCounted
PROPERTIES ChangeIsPublished GoneViewerIsReleased
