\* No buffer is shared between tasks.
SPECIFICATION Spec
CONSTANTS
  app = app
  boot = boot
  Images <- MCImages
  Size <- MCSize
  Announced <- MCAnnounced
  Junk = Junk
  NoImage = NoImage
  Runners = {flash1, flash2}
  NoTask = NoTask
  ArmTimeout = 0
  LongPress = 0
INVARIANTS
  FirmwareNotShared
