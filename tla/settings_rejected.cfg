SPECIFICATION SettingsSpec
CONSTANTS
  Saver = {1, 3}
  Reader = {}
  Inode = {1, 2, 3, 4}
  Stamp = {1, 2, 3, 4, 5}
  DiskFails = FALSE
INVARIANT RejectedWritesNothing
