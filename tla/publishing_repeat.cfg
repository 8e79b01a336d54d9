SPECIFICATION Spec
CONSTANTS
  ordinary = ordinary
  auto = auto
  Article <- MCArticle
  AutoInclude <- MCAutoInclude
  MaxDate = 2
  Retention = 1
  XtcKeep = 1
  MaxRuns = 3
  Backfill = FALSE
  Faults = {"crash"}
INVARIANT FilesNeverRepeat
