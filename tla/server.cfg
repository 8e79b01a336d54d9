SPECIFICATION ServerSpec
CONSTANTS
  ordinary = ordinary
  auto = auto
  Article <- MCNoArticle
  AutoInclude <- MCNoArticle
  MaxDate = 2
  Retention = 1
  XtcKeep = 1
  MaxRuns = 3
  Backfill = TRUE
  Faults = {"fail", "crash", "xtc", "unlink"}
  Saver = {1}
  Reader = {2}
  Inode = {1, 2}
  Stamp = {1, 2, 3, 4, 5}
  DiskFails = TRUE
  Visitor = {1}
  Approver = {1, 2}
  Email = {e1, e2}
  Name = {n1, n2}
  Unset = Unset
  MaxAsked = 2
  MailFaults = {"refused", "late", "drop"}
  Visit = {1, 2}
  Ticket = {k1, k2}
  NoTicket = NoTicket
  MaxVersion = 3
  f1 = f1
  f2 = f2
  h1 = h1
  h2 = h2
  Feed = {f1, f2}
  Host = {h1, h2}
  HostsOf <- MCHostsOf
  NoHost = NoHost
  NoFeed = NoFeed
  Clicker = {c1}
  MaxLookups = 1
  MaxPerHost = 1
  Writer = {1, 2}
  Text = {t1, t2}
  Blank = Blank
  MaxFiles = 3
INVARIANTS ServerTypeOK OkMeansPublished LiveFollowsFile MailedAccountsStay NoSilentAccount PasswordRevokes NoSubscribedCandidate CheckedMeansStored
PROPERTIES FileStaysLoadable ReplacedIsKept
