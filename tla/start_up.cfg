CONSTANTS
  t1 = t1
  t2 = t2
  LogThreads = {t1, t2}
  Calls <- FewCalls
  MaxLines = 2
  Numeral <- Digits
  Files <- AllFiles
  Listenable <- HostListenable
SPECIFICATION FairSpec
CHECK_DEADLOCK FALSE
INVARIANTS
  SettingsAreTheFiles
  TargetsAreTheFiles
  LinesAreFormatted
  NoneIsMissingInAll
PROPERTIES
  StartsIfComplete
