CONSTANTS
  t1 = t1
  t2 = t2
  LogThreads = {t1, t2}
  Calls <- SessionCalls
  MaxLines = 1
  Numeral <- Digits
  Files <- OnlyPlain
  Listenable <- HostListenable
SPECIFICATION FairSpec
CHECK_DEADLOCK FALSE
INVARIANT ValuesUnderTheirLabels
