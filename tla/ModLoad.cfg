SPECIFICATION MSpec
CONSTANTS
  NoModule = NoModule
  NoCaller = NoCaller
  Callers = {c1, c2}
  Modules = {usbd, cdvdstm, padman}
  FakeList = {usbd, cdvdstm}
PROPERTY OnlyListedFaked
PROPERTY ListedNeverRuns
PROPERTY ListedLooksStarted
