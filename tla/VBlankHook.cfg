SPECIFICATION FairSpec
CONSTANTS
  Lag = 3
  EntryReads = 7
  HandlerReads = 2
  HandlerComesBack = FALSE
INVARIANTS
  TypeOK
  FetchesWhatItMeans
  StoresWhileGameWaits
PROPERTIES
  ImplementsService
  GameResumes
