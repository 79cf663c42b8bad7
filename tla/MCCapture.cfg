SPECIFICATION FairSpec
CONSTANTS
  Programs <- MCPrograms
  Temps <- MCTemps
  MaxPolls = 3
  NoFile = NoFile
INVARIANTS TypeOK SavedRowsWereMeasured LoadIsOn
PROPERTIES Ends
\* The program ends, or is left waiting for a worker.
CHECK_DEADLOCK FALSE
