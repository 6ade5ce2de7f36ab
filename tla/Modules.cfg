SPECIFICATION FairSpec
CONSTANTS
  File <- MCFile
  Cli <- MCCli
  Var <- MCVar
  Text <- MCText
  MaxLines = 2
INVARIANTS EachFileOnce ImportsAreComputed ThreadsOK
PROPERTIES HostRegainsControl
CHECK_DEADLOCK FALSE
