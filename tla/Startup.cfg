SPECIFICATION FairSpec
CONSTANTS
  Launch <- MCLaunch
  Challenge <- MCChallenge
  Document <- MCDocument
  Matches <- MCMatches
CHECK_DEADLOCK FALSE
INVARIANT TypeOK
INVARIANT NoCleartext
INVARIANT ProtocolOwnsStdout
INVARIANT KeyNamesTheServer
INVARIANT StaticCredentialDecides
INVARIANT FirstDocumentDecides
INVARIANT NoInventedServer
INVARIANT ScopesByPriority
INVARIANT FilterSaysWhatFlagsSay
PROPERTY LaunchSettles
