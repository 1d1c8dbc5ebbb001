SPECIFICATION FairSpec
CONSTANTS
  Hosts <- MCHosts
  Lines <- MCLines
  Prints <- MCPrints
  Expire = 1
  RepoExpire = 2
  MaxFailures = 1
  None = None
INVARIANT CurrentMeansFresh
PROPERTY NoticedInTheEnd
