CONSTANTS
  p1 = p1
  k1 = k1
  NoPrefix = NoPrefix
  NoKey = NoKey
  NoEntry = NoEntry
  NoLink = NoLink
  Link = {l1, l2}
  Segment <- MCSegment
  Name <- MCName
  Translation <- MCTranslation
  StrayDeletes = FALSE
SPECIFICATION FairSpec
INVARIANTS
  TypeOK
  TableAndListsAgree
  LookupIsLongestUsable
PROPERTIES
  RemovedLinkIsGone
  RemoveLinkReturns
  ImplementsRouteSet
