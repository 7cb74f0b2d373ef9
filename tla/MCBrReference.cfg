SPECIFICATION FairSpec
CONSTANT MaxCalls <- MCMaxCalls
INVARIANTS
  TypeOK
  Conservation
  OwnReferencesCounted
  NegotiationHasTimer
PROPERTIES
  NoCutUnderOwnReference
  ReleasedLinkCloses
\* A link that both ends have given up has nothing left to do.
CHECK_DEADLOCK FALSE
