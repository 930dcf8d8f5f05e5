SPECIFICATION FairApiSpec
CONSTANTS
  Pages = 3
  MaxSnap = 2
INVARIANT TemporaryIsRetryable
INVARIANT CollectionIsWhole
PROPERTY IndexIsFound
PROPERTY CollectionEnds
