SPECIFICATION FairSpec
CONSTANTS
  Client = {c1, c2}
  Options = {o1}
  NilOptions = nil
  Endpoint <- SomeEndpoints
  Height = {7}
  MaxRetries <- NoneOrThree
  Timeout = {1500}
  p1 = p1
  Page = {p1, p2}
  NoPage = NoPage
  Defaults <- TwoAttempts
INVARIANTS
  TypeOK
  OneSetOfOptions
  AttemptsBounded
  AttemptsShareAPage
PROPERTIES
  AllItemsDecoded
  ExhaustedMeansRetried
  EveryQueryReturns
