SPECIFICATION FairSpec
CONSTANTS
  Client = {c1}
  Options = {o1}
  NilOptions = nil
  Endpoint <- SomeEndpoints
  Height = {}
  MaxRetries <- NoneOrThree
  Timeout = {500}
  p1 = p1
  Page = {p1}
  NoPage = NoPage
  Defaults <- TwoAttempts
PROPERTY
  QueriesTimeOut
