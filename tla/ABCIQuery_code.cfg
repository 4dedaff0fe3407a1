SPECIFICATION Spec
CONSTANTS
  Client = {c1}
  Options = {o1}
  NilOptions = nil
  Endpoint <- GRPCEndpoints
  Height = {}
  MaxRetries = {3}
  Timeout = {1000}
  p1 = p1
  Page = {p1}
  NoPage = NoPage
  Defaults <- TwoAttempts
INVARIANT
  FailedQueryIsAnError
