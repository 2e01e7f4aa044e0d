\* Files and programs, with redirects followed.
SPECIFICATION Spec
CONSTANTS
  Names <- MCNames
  URLs <- MCURLs
  Trees <- MCTrees
  AuthLines = {"mine", "other", "anyone", "https-only", "http-redirect", "bad"}
  MaxLines = 2
  MaxHops = 1
  standalone = FALSE
  PipeSize = 2
  MaxPost = 3
  MaxOut = 3
  Addresses = 2
  Descriptors = {{0, 1}, {0, 1, 2}, {0, 1, 3}, {0, 1, 2, 4}}
INVARIANTS LookupIsRight RedirectsLead AuthObeyed WholeReply RelightOnce
PROPERTY EveryRequestEnds
