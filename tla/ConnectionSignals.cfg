\* Every route and kind of program, and signals at every step.
SPECIFICATION FairSpec
CONSTANTS
  KeepAlive = 1
  Methods = {"GET", "POST"}
  Headers = {"Referer", "Range0", "ContentLength", "IfModifiedSince", "Connection", "Authorization"}
  Routes = {"static", "cgi", "nph", "scgi", "fallback", "redirect", "auth", "refuse"}
  CgiLines = {"Location", "Content-length", "304", "418"}
  Signals = {"SIGALRM", "SIGPIPE", "SIGXCPU"}
INVARIANTS OnlySignalsRepeat EntryNamesUrl KeepAliveHonoured PostDataIsFresh
PROPERTY Terminates
