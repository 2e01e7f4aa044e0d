\* Programs that write their header lines in any order, and no signals: what every
\* reply and log entry must be.
SPECIFICATION Spec
CONSTANTS
  KeepAlive = 2
  Methods = {"GET", "HEAD", "POST"}
  Headers = {"Range", "Range0", "IfNoneMatch", "ContentLength", "Connection"}
  Routes = {"static", "cgi", "redirect", "refuse"}
  CgiLines = {"Location", "Content-length", "200", "206", "304", "404", "418"}
  Signals = {}
INVARIANTS ForceCloseNeverReturns ReplyFitsRequest
  EveryReplyLogged LoggedStatusIsSent
