\* POST data of a static file, then a request for a program.
SPECIFICATION Spec
CONSTANTS
  KeepAlive = 1
  Methods = {"GET", "POST"}
  Headers = {"ContentLength"}
  Routes = {"static", "cgi"}
  CgiLines = {}
  Signals = {}
INVARIANT PostCountIsReal
