\* Command lines of up to three options.
SPECIFICATION Spec
CONSTANTS
  MaxArgs = 3
  Options = {"root", "user", "jail0", "port", "badport", "page", "https0", "https1",
             "cert", "debug", "other", "popup", "loopback", "enable-sab", "bad",
             "version"}
INVARIANTS NeverServesAsRoot ServesFromJail LoopbackByDefault
