\* Three clients and two descriptors, a batch of two events.
SPECIFICATION FairSpec
CONSTANTS
  Clients = {c1, c2, c3}
  MaxFds = 2
  MAX_EVENTS = 2
  BUF_SIZE = 1
  MaxSent = 2
INVARIANTS BatchIsFresh NothingLost EndsForCause OwnDescriptor
PROPERTY EventuallyClosed
