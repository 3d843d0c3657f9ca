SPECIFICATION Spec
CONSTANTS
  Threads = {t1, t2}
  Fds = {f1, f2}
  Followed = {f1}
  Blocks = {b1}
  Hosts = {"api", "cdn"}
  Loopback = "loopback"
  INTERCEPT_HOSTS = {"api"}
  MITM_HOSTS = {"api"}
  MaxTracked = 0
  NoBlock = NoBlock
  Closed = Closed
  None = None
  Environments <- SomeEnvironments
  Modes <- SomeModes
INVARIANTS
  TypeOK
  PeersBelieved
  Delivered
SYMMETRY Symmetry
