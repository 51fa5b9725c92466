\* Two sessions contending for one reverse port while the administrator
\* deletes and re-adds the user and the server's ctx may be cancelled: a
\* config is acked only when all its reverse stubs are bound, and once
\* Run returns its stubs and channels end.
CONSTANTS
  Conn = {c1, c2}
  ChanId = {h1}
  Password = {pw1}
  UserName = {alice}
  Port = {p1}
  Target = {t1, t2}
  alice = alice
  pw1 = pw1
  pw2 = pw2
  p1 = p1
  t1 = t1
  t2 = t2
  Profiles <- MCStubProfiles
  InitUsers <- MCUsers
  NoUser = NoUser
  NoConn = NoConn
  Malformed = Malformed
  BadJSON = BadJSON
  Configs <- MCStubConfigs
  Descriptors <- MCStubDescriptors
  ReverseOk = TRUE
  SocksOk = FALSE
  UserEdits = TRUE
SPECIFICATION Spec
\* A model with a bounded number of connections stops once every session
\* has ended; the real server then idles waiting for HTTP requests.
CHECK_DEADLOCK FALSE
INVARIANT TypeOK
INVARIANT ServingHasAllStubs
PROPERTY SessionTeardown
PROPERTY SessionContractSafety
