\* A fixed user index and a server without --reverse: what the config
\* step lets through is authorized and no reverse stub is ever bound.
CONSTANTS
  Conn = {c1, c2}
  ChanId = {h1}
  Password = {pw1, pw2}
  UserName = {alice}
  Port = {p1}
  Target = {t1, t2}
  alice = alice
  pw1 = pw1
  pw2 = pw2
  p1 = p1
  t1 = t1
  t2 = t2
  Profiles <- MCProfiles
  NoUser = NoUser
  NoConn = NoConn
  Malformed = Malformed
  BadJSON = BadJSON
  InitUsers <- MCUsers
  Configs <- MCConfigs
  Descriptors <- MCDescriptors
  ReverseOk = FALSE
  SocksOk = TRUE
  UserEdits = FALSE
SPECIFICATION Spec
\* A model with a bounded number of connections stops once every session
\* has ended; the real server then idles waiting for HTTP requests.
CHECK_DEADLOCK FALSE
INVARIANT ConfigAuthorized
INVARIANT StubsBackedByConfig
