\* A user restricted to the routes to t1 opens a channel to t2.
CONSTANTS
  Conn = {c1}
  ChanId = {h1}
  Password = {pw1, pw2}
  UserName = {alice}
  Port = {p1}
  Target = {t1, t2}
  alice = alice
  pw1 = pw1
  pw2 = pw2
  p1 = p1
  t1 = t1
  t2 = t2
  Profiles <- MCProfiles
  NoUser = NoUser
  NoConn = NoConn
  Malformed = Malformed
  BadJSON = BadJSON
  InitUsers <- MCUsers
  Configs <- MCConfigs
  Descriptors <- MCDescriptors
  ReverseOk = TRUE
  SocksOk = TRUE
  UserEdits = FALSE
SPECIFICATION Spec
\* A model with a bounded number of connections stops once every session
\* has ended; the real server then idles waiting for HTTP requests.
CHECK_DEADLOCK FALSE
INVARIANT ChannelWithinConfig
