\* One legacy session whose config is denied while a channel open it sent
\* early is still queued: the spec's teardown after a failed config.
CONSTANTS
  Conn = {c1}
  ChanId = {h1}
  Password = {pw1}
  UserName = {alice}
  Port = {p1, p2}
  Target = {t1, t2}
  alice = alice
  pw1 = pw1
  pw2 = pw2
  p1 = p1
  p2 = p2
  t1 = t1
  t2 = t2
  Profiles <- MCLegacyProfiles
  InitUsers <- MCLegacyUsers
  NoUser = NoUser
  NoConn = NoConn
  Malformed = Malformed
  BadJSON = BadJSON
  Configs <- MCLegacyConfigs
  Descriptors <- MCStubDescriptors
  ReverseOk = TRUE
  SocksOk = FALSE
  UserEdits = FALSE
SPECIFICATION LegacySpec
\* A model with a bounded number of connections stops once every session
\* has ended; the real server then idles waiting for HTTP requests.
CHECK_DEADLOCK FALSE
PROPERTY SessionTeardown
