\* Two legacy sessions contending for two reverse ports while the user
\* index is edited: a config that binds p1 and then finds p2 held fails
\* part-way, and its stub on p1 must still be released.
CONSTANTS
  Conn = {c1, c2}
  ChanId = {h1}
  Password = {pw1}
  UserName = {alice}
  Port = {p1, p2}
  Target = {t1, t2}
  alice = alice
  pw1 = pw1
  pw2 = pw2
  p1 = p1
  p2 = p2
  t1 = t1
  t2 = t2
  Profiles <- MCLegacyProfiles
  InitUsers <- MCLegacyUsers
  NoUser = NoUser
  NoConn = NoConn
  Malformed = Malformed
  BadJSON = BadJSON
  Configs <- MCLegacyConfigs
  Descriptors <- MCStubDescriptors
  ReverseOk = TRUE
  SocksOk = FALSE
  UserEdits = TRUE
SPECIFICATION LegacySpec
\* A model with a bounded number of connections stops once every session
\* has ended; the real server then idles waiting for HTTP requests.
CHECK_DEADLOCK FALSE
INVARIANT ServingHasAllStubs
PROPERTY LegacyStubsReleased
PROPERTY SessionContractSpec
