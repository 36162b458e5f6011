SPECIFICATION FairSpec
CONSTANTS
  addr = addr
  interval = interval
  password = password
  zone = zone
  mine = mine
  theirs = theirs
  rejected = rejected
  NoKey = NoKey
  Example = Example
  Malformed = Malformed
  Mask = Mask
  None = None
  Broken = Broken
  c1 = c1
  Keys = {addr, interval, password, zone}
  Addr = addr
  Password = password
  Durations = {interval}
  NewKeys = {zone}
  Values = {mine, theirs, rejected}
  Clients = {c1}
  Files <- ConfigFiles
  Requests <- Patches
INVARIANTS
  TypeOK
  UserValueKept
  RunsOnTable
  SettingsHaveOrigin
PROPERTY ComesUp
