CONSTANTS
  home = home
  elsewhere = elsewhere
  lib = lib
  mount = mount
  wake = wake
  sleep = sleep
  ipv4 = ipv4
  Proxy = Proxy
  pkg = pkg
  update = update
  missing = missing
  example = example
  proxy = proxy
  badimport = badimport
  badobserver = badobserver
  badmethod = badmethod
  packaged = packaged
  folder = folder
  nofolder = nofolder
  Home = home
  Elsewhere = elsewhere
  LibDir = lib
  Absent = Absent
  Truncated = Truncated
  Example = example
  Content <- MCContent
  Importable <- MCImportable
  Attributes <- MCAttributes
  Methods <- MCMethods
  HasInfo <- MCHasInfo
  Existing = {home, elsewhere}
  UserConfigs = {proxy, badimport, badobserver, badmethod, packaged, folder, nofolder}
  MaxWrites = 2
  MaxHups = 2
SPECIFICATION FairSpec
INVARIANTS
  TypeOK
  FullyRegistered
  SameConfigurationFile
PROPERTIES
  ConfigurationKept
  HupNeverKillsService
  HupRestarts
  ServedUnlessHung
  KeepsServing
