CONSTANTS
  ipv4 = ipv4
  ipv6 = ipv6
  dns = dns
  prefix = prefix
  global = global
  Keys <- MCKeys
  ConfigKeys <- MCConfigKeys
  StoreMatch <- MCStoreMatch
  ReMatch <- MCReMatch
  Raises <- MCRaises
SPECIFICATION FairSpec
INVARIANTS
  TypeOK
  AtMostTwice
  NoKeyDropped
  ExactOrEvery
  CallsAccount
PROPERTIES
  ChangeIsServed
  ImplementsDelivery
