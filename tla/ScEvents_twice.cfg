CONSTANTS
  ipv4 = ipv4
  ipv6 = ipv6
  dns = dns
  prefix = prefix
  global = global
  Keys <- MCKeys
  ConfigKeys <- MixedConfigKeys
  StoreMatch <- MixedMatch
  ReMatch <- MixedMatch
  Raises <- MixedRaises
SPECIFICATION Spec
INVARIANT ExactMatchOnce
