SPECIFICATION Spec
CONSTANTS
  a1 = a1
  a2 = a2
  g1 = g1
  g2 = g2
  s1 = s1
  s2 = s2
  w1 = w1
  w2 = w2
  t1 = t1
  t2 = t2
  i1 = i1
  i2 = i2
  NoWord = NoWord
  Ids <- TwoAccounts
  Emails <- TwoAddresses
  Lower <- AllLower
  DevEmail = "owner"
  Providers = {"google", "x"}
  X = "x"
  Subs <- TwoPeople
  Words <- OneWord
  Secrets <- TwoSecrets
  Slots <- TwoSlots
  Policies <- FourPolicies
  Tabs <- OneTab
  Ips <- TwoIps
  MAX_ATTEMPTS = 1
  WINDOW = 2
  KEYS_LIMIT = 2
  SESSION_TTL = 1
  Serial = TRUE
  MaxTime = 2
  MaxEdits = 5
SYMMETRY Symmetry
INVARIANTS
  WindowHolds
  AccountsDistinct
  SoleNewcomer
PROPERTIES
  NeverDowngraded
  KeysKept
CHECK_DEADLOCK FALSE
