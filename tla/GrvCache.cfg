SPECIFICATION FairSpec
CONSTANTS
  Getters = {g1}
  Committers = {c1}
  Invs = {i1}
  Readers = {r1}
  Prios = {batch}
  Immediate = immediate
  MaxEpoch = 1
  MaxGen = 1
  MaxNow = 2
  Start <- MCStart
  MaxMint = 1
  MaxVersionCacheLag = 0
  GrvCacheRKCooldown = 2
INVARIANTS
  SweptStaysRetired
  BoundedStaleness
  ThrottleObeyed
  ReadYourCommits
  ClusterScoped
PROPERTIES ImplementsRegister Rewarmed
CONSTRAINT MCBound
