SPECIFICATION Spec
CONSTANTS
  Getters = {g1}
  Committers = {}
  Invs = {i1}
  Readers = {r1}
  Prios = {}
  Immediate = immediate
  MaxEpoch = 0
  MaxGen = 2
  MaxNow = 1
  Start <- MCStart
  MaxMint = 1
  MaxVersionCacheLag = 1
  GrvCacheRKCooldown = 2
INVARIANT InvalidateGuarantee
