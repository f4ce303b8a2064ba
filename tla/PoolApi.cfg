CONSTANTS
  None = None
  Handlers = {h1, h2}
  RequestIds = {q1}
  Bodies = {x}
  Skew = 1
  Memory = 2
  MaxTime = 2
  MaxFaults = 2
  Wallets = {w1}
  Nonces = {n1, n2}
  MaxLifetime = 2
  LoginMaxTime = 3
  MaxPrunes = 1
\* Also true of this instance: ReuseIsAudited IInv LoginTypeOK
\* OneAccountPerWallet SignedForThisPool.
SPECIFICATION MCSpec
INVARIANTS OneRequestPerId RevocationIsImmediate NonceBuysOneTicket
