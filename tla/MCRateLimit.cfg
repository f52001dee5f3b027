\* Two clients behind one address and one with its own.
SPECIFICATION FairSpec
CONSTANTS
  x = x  y = y  z = z  proxy = proxy  own = own
  Clients = {x, y, z}
  Addrs = {proxy, own}
  AddrOf <- MCAddrOf
  Max = 2
  Per = 2
INVARIANTS
  TypeOK
  WindowBudget
  SlidingBudget
PROPERTY AdmittedAgain
