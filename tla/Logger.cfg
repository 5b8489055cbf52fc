CONSTANTS
  N = 3
  Tasks = {httpd, timer, check}
  Httpd = httpd
  Deletable = {check}
  Msgs = {m1, m2}
  Empty = Empty
  Torn = Torn
  Free = Free
  Lost = Lost
SPECIFICATION FairSpec
INVARIANTS LogInv ListedInOrder
PROPERTY CallReturns
