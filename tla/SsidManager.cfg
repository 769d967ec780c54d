SPECIFICATION Spec
CONSTANTS
  Networks = {n1, n2, n3, n4}
  Passwords = {p1, p2}
  Blank = blank
  NoConf = no_conf
  NoEntry = no_entry
  MaxNum = 3
  CntMod = 4
  MaxCnt = 5
SYMMETRY Symmetry
INVARIANT ChosenWasTried
PROPERTY ImplementsKnownNetworks
