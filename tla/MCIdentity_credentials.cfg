SPECIFICATION Spec
CONSTANTS
  acct = acct
  w1 = w1
  w2 = w2
  Accounts = {acct}
  Workers = {w1, w2}
  NoAccount = NoAccount
  MaxVersion = 3
  MaxIssued = 3
SYMMETRY Symmetry
INVARIANTS
  TypeOK
  StoredTokensOpen
PROPERTIES
  OnlyEarlierReadsRevive
