SPECIFICATION RoundingSpec
CONSTANTS
  Payers = {asha, ravi}
  Prices = {2, 4}
  Splits = {{asha, ravi}}
  Entries = {1}
  Parts = 2
  MaxRoundings = 2
INVARIANT RevertIsNoOp
