SPECIFICATION Spec
CONSTANTS
  Workers = {w1}
  Markets = {m1}
  AxUsd = AxUsd
  Router = Router
  Traded = {"yes"}
  Amounts = {1, 2}
  Slippages <- MCSlippages
  Prices = {1, 4}
  Unit = 2
  Funds = 2
  MaxOrders = 2
INVARIANTS
  TypeOK
  AllowanceCovers
PROPERTIES
  MinimumKept
