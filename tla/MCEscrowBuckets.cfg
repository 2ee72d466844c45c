SPECIFICATION Spec
CONSTANTS
  Amounts = {1, 2, 3}
  Room = {0, 1, 2, 4}
  MaxRecharges = 4
INVARIANTS TypeOK RefundNeverStuck
PROPERTIES TotalsSpec OldestFirst
