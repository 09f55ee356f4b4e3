SPECIFICATION FairSpec
CONSTANTS
  office = office
  invoices = invoices
  OrderBook = {office}
  InvoiceBook = {invoices}
  Slot = {s1, s2}
  Sequence <- MCSequence
  LastDay = 2
  BillingDays <- MCBillingDays
  Retries = 2
  TypedUpTo = 1
  Amounts <- MCAmounts
  Percentages <- MCPercentages
CHECK_DEADLOCK FALSE
INVARIANTS TypeOK RetriesPaid Gapless Inv
PROPERTIES Answered
