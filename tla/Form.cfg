CONSTANTS
  Texts = {name}
  Consents = {statutes, gt18}
  Amounts <- AroundTheLimits
  NoAmount = NoAmount
  Junk = Junk
  MonthlyFee = 20
  YearlyFee = 200
  FeeLimit = 1024
  MaxStored = 1
SPECIFICATION Spec
INVARIANTS
  TypeOK
  OfferedFeeIsKnown
  StoredFeeFits
