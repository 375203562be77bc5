SPECIFICATION Spec
CONSTANTS
  Subjects = {"stock", "reservations", "runs", "netting", "trade", "assets", "bank", "reports", "access", "keys", "local", "screens", "tax", "sources"}
  Nothing = Nothing
  Members = {m1, m2}
  Attempts = {"first", "copy", "other"}
  PayloadOf <- Asked
  Statements = {v1, v2}
  Lines = {a1, a2}
  VoucherLines = {"line"}
  MaxVersion = 3
  Vouchers = {v1, v2}
  CommandKeys = {"k"}
  Amounts <- BothSides
  MaxCommands = 4
  MaxQueue = 2
  People = {"u1", "u2"}
  Companies = {"c1", "c2"}
  Roles = {"platform", "admin", "limits", "r1"}
  Assignments = {"p", "q1", "q2", "l", "n1"}
  Permissions = {"create", "access", "pay", "read"}
  Sensitive = {"access", "pay"}
  Grants <- Powers
  FirstRoles <- Rows
  FirstAssignments <- Holders
  Delegations <- FirstDelegations
  Wildcard = "*"
  Organization = "all"
  Overlap = FALSE
  MaxChanges = 3
  Reservations = {a1, a2, v1}
  Batches = {"b1"}
  Blank = "blank"
  Sources = {"line"}
  Limit <- TwoPerLine
  Manual = "manual"
  Quantities = {1, 2}
  MaxStock = 2
  Runs = {a1}
  Forecasts = {"f"}
  PlannedHolds = {"hold"}
  MaxPolicy = 1
  Orders = {"o1"}
  Invoices = {"n1"}
  Demands = {"d1"}
  Productions = {v1, v2, v3}
  ProductionBatches = {a1, a2}
  Outputs = {1, 2}
  Values = {1}
  Assets = {"a"}
  AssetEvents = {v1, v2, v3}
  Costs = {4}
  Residuals = {0, 1}
  Charges = {1, 2}
  Months = {12, 24}
  LifeMonths = 24
  Locations = {a1, a2}
  LastDay = 2
  PostedVouchers = {v1, v2}
  Accounts <- Chart
  TypeOf <- TypesOfChart
  CashLike = {"bank"}
  ClassOf <- FlowsOfChart
  PostedLines = {1, 2, 3}
  PlantNames = {"north", "south"}
  CostCenters = {"making"}
  PostingDays = {1, 2}
  PostedAmounts = {0, 1, 2, 3}
  Rates = {133}
  PostedLedgers <- SomeLedgers
  ReportQueries <- SomeQueries
  Items <- Kit
  Horizon = 3
  PassLimit = 2
  PlanInputs <- NetInputs
  StockPlans <- StockSources
  StockItems <- Sorts
  Warehouses = {a1, a2}
  StockDays = {1, 2}
  BatchesOf <- TwoBatches
  Fifo = {"fifo"}
  StockQuantities = {2}
  StockRates = {150}
  RateScale = 100
  ScreenVersions = 1
  TaxDays = {1, 2, 3}
  Masters <- Rated
  KindOf <- KindOfMaster
  SpanOf <- SpanOfMaster
  InPlace <- MastersBefore
  TaxPolicies <- TaxTerms
  Payables = {"first", "second"}
  ValueOf <- PayableValues
  Deductions = {1, 2, 3, 4}
  PayableOf <- PayablesOfDeductions
  GrossPaid <- GrossOfDeductions
  DayOf <- DaysOfDeductions
  Vendors = {v1, v2}
  SourceTypes = {"supplier_invoice", "goods_receipt"}
  a1 = a1
  a2 = a2
  v1 = v1
  v2 = v2
  v3 = v3
  m1 = m1
  m2 = m2
SYMMETRY Symmetry
CONSTRAINT Bounds
CHECK_DEADLOCK FALSE
INVARIANTS CompanyTypes StockSound PlanningSound NettingSound TradeSound AssetsSound BankSound TaxSound ReportsAgree AccessSound ReplaySound ScreensSound
