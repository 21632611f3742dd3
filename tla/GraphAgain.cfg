CONSTANTS
  Tables = {"parents", "children", "notes"}
  Keys = {"k", "l", "a b"}
  NoRef = "null"
  NoTable = "none"
  None = None
  Parent <- MCParent
  Contents <- MCContents
  Kinds = {"postgresql"}
  Recent = {"l", "a b"}
  MaxCommits = 1
  MaxFaults = 0
  Catalogs <- MCCatalogs
  Alterations <- MCAlterations
  SchemaKinds = {"postgresql", "mysql", "sqlserver", "snowflake", "views", "clickhouse", "csv"}
  Order <- MCOrder
  Links <- MCLinks
  Into <- MCInto
  Keyless = {"notes"}
  Illegal = {"a b"}
  Encode <- MCEncode
  Nullable = {"children", "notes"}
  MaskChoices <- MCMaskChoices
  LogLimit = 1
  Scripts <- MCScripts
  MaxCommands = 5
  TableChoices <- MCTableChoices
  Limits = {1}
SPECIFICATION Spec
INVARIANTS GraphIsCreatedAgain
CHECK_DEADLOCK FALSE
