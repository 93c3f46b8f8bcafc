SPECIFICATION Spec
CONSTANTS
  Object <- ObjectNames
  Excluded = {"AccountChangeEvent"}
  BulkExcluded = {"TaskStatus"}
  TagOf <- TheTags
  ForcedFullTable = {"BackgroundOperationResult"}
  Field <- FieldNameSet
  Orgs <- TheOrgs
  Restricted <- TheRestricted
  BatchSize = 2
  None = None
INVARIANTS TypeOK CatalogIsComplete KeysAreQueried UnsupportedNeverQueried QueryFitsSchema
CHECK_DEADLOCK FALSE
