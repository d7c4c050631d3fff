SPECIFICATION Spec
CONSTANTS
  None = None
  Handlers = {h1, h2}
  Directories <- AllDirectories
  ExtractPayloadRefs <- PayloadRefs
  Value <- AllValues
  SchemaNode <- AllSchemaNodes
  Template <- AllTemplates
  Path <- AllPaths
  Depth <- Nesting
  ValidateChild <- TheValidateNode
  GetNestedRest <- TheNestedField
  ResolveChild <- TheResolveNode
  StringsChild <- TheStrings
  ConformsChild <- TheConforms
  AssuredRest <- TheAssured
  WellTypedChild <- TheWellTyped
  Requests <- AllRequests
SYMMETRY HandlerSymmetry
INVARIANTS
  FailureIsContained
  
  ServedIsOnDisk
  VerdictMatchesSchema
  WellTypedBuilds
  NilOnlyFromOptional
