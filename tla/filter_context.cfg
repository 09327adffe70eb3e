SPECIFICATION Spec
CONSTANTS
  Tables <- MCTables
  Columns <- MCColumns
  RLS = "rule"
  Values = {1, 2}
  Registries <- MCRegistries
  Roles <- MCRoles
  FilterLists <- MCFilterLists
  DimSets <- MCDimSets
  Facts <- MCFacts
  Arguments <- MCArguments
  Overrides <- MCOverrides
  MaxMeasures = 2
  MaxArguments = 2
INVARIANTS
  FiltersReachTheRoot
  RulesStay
  JoinsFollowFilters
  AllSelectedRestores
  OrderMakesNoDifference
