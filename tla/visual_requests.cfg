SPECIFICATION RequestSpec
CONSTANTS
  Facts <- MCFacts
  RowDepth = 3
  ColDepth = 3
  RowExpansions <- MCRowExpansions
  ColExpansions <- MCColExpansions
  Drills <- MCDrills
  MaxCols = 2
  Blanks <- MCBlanks
  FirstYear = 2022
  Years = 5
  FirstWeekday = 5
  Columns <- MCColumns
  Values <- MCValues
  LevelColumn <- MCLevelColumn
  Within <- MCWithin
  Clock = 43200
  Evaluate <- MCEvaluate
  VisualId = "v1"
  Definitions <- MCDefinitions
  Groups <- MCGroups
  Parameters <- MCParameters
  WhatIfs <- MCWhatIfs
  Puts <- MCPuts
  Reports <- MCReports
  Payloads <- MCPayloads
  MatrixPayloads <- MCMatrixPayloads
  Days <- MCDays
  PlansKept = 1
  MaxChanges = 1
INVARIANTS
  CountsEachFactOnce
  CompleteWhenWhole
  TotalsAreEvaluated
  PlansFitTheirRequests
  SlicersHold
  RoutesAgree
  FailsOnlyBy
PROPERTIES
  RangesMoveOn
