CONSTANTS
  File <- MCFile
  Expr <- MCExpr
  Prefix <- MCPrefix
  A = 1
  SearchLimit = 2
  Width = 5
SPECIFICATION SearchSpec
INVARIANTS PrefixFound ResultsRight WeightsRight HandedRight
