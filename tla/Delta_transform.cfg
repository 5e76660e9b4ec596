SPECIFICATION Spec
CONSTANTS
  Nil = Nil
  Unknown = Unknown
  Data <- MCData
  Walks <- MCWalks
INVARIANT DeltasTransform
