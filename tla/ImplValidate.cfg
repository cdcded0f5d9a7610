SPECIFICATION Spec
CONSTANTS
  Types <- MCTypes
  decls <- MCDecls
  Impls <- AllImpls
INVARIANTS TypeOK NamesResolve InnersFit DiesOnlyFor
CHECK_DEADLOCK FALSE
