\* Every item with up to two of the test's field names, any subset of its
\* generic parameters, with and without a where clause.
CONSTANTS
  FieldNames = {"something", "something_else"}
  Generics = {"'y", "T"}
  TypeName = "Foo"
  NoError = NoError
SPECIFICATION Spec
CHECK_DEADLOCK FALSE
INVARIANTS
  TypeOK
