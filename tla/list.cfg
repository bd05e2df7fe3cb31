\* Four cells and two elements, one of them NULL; malloc may fail.
SPECIFICATION Spec
CONSTANTS
  Cells = {c1, c2, c3, c4}
  header = header
  Elems = {a, NULL}
  NULL = NULL
INVARIANTS
  EntryFindsCell
PROPERTY
  ImplementsElementList
