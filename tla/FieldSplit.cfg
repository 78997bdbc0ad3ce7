CONSTANTS
  FieldCounts = {0, 1, 2, 3}
  FieldSizes = {1, 2, 4}
SPECIFICATION Spec
INVARIANT FieldsInArray
