SPECIFICATION Spec
CONSTANTS
  Strings <- MCStrings
  NameLists <- MCNameLists
  Uninitialized <- MCUninitialized
  MaxLength = 4
INVARIANTS
  ResultInRange
  FindsComparableNames
PROPERTY
  Returns
CHECK_DEADLOCK FALSE
