SPECIFICATION Spec
CONSTANTS
  Strings <- MCStrings
  NameLists <- MCNameLists
  Uninitialized <- MCUninitialized
  MaxLength = 2
INVARIANT FindsEveryName
CHECK_DEADLOCK FALSE
