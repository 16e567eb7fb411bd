SPECIFICATION Spec
CONSTANTS
  Code <- MCCode
  Products <- MCProducts
  Goods = 2
  Prices = {1}
  LINES = 9
  Prefixes = {"#"}
  OtherTerminals = TRUE
  MaxQuantity = 1
  WindowBound = 1
PROPERTIES
  IsRegister
  Responds
