SPECIFICATION Spec
CONSTANTS
  Code <- MCCode
  Products <- MCProducts
  Goods = 2
  Prices = {1, 2}
  LINES = 9
  Prefixes = {"#", "T", "k"}
  OtherTerminals = FALSE
  MaxQuantity = 2
  WindowBound = 1
INVARIANTS
  BasketOK
  ReceiptAdds
PROPERTY IsRegister
