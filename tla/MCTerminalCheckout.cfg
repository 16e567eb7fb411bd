SPECIFICATION Spec
CONSTANTS
  Code <- MCCode
  Products <- MCProducts
  Goods = 2
  Prices = {1}
  LINES = 9
  Prefixes = {"#"}
  OtherTerminals = FALSE
  MaxQuantity = 1
  WindowBound = 2
PROPERTY CheckoutClears
