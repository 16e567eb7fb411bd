--------------------------- MODULE TerminalProofs ---------------------------
(***************************************************************************)
(* A terminal, for every set of codes, every table, every screen height    *)
(* and every bound, with or without other terminals. First, TypeOK and     *)
(* BasketOK are invariants. Their conjunction is inductive: the type of    *)
(* the basket is needed to index it, and that every line has a unit is     *)
(* needed for quantities to stay natural numbers. Then a terminal          *)
(* implements Register, its receipts add up, and 'R' erases what is        *)
(* highlighted.                                                            *)
(***************************************************************************)
EXTENDS Terminal, FiniteSetTheorems, TLAPS

IInv == TypeOK /\ BasketOK

(***************************************************************************)
(* Writing a product or erasing a code leaves a table of known rows.       *)
(***************************************************************************)
LEMMA WrittenTable ==
  ASSUME products \subseteq Products
  PROVE  /\ \A p \in Products : update_stock(p) \subseteq Products
         /\ \A c : erase(c) \subseteq Products
  BY DEF update_stock, erase

(***************************************************************************)
(* The sizes the window is compared with are natural numbers.              *)
(***************************************************************************)
LEMMA Sizes ==
  ASSUME products \subseteq Products,
         NEW b \in Seq(Entry),
         NEW tab
  PROVE  /\ stock_size \in Nat
         /\ current_list_size(tab, b) \in Nat
<1>1. IsFiniteSet(products)
  BY FS_Subset, TerminalAssumption
<1>2. stock_size \in Nat
  BY <1>1, FS_CardinalityType DEF stock_size
<1>3. Len(b) \in Nat
  OBVIOUS
<1> QED
  BY <1>2, <1>3 DEF current_list_size

(***************************************************************************)
(* Re-counting the list gives a natural number too.                        *)
(***************************************************************************)
LEMMA CountsType ==
  ASSUME TypeOK
  PROVE  Counts \subseteq Nat
<1>1. current_list_size(current_tab, basket) \in Nat
  BY Sizes DEF TypeOK
<1>2. Cardinality(CodesOf(Products)) \in Nat
  <2> DEFINE f == [p \in Products |-> p.code]
  <2>1. f \in Surjection(Products, CodesOf(Products))
    BY DEF Surjection, CodesOf
  <2>2. IsFiniteSet(CodesOf(Products))
    BY <2>1, FS_Surjection, TerminalAssumption
  <2> QED
    BY <2>2, FS_CardinalityType
<1>3. 0 .. Cardinality(CodesOf(Products)) \subseteq Nat
  BY <1>2
<1> QED
  BY <1>1, <1>3 DEF Counts

(***************************************************************************)
(* code_list() returns a sequence of codes.                                *)
(***************************************************************************)
LEMMA CodeListType ==
  ASSUME products \subseteq Products
  PROVE  code_list \subseteq Seq(Code)
<1>0. stock_size \in Nat
  BY Sizes, <<>> \in Seq(Entry)
<1>1. ASSUME NEW o \in Ordered
      PROVE  o \in [1 .. stock_size -> Code]
  <2>1. PICK r \in [1 .. stock_size -> products] :
          o = [n \in DOMAIN r |-> r[n].code]
    BY <1>1 DEF Ordered
  <2>2. \A n \in 1 .. stock_size : r[n].code \in Code
    BY TerminalAssumption DEF Row
  <2> QED
    BY <2>1, <2>2
<1>2. ASSUME NEW o \in Ordered
      PROVE  o \in Seq(Code) /\ Len(o) = stock_size
  BY <1>0, <1>1
<1>3. ASSUME NEW o \in Ordered, NEW n \in 0 .. stock_size
      PROVE  SubSeq(o, 1, n) \in Seq(Code)
  BY <1>0, <1>2
<1> QED
  BY <1>2, <1>3 DEF code_list

(***************************************************************************)
(* Reading a vector of codes gives a code, inside or outside its bounds.   *)
(***************************************************************************)
LEMMA VectorReadType ==
  ASSUME NEW s \in Seq(Code), NEW i \in Int
  PROVE  VectorRead(s, i) \subseteq Code
<1>1. CASE i \in 0 .. (Len(s) - 1)
  <2>1. i + 1 \in 1 .. Len(s)
    BY <1>1
  <2>2. s[i + 1] \in Code
    BY <2>1
  <2> QED
    BY <1>1, <2>2 DEF VectorRead
<1>2. CASE i \notin 0 .. (Len(s) - 1)
  BY <1>2 DEF VectorRead
<1> QED
  BY <1>1, <1>2

-----------------------------------------------------------------------------
(***************************************************************************)
(* A basket of distinct products with a unit or more of each.              *)
(***************************************************************************)
GoodBasket(b) ==
  /\ b \in Seq(Entry)
  /\ \A i, j \in DOMAIN b : b[i].code = b[j].code => i = j
  /\ \A j \in DOMAIN b : b[j].quantity \in 1 .. MaxQuantity

(***************************************************************************)
(* Changing how many units a line has keeps the basket good.               *)
(***************************************************************************)
LEMMA QuantityKeepsBasket ==
  ASSUME GoodBasket(basket), NEW j \in DOMAIN basket, NEW q \in 1 .. MaxQuantity
  PROVE  GoodBasket([basket EXCEPT ![j].quantity = q])
<1> DEFINE r == [basket[j] EXCEPT !.quantity = q]
           b == [basket EXCEPT ![j] = r]
<1>1. [basket EXCEPT ![j].quantity = q] = b
  OBVIOUS
<1>2. basket \in Seq(Entry) /\ basket[j] \in Entry
  BY DEF GoodBasket
<1>3. r \in Entry /\ r.code = basket[j].code /\ r.quantity = q
  BY <1>2, TerminalAssumption DEF Entry
<1> HIDE DEF r
<1>4. /\ b \in Seq(Entry)
      /\ DOMAIN b = DOMAIN basket
      /\ b[j] = r
      /\ \A i \in DOMAIN basket : i # j => b[i] = basket[i]
  BY <1>2, <1>3
<1> HIDE DEF b
<1>5. \A i \in DOMAIN basket : b[i].code = basket[i].code
  BY <1>3, <1>4
<1>6. \A i \in DOMAIN basket : b[i].quantity \in 1 .. MaxQuantity
  BY <1>3, <1>4 DEF GoodBasket
<1>7. GoodBasket(b)
  BY <1>4, <1>5, <1>6 DEF GoodBasket
<1> QED
  BY <1>1, <1>7

(***************************************************************************)
(* add_product_to_basket() keeps the basket good, for every product and    *)
(* whichever value the uninitialised flag has.                             *)
(***************************************************************************)
LEMMA AddKeepsBasket ==
  ASSUME GoodBasket(basket), NEW c \in Code, add_product_to_basket(c)
  PROVE  GoodBasket(basket')
<1> USE TerminalAssumption
<1>1. CASE \E j \in DOMAIN basket :
             /\ FirstEntry(j, c)
             /\ basket[j].quantity < MaxQuantity
             /\ basket' = [basket EXCEPT ![j].quantity = @ + 1]
  <2>1. PICK j \in DOMAIN basket :
          /\ basket[j].quantity < MaxQuantity
          /\ basket' = [basket EXCEPT ![j].quantity = @ + 1]
    BY <1>1
  <2>2. basket[j].quantity + 1 \in 1 .. MaxQuantity
    BY <2>1 DEF GoodBasket
  <2> QED
    BY <2>1, <2>2, QuantityKeepsBasket
<1>2. CASE /\ c \notin BasketCodes
           /\ basket' = Append(basket, [code |-> c, quantity |-> 1])
  <2> DEFINE e == [code |-> c, quantity |-> 1]
  <2>1. e \in Entry /\ e.code = c /\ e.quantity \in 1 .. MaxQuantity
    BY DEF Entry
  <2>2. /\ basket' \in Seq(Entry)
        /\ Len(basket') = Len(basket) + 1
        /\ \A i \in DOMAIN basket : basket'[i] = basket[i]
        /\ basket'[Len(basket) + 1] = e
    BY <1>2, <2>1 DEF GoodBasket
  <2>3. \A i \in DOMAIN basket : basket[i].code # c
    BY <1>2 DEF BasketCodes
  <2>4. \A i \in DOMAIN basket' : i \in DOMAIN basket \/ i = Len(basket) + 1
    BY <2>2 DEF GoodBasket
  <2> HIDE DEF e
  <2>5. \A i, j \in DOMAIN basket' : basket'[i].code = basket'[j].code => i = j
    BY <2>1, <2>2, <2>3, <2>4 DEF GoodBasket
  <2>6. \A i \in DOMAIN basket' : basket'[i].quantity \in 1 .. MaxQuantity
    BY <2>1, <2>2, <2>4 DEF GoodBasket
  <2> QED
    BY <2>2, <2>5, <2>6 DEF GoodBasket
<1>3. CASE UNCHANGED basket
  BY <1>3
<1> QED
  BY <1>1, <1>2, <1>3 DEF add_product_to_basket

(***************************************************************************)
(* Dropping a line keeps the basket good.                                  *)
(***************************************************************************)
LEMMA DropKeepsBasket ==
  ASSUME GoodBasket(basket), NEW k \in DOMAIN basket
  PROVE  GoodBasket(WithoutEntry(k))
<1> DEFINE w == WithoutEntry(k)
           from(n) == IF n < k THEN n ELSE n + 1
<1>1. Len(basket) \in Nat /\ DOMAIN basket = 1 .. Len(basket) /\ k \in 1 .. Len(basket)
  BY DEF GoodBasket
<1>2. ASSUME NEW n \in 1 .. (Len(basket) - 1)
      PROVE  from(n) \in 1 .. Len(basket)
  BY <1>1
<1>3. \A m, n \in 1 .. (Len(basket) - 1) : from(m) = from(n) => m = n
  BY <1>1
<1>4. w = [n \in 1 .. (Len(basket) - 1) |-> basket[from(n)]]
  BY DEF WithoutEntry
<1>5. DOMAIN w = 1 .. (Len(basket) - 1) /\ \A n \in DOMAIN w : w[n] = basket[from(n)]
  BY <1>4
<1> HIDE DEF w, from
<1>6. w \in Seq(Entry)
  <2>1. Len(basket) - 1 \in Nat
    BY <1>1
  <2>2. \A n \in 1 .. (Len(basket) - 1) : basket[from(n)] \in Entry
    BY <1>2, <1>1 DEF GoodBasket
  <2>3. w \in [1 .. (Len(basket) - 1) -> Entry]
    BY <1>4, <2>2
  <2> QED
    BY <2>1, <2>3
<1>7. \A m, n \in DOMAIN w : w[m].code = w[n].code => m = n
  BY <1>1, <1>2, <1>3, <1>5 DEF GoodBasket
<1>8. \A n \in DOMAIN w : w[n].quantity \in 1 .. MaxQuantity
  BY <1>1, <1>2, <1>5 DEF GoodBasket
<1> QED
  BY <1>6, <1>7, <1>8 DEF GoodBasket, w

(***************************************************************************)
(* 'R' on the basket tab keeps the basket good: the line of a product goes *)
(* with its last unit, and nothing else can make two lines alike.          *)
(***************************************************************************)
LEMMA RemoveKeepsBasket ==
  ASSUME GoodBasket(basket), basket # <<>>, NEW c, RemoveFromBasket(c)
  PROVE  GoodBasket(basket')
<1> USE TerminalAssumption
<1>1. CASE \E j \in DOMAIN basket :
             basket' = IF basket[j].quantity = 1
                         THEN WithoutEntry(j)
                         ELSE [basket EXCEPT ![j].quantity = @ - 1]
  <2>1. PICK j \in DOMAIN basket :
          basket' = IF basket[j].quantity = 1
                      THEN WithoutEntry(j)
                      ELSE [basket EXCEPT ![j].quantity = @ - 1]
    BY <1>1
  <2>2. CASE basket[j].quantity = 1
    BY <2>1, <2>2, DropKeepsBasket
  <2>3. CASE basket[j].quantity # 1
    <3>1. basket[j].quantity - 1 \in 1 .. MaxQuantity
      BY <2>3 DEF GoodBasket
    <3> QED
      BY <2>1, <2>3, <3>1, QuantityKeepsBasket
  <2> QED
    BY <2>2, <2>3
<1>2. CASE basket' = basket
  BY <1>2
<1>3. CASE basket' = WithoutEntry(Len(basket))
  <2>1. Len(basket) \in DOMAIN basket
    BY DEF GoodBasket
  <2> QED
    BY <1>3, <2>1, DropKeepsBasket
<1> QED
  BY <1>1, <1>2, <1>3 DEF RemoveFromBasket

-----------------------------------------------------------------------------
(***************************************************************************)
(* The parts of the invariant that most actions leave alone.               *)
(***************************************************************************)
ScreenOK ==
  /\ current_tab \in Tabs
  /\ selection \in (-WindowBound) .. WindowBound
  /\ start \in (-WindowBound) .. WindowBound
  /\ end \in Int
  /\ product_codes \in Seq(Code) /\ list \in Seq(Code)

ControlOK ==
  /\ pc \in {"top", "size", "fill", "draw", "key", "quit", "modify", "search",
             "found", "scan", "print", "reprint", "exited", "crashed"}
  /\ key \in Keys \cup {"none"}
  /\ found \in Seq(Code) /\ (pc = "found" => found # <<>>)
  /\ barcode_prefix \in Prefixes

SaleOK == GoodBasket(basket) /\ receipt \in Seq(Lines)

(***************************************************************************)
(* The invariant, taken apart.                                             *)
(***************************************************************************)
LEMMA Parts ==
  IInv <=> products \subseteq Products /\ ScreenOK /\ ControlOK /\ SaleOK
  BY DEF IInv, TypeOK, BasketOK, ScreenOK, ControlOK, SaleOK, GoodBasket

(***************************************************************************)
(* The same of the next state.                                             *)
(***************************************************************************)
LEMMA PartsNext ==
  IInv' <=> products' \subseteq Products /\ ScreenOK' /\ ControlOK' /\ SaleOK'
  BY DEF IInv, TypeOK, BasketOK, ScreenOK, ControlOK, SaleOK, GoodBasket

(***************************************************************************)
(* What a step does not name keeps its part of the invariant.              *)
(***************************************************************************)
LEMMA Kept ==
  /\ ScreenOK /\ UNCHANGED <<current_tab, selection, start, end,
                             product_codes, list>> => ScreenOK'
  /\ SaleOK /\ UNCHANGED <<basket, receipt>> => SaleOK'
  BY DEF ScreenOK, SaleOK, GoodBasket

(***************************************************************************)
(* A process that starts, or ends and is started again, has the invariant. *)
(***************************************************************************)
LEMMA EndsOK ==
  ASSUME NEW how \in {"exited", "crashed"},
         ProcessEnds(how),
         products' \subseteq Products
  PROVE  IInv'
<1>1. ScreenOK'
  BY TerminalAssumption DEF ProcessEnds, ScreenOK, Tabs
<1>2. ControlOK'
  BY TerminalAssumption DEF ProcessEnds, ControlOK
<1>3. SaleOK'
  BY DEF ProcessEnds, SaleOK, GoodBasket
<1> QED
  BY <1>1, <1>2, <1>3, PartsNext

(***************************************************************************)
(* So has one that an exception or a fault ends.                           *)
(***************************************************************************)
LEMMA CrashOK ==
  ASSUME IInv, Crash
  PROVE  IInv'
  BY EndsOK, Parts DEF Crash

(***************************************************************************)
(* A handler that is over leaves the control state well-formed.            *)
(***************************************************************************)
LEMMA FinishOK ==
  ASSUME NEW k \in Keys \cup {"none"}, Finish(k), ControlOK,
         found' \in Seq(Code), UNCHANGED barcode_prefix
  PROVE  ControlOK'
  BY DEF Finish, Done, ControlOK

(***************************************************************************)
(* A window that is moved stays within its bounds.                         *)
(***************************************************************************)
LEMMA WindowOK ==
  ASSUME ScreenOK, NEW first, NEW last \in Int, NEW line,
         Window(first, last, line),
         current_tab' \in Tabs, UNCHANGED <<product_codes, list>>
  PROVE  ScreenOK'
  BY DEF Window, ScreenOK

(***************************************************************************)
(* So does one that is reset, or left where it is.                         *)
(***************************************************************************)
LEMMA ResetOK ==
  ASSUME ScreenOK, ResetWindow \/ SameWindow,
         current_tab' \in Tabs, UNCHANGED <<product_codes, list>>
  PROVE  ScreenOK'
  BY DEF ResetWindow, SameWindow, Window, ScreenOK

(***************************************************************************)
(* Ringing up a product.                                                   *)
(***************************************************************************)
LEMMA RingUpOK ==
  ASSUME SaleOK, NEW c \in Code, RingUp(c)
  PROVE  SaleOK' /\ current_tab' \in Tabs
<1>1. GoodBasket(basket)'
  BY AddKeepsBasket DEF RingUp, SaleOK, GoodBasket
<1> QED
  BY <1>1 DEF RingUp, SaleOK, Tabs

(***************************************************************************)
(* The selected line holds a code.                                         *)
(***************************************************************************)
LEMMA SelectedType ==
  ASSUME ScreenOK, NEW line \in Int
  PROVE  Selected(line) \subseteq Code
  BY VectorReadType DEF Selected, ScreenOK

-----------------------------------------------------------------------------
(***************************************************************************)
(* The head of the loop keeps the invariant.                               *)
(***************************************************************************)
LEMMA LoopHeadKeeps ==
  ASSUME IInv, LoopHead
  PROVE  IInv'
<1> USE Parts, PartsNext
<1>1. CASE LoadCodes
  <2>1. product_codes' \in Seq(Code)
    BY <1>1, CodeListType DEF LoadCodes
  <2>2. ScreenOK'
    BY <1>1, <2>1 DEF LoadCodes, ScreenOK
  <2>3. ControlOK'
    BY <1>1 DEF LoadCodes, ControlOK
  <2>4. SaleOK'
    BY <1>1, Kept DEF LoadCodes, sale
  <2> QED
    BY <1>1, <2>2, <2>3, <2>4 DEF LoadCodes
<1>2. CASE SizeWindow
  <2>1. max_products_nr \in Int
    BY TerminalAssumption DEF max_products_nr
  <2>2. Counts \subseteq Nat
    BY CountsType DEF IInv
  <2>3. end' \in Int
    <3>1. start \in Int
      BY TerminalAssumption DEF ScreenOK
    <3>2. end' \in Counts \/ end' = max_products_nr + start
      BY <1>2 DEF SizeWindow
    <3>3. CASE end' \in Counts
      BY <2>2, <3>3
    <3>4. max_products_nr + start \in Int
      BY <2>1, <3>1
    <3> QED
      BY <3>2, <3>3, <3>4
  <2>4. ScreenOK'
    BY <1>2, <2>3 DEF SizeWindow, ScreenOK
  <2>5. ControlOK'
    BY <1>2 DEF SizeWindow, ControlOK
  <2>6. SaleOK'
    BY <1>2, Kept DEF SizeWindow, sale
  <2> QED
    BY <1>2, <2>4, <2>5, <2>6 DEF SizeWindow
<1>3. CASE FillWindow
  <2>1. CASE Crash
    BY <2>1, CrashOK
  <2>2. CASE /\ \E codes : list' \in Visible(codes)
             /\ pc' = "draw"
             /\ UNCHANGED <<products, key, current_tab, selection, start, end,
                            product_codes, found, sale, barcode_prefix>>
    <3>1. (IF end > start THEN end - start ELSE 0) \in Nat
      BY DEF ScreenOK
    <3>2. list' \in Seq(Code)
      BY <2>2, <3>1 DEF Visible
    <3>3. ScreenOK'
      BY <2>2, <3>2 DEF ScreenOK
    <3>4. ControlOK'
      BY <2>2 DEF ControlOK
    <3>5. SaleOK'
      BY <2>2, Kept DEF sale
    <3> QED
      BY <2>2, <3>3, <3>4, <3>5
  <2> QED
    BY <1>3, <2>1, <2>2 DEF FillWindow
<1>4. CASE Draw
  <2>1. CASE Crash
    BY <2>1, CrashOK
  <2>2. CASE /\ pc' = "key"
             /\ UNCHANGED <<products, key, screen, basket, receipt,
                            receipt_total, barcode_prefix>>
    <3>1. ScreenOK' /\ SaleOK'
      BY <2>2, Kept DEF screen
    <3>2. ControlOK'
      BY <2>2 DEF ControlOK, screen
    <3> QED
      BY <2>2, <3>1, <3>2
  <2> QED
    BY <1>4, <2>1, <2>2 DEF Draw
<1> QED
  BY <1>1, <1>2, <1>3, <1>4 DEF LoopHead

(***************************************************************************)
(* A step that only moves on, with the screen and the sale as they are.    *)
(***************************************************************************)
LEMMA MoveOn ==
  ASSUME IInv,
         \/ \E k \in Keys \cup {"none"} : Finish(k)
         \/ /\ key' \in Keys
            /\ pc' \in {"quit", "modify", "search", "print", "top"},
         found' \in Seq(Code),
         barcode_prefix' = barcode_prefix,
         products' \subseteq Products,
         UNCHANGED <<current_tab, selection, start, end, product_codes, list,
                     sale>>
  PROVE  IInv'
<1> USE Parts, PartsNext
<1>1. ScreenOK' /\ SaleOK'
  BY Kept DEF sale
<1>2. ControlOK'
  BY DEF Finish, Done, ControlOK
<1> QED
  BY <1>1, <1>2

(***************************************************************************)
(* The handlers that neither move the window nor touch the basket.         *)
(***************************************************************************)
LEMMA PlainHandlersKeep ==
  ASSUME IInv,
         \/ Quit \/ ConfirmQuit \/ OtherKey \/ MainMenu
         \/ AddProduct \/ ModifyProduct \/ FinishModify
         \/ StartSearch \/ FinishSearch \/ ModifyFound \/ StartPrint
  PROVE  IInv'
<1> USE Parts, PartsNext
<1>0. "q" \in Keys /\ "R" \in Keys /\ "a" \in Keys /\ "m" \in Keys /\ "/" \in Keys
      /\ "t" \in Keys /\ "T" \in Keys /\ "ESC" \in Keys
  BY DEF Keys
<1>a. key \in Keys \cup {"none"} /\ found \in Seq(Code) /\ <<>> \in Seq(Code)
  BY DEF ControlOK
<1>1. CASE Quit
  <2>1. CASE ProcessEnds("exited") /\ UNCHANGED products
    BY <2>1, EndsOK
  <2>2. CASE /\ key' = "q" /\ pc' = "quit"
             /\ UNCHANGED <<products, screen, sale, barcode_prefix>>
    BY <2>2, <1>0, <1>a, MoveOn DEF screen
  <2> QED
    BY <1>1, <2>1, <2>2 DEF Quit
<1>2. CASE ConfirmQuit
  BY <1>2, EndsOK DEF ConfirmQuit
<1>3. CASE OtherKey
  <2>1. Unhandled \subseteq Keys
    BY DEF Unhandled, Keys
  <2> QED
    BY <1>3, <1>a, <2>1, MoveOn DEF OtherKey
<1>4. CASE MainMenu
  <2>1. CASE Crash
    BY <2>1, CrashOK
  <2>2. CASE /\ barcode_prefix' \in Prefixes
             /\ key' = "ESC" /\ pc' = "top"
             /\ UNCHANGED <<products, screen, sale>>
    <3>1. ScreenOK' /\ SaleOK'
      BY <2>2, Kept DEF screen, sale
    <3>2. ControlOK'
      BY <2>2, <1>0 DEF ControlOK, screen
    <3> QED
      BY <2>2, <3>1, <3>2
  <2> QED
    BY <1>4, <2>1, <2>2 DEF MainMenu
<1>5. ASSUME NEW k \in Keys, StartModify(k)
      PROVE  IInv'
  <2>1. CASE Crash
    BY <2>1, CrashOK
  <2>2. CASE /\ key' = k /\ pc' = "modify"
             /\ UNCHANGED <<products, screen, sale, barcode_prefix>>
    BY <2>2, <1>a, MoveOn DEF screen
  <2> QED
    BY <1>5, <2>1, <2>2 DEF StartModify
<1>6. ASSUME NEW k \in Keys, Finish(k),
             UNCHANGED <<products, screen, sale, barcode_prefix>>
      PROVE  IInv'
  BY <1>6, <1>a, MoveOn DEF screen
<1>7. CASE AddProduct
  BY <1>7, <1>0, <1>5, <1>6 DEF AddProduct
<1>8. CASE ModifyProduct
  BY <1>8, <1>0, <1>5, <1>6 DEF ModifyProduct
<1>9. CASE FinishModify
  <2>1. CASE Crash
    BY <2>1, CrashOK
  <2>2. CASE /\ \/ UNCHANGED products
                \/ \E p \in Products : products' = update_stock(p)
             /\ Finish(key)
             /\ found' = <<>>
             /\ UNCHANGED <<current_tab, selection, start, end, product_codes,
                            list, sale, barcode_prefix>>
    <3>1. products' \subseteq Products
      BY <2>2, WrittenTable
    <3> QED
      BY <2>2, <3>1, <1>a, MoveOn
  <2> QED
    BY <1>9, <2>1, <2>2 DEF FinishModify
<1>10. CASE StartSearch
  BY <1>10, <1>0, <1>a, MoveOn DEF StartSearch, screen
<1>11. CASE FinishSearch
  <2>1. CASE Crash
    BY <2>1, CrashOK
  <2>2. CASE Finish(key) /\ UNCHANGED <<products, screen, sale, barcode_prefix>>
    BY <2>2, <1>a, MoveOn DEF screen
  <2>3. CASE /\ \E i \in SearchIndexes : \E c \in VectorRead(product_codes, i) :
                  found' = <<c>>
             /\ pc' = "found"
             /\ UNCHANGED <<products, key, current_tab, selection, start, end,
                            product_codes, list, sale, barcode_prefix>>
    <3>1. PICK i \in SearchIndexes :
            \E c \in VectorRead(product_codes, i) : found' = <<c>>
      BY <2>3
    <3>a. PICK c \in VectorRead(product_codes, i) : found' = <<c>>
      BY <3>1
    <3>2. SearchIndexes \subseteq Int
      BY DEF SearchIndexes
    <3>3. c \in Code
      BY <3>2, VectorReadType DEF ScreenOK
    <3>4. found' \in Seq(Code) /\ found' # <<>>
      BY <3>a, <3>3
    <3>5. ControlOK'
      BY <2>3, <3>4 DEF ControlOK
    <3>6. ScreenOK' /\ SaleOK'
      BY <2>3, Kept DEF sale
    <3> QED
      BY <2>3, <3>5, <3>6
  <2> QED
    BY <1>11, <2>1, <2>2, <2>3 DEF FinishSearch
<1>12. CASE ModifyFound
  <2>1. CASE Crash
    BY <2>1, CrashOK
  <2>2. CASE /\ key' = "m" /\ pc' = "modify"
             /\ UNCHANGED <<products, screen, sale, barcode_prefix>>
    BY <2>2, <1>0, <1>a, MoveOn DEF screen
  <2> QED
    BY <1>12, <2>1, <2>2 DEF ModifyFound
<1>13. CASE StartPrint
  BY <1>13, <1>0, <1>a, MoveOn DEF StartPrint
<1> QED
  BY <1>1, <1>2, <1>3, <1>4, <1>7, <1>8, <1>9, <1>10, <1>11, <1>12, <1>13

(***************************************************************************)
(* The handlers that move the window or switch the tab.                    *)
(***************************************************************************)
LEMMA WindowHandlersKeep ==
  ASSUME IInv,
         SwitchTab \/ StockTab \/ ScrollUp \/ ScrollDown \/ Up \/ Down
  PROVE  IInv'
<1> USE Parts, PartsNext
<1>0. /\ "TAB" \in Keys /\ "r" \in Keys /\ "w" \in Keys /\ "s" \in Keys
      /\ MoveKeys("UP", "k") \subseteq Keys /\ MoveKeys("DOWN", "j") \subseteq Keys
  BY DEF Keys, MoveKeys
<1>1. /\ start \in Int /\ selection \in Int /\ end \in Int
      /\ end - 1 \in Int /\ end + 1 \in Int
  BY TerminalAssumption DEF ScreenOK
<1>2. found \in Seq(Code) /\ <<>> \in Seq(Code)
  BY DEF ControlOK
<1>3. ASSUME NEW k \in Keys, Finish(k), found' \in Seq(Code), ScreenOK',
             UNCHANGED <<products, sale, barcode_prefix>>
      PROVE  IInv'
  <2>1. SaleOK'
    BY <1>3, Kept DEF sale
  <2>2. ControlOK'
    BY <1>3, FinishOK
  <2> QED
    BY <1>3, <2>1, <2>2
<1>4. CASE SwitchTab
  <2>1. current_tab' \in Tabs
    BY <1>4 DEF SwitchTab, Tabs
  <2>2. ScreenOK'
    BY <1>4, <2>1, ResetOK DEF SwitchTab
  <2> QED
    BY <1>0, <1>2, <1>3, <1>4, <2>2 DEF SwitchTab
<1>5. CASE StockTab
  <2>1. ScreenOK'
    BY <1>5 DEF StockTab, ScreenOK, Tabs
  <2> QED
    BY <1>0, <1>2, <1>3, <1>5, <2>1 DEF StockTab
<1>6. CASE ScrollUp
  <2>1. ScreenOK'
    BY <1>1, <1>6, WindowOK, ResetOK DEF ScrollUp, ScreenOK
  <2> QED
    BY <1>0, <1>2, <1>3, <1>6, <2>1 DEF ScrollUp
<1>7. CASE ScrollDown
  <2>1. ScreenOK'
    BY <1>1, <1>7, WindowOK, ResetOK DEF ScrollDown, ScreenOK
  <2> QED
    BY <1>0, <1>2, <1>3, <1>7, <2>1 DEF ScrollDown
<1>8. CASE Up
  <2>1. \E first, line : \/ Window(first, end - 1, line)
                         \/ Window(first, end, line)
    BY <1>8 DEF Up
  <2>2. ScreenOK'
    BY <1>1, <1>8, <2>1, WindowOK DEF Up, ScreenOK
  <2> QED
    BY <1>0, <1>2, <1>3, <1>8, <2>2 DEF Up
<1>9. CASE Down
  <2>1. \E first, line : \/ Window(first, end + 1, line)
                         \/ Window(first, end, line)
    BY <1>9 DEF Down
  <2>2. ScreenOK'
    BY <1>1, <1>9, <2>1, WindowOK DEF Down, ScreenOK
  <2> QED
    BY <1>0, <1>2, <1>3, <1>9, <2>2 DEF Down
<1> QED
  BY <1>4, <1>5, <1>6, <1>7, <1>8, <1>9

(***************************************************************************)
(* The handlers that add to the basket.                                    *)
(***************************************************************************)
LEMMA RingingHandlersKeep ==
  ASSUME IInv, AddSelected \/ AddFound \/ Scan
  PROVE  IInv'
<1> USE Parts, PartsNext
<1>0. "ENTER" \in Keys
  BY DEF Keys
<1>1. found \in Seq(Code) /\ <<>> \in Seq(Code) /\ selection \in Int
  BY TerminalAssumption DEF ControlOK, ScreenOK
<1>2. ASSUME NEW c \in Code, RingUp(c), ResetWindow \/ SameWindow,
             Finish("ENTER"), found' \in Seq(Code),
             UNCHANGED <<products, product_codes, list, barcode_prefix>>
      PROVE  IInv'
  <2>1. SaleOK' /\ current_tab' \in Tabs
    BY <1>2, RingUpOK
  <2>2. ScreenOK'
    BY <1>2, <2>1, ResetOK
  <2>3. ControlOK'
    BY <1>0, <1>2, FinishOK
  <2> QED
    BY <1>2, <2>1, <2>2, <2>3
<1>3. CASE AddSelected
  <2>1. CASE Crash
    BY <2>1, CrashOK
  <2>2. CASE Finish("ENTER") /\ UNCHANGED <<products, screen, sale, barcode_prefix>>
    BY <1>0, <1>1, <2>2, MoveOn DEF screen
  <2>3. CASE /\ \E c \in Selected(selection) : RingUp(c)
             /\ ResetPastBasket
             /\ Finish("ENTER")
             /\ UNCHANGED <<products, product_codes, list, found, barcode_prefix>>
    <3>1. PICK c \in Selected(selection) : RingUp(c)
      BY <2>3
    <3>2. c \in Code
      BY <1>1, SelectedType
    <3> QED
      BY <1>1, <1>2, <2>3, <3>1, <3>2 DEF ResetPastBasket
  <2> QED
    BY <1>3, <2>1, <2>2, <2>3 DEF AddSelected
<1>4. CASE AddFound
  <2>1. CASE Crash
    BY <2>1, CrashOK
  <2>2. CASE /\ RingUp(found[1])
             /\ ResetPastBasket
             /\ found' = <<>>
             /\ Finish("ENTER")
             /\ UNCHANGED <<products, product_codes, list, barcode_prefix>>
    <3>1. found # <<>>
      BY <1>4 DEF AddFound, ControlOK
    <3>2. found[1] \in Code
      BY <1>1, <3>1
    <3> QED
      BY <1>1, <1>2, <2>2, <3>2 DEF ResetPastBasket
  <2> QED
    BY <1>4, <2>1, <2>2 DEF AddFound
<1>5. CASE Scan
  <2>1. CASE Crash
    BY <2>1, CrashOK
  <2>2. CASE /\ \E c \in Code :
                  \/ RingUp(c)
                  \/ UNCHANGED <<current_tab, sale>>
             /\ ResetWindow \/ SameWindow
             /\ pc' = "top"
             /\ UNCHANGED <<products, key, product_codes, list, found,
                            barcode_prefix>>
    <3>1. SaleOK' /\ current_tab' \in Tabs
      <4>1. CASE \E c \in Code : RingUp(c)
        BY <4>1, RingUpOK
      <4>2. CASE UNCHANGED <<current_tab, sale>>
        BY <4>2, Kept DEF sale, ScreenOK
      <4> QED
        BY <2>2, <4>1, <4>2
    <3>2. ScreenOK'
      BY <2>2, <3>1, ResetOK
    <3>3. ControlOK'
      BY <2>2 DEF ControlOK
    <3> QED
      BY <2>2, <3>1, <3>2, <3>3
  <2> QED
    BY <1>5, <2>1, <2>2 DEF Scan
<1> QED
  BY <1>3, <1>4, <1>5

(***************************************************************************)
(* 'R', on the product list and in the basket.                             *)
(***************************************************************************)
LEMMA RemoveKeeps ==
  ASSUME IInv, Remove
  PROVE  IInv'
<1> USE Parts, PartsNext
<1>0. "R" \in Keys
  BY DEF Keys
<1>1. CASE Crash
  BY <1>1, CrashOK
<1>2. CASE Finish("R") /\ UNCHANGED <<products, screen, sale, barcode_prefix>>
  BY <1>0, <1>2, MoveOn DEF screen, ControlOK
<1>3. CASE /\ current_list_size(current_tab, basket) # 0
           /\ Window(start - MoveUp, end - MoveUp, selection - MoveUp)
           /\ \E c \in Selected(selection - MoveUp) :
                IF current_tab = "BASKET"
                  THEN RemoveFromBasket(c) /\ UNCHANGED products
                  ELSE products' = erase(c) /\ UNCHANGED basket
           /\ Finish("R")
           /\ UNCHANGED <<current_tab, product_codes, list, found, total,
                          receipt, receipt_total, barcode_prefix>>
  <2>1. MoveUp \in Int
    BY DEF MoveUp
  <2>2. end - MoveUp \in Int
    BY <2>1 DEF ScreenOK
  <2>3. ScreenOK'
    BY <1>3, <2>2, WindowOK DEF ScreenOK
  <2>4. ControlOK'
    BY <1>0, <1>3, FinishOK DEF ControlOK
  <2>5. CASE current_tab = "BASKET"
    <3>1. basket # <<>>
      BY <1>3, <2>5 DEF current_list_size
    <3>2. GoodBasket(basket')
      BY <1>3, <2>5, <3>1, RemoveKeepsBasket DEF SaleOK
    <3>3. SaleOK'
      BY <1>3, <3>2 DEF SaleOK, GoodBasket
    <3> QED
      BY <1>3, <2>3, <2>4, <2>5, <3>3
  <2>6. CASE current_tab # "BASKET"
    <3>1. products' \subseteq Products
      BY <1>3, <2>6, WrittenTable
    <3>2. SaleOK'
      BY <1>3, <2>6, Kept
    <3> QED
      BY <2>3, <2>4, <3>1, <3>2
  <2> QED
    BY <2>5, <2>6
<1> QED
  BY <1>1, <1>2, <1>3 DEF Remove

(***************************************************************************)
(* Printing.  What a line comes to is an integer.                          *)
(***************************************************************************)
LEMMA AmountType ==
  ASSUME IInv, NEW row \in RowsRead(BasketCodes), NEW j \in DOMAIN basket
  PROVE  Amount(row, j) \in Int
<1> DEFINE p == row[basket[j].code]
<1>1. basket[j].code \in BasketCodes
  BY DEF BasketCodes
<1>2. p \in Products
  BY <1>1, Parts DEF RowsRead
<1>3. p \in Row
  BY <1>2, TerminalAssumption
<1>4. p.price \in Int /\ 100 - p.discount \in Int
  BY <1>3 DEF Row
<1>5. basket[j].quantity \in Int
  BY Parts DEF SaleOK, GoodBasket, Entry
<1>6. \A x, y, z \in Int : (x * y) * z \in Int
  OBVIOUS
<1> QED
  BY <1>4, <1>5, <1>6 DEF Amount, price_after_discount

(***************************************************************************)
(* The steps of print_receipt() keep the invariant.                        *)
(***************************************************************************)
LEMMA PrintingKeeps ==
  ASSUME IInv, PrintFails \/ print_receipt \/ Reprint \/ FinishPrint
  PROVE  IInv'
<1> USE Parts, PartsNext
<1>0. key \in Keys \cup {"none"} /\ found \in Seq(Code)
  BY DEF ControlOK
<1>1. ASSUME ControlOK', GoodBasket(basket'), receipt' \in Seq(Lines),
             UNCHANGED <<products, screen>>
      PROVE  IInv'
  <2>1. ScreenOK'
    BY <1>1, Kept DEF screen
  <2>2. SaleOK'
    BY <1>1 DEF SaleOK, GoodBasket
  <2> QED
    BY <1>1, <2>1, <2>2
<1>2. GoodBasket(<<>>) /\ GoodBasket(basket) /\ <<>> \in Seq(Lines)
  BY DEF GoodBasket, SaleOK
<1>3. CASE PrintFails
  <2>1. ControlOK'
    BY <1>0, <1>3, FinishOK DEF PrintFails, screen
  <2> QED
    BY <1>1, <1>2, <1>3, <2>1 DEF PrintFails
<1>4. CASE print_receipt
  <2>1. CASE Crash
    BY <2>1, CrashOK
  <2>2. CASE /\ \E row \in RowsRead(BasketCodes) :
                  receipt' = [j \in DOMAIN basket |->
                                [code     |-> basket[j].code,
                                 quantity |-> basket[j].quantity,
                                 amount   |-> Amount(row, j)]]
             /\ pc' = "reprint"
             /\ UNCHANGED <<products, key, screen, basket, barcode_prefix>>
    <3>1. PICK row \in RowsRead(BasketCodes) :
            receipt' = [j \in DOMAIN basket |->
                          [code     |-> basket[j].code,
                           quantity |-> basket[j].quantity,
                           amount   |-> Amount(row, j)]]
      BY <2>2
    <3>2. \A j \in DOMAIN basket : Amount(row, j) \in Int
      BY AmountType
    <3>3. \A j \in DOMAIN basket : basket[j].code \in Code /\ basket[j].quantity \in Nat
      <4>1. \A j \in DOMAIN basket : basket[j] \in Entry
        BY <1>2 DEF GoodBasket
      <4> QED
        BY <4>1 DEF Entry
    <3>4. \A j \in DOMAIN basket :
            [code     |-> basket[j].code,
             quantity |-> basket[j].quantity,
             amount   |-> Amount(row, j)] \in Lines
      BY <3>2, <3>3 DEF Lines
    <3>5. DOMAIN basket = 1 .. Len(basket) /\ Len(basket) \in Nat
      BY <1>2 DEF GoodBasket
    <3>6. receipt' \in Seq(Lines)
      BY <3>1, <3>4, <3>5
    <3>7. ControlOK'
      BY <2>2 DEF ControlOK, screen
    <3> QED
      BY <1>1, <1>2, <2>2, <3>6, <3>7
  <2> QED
    BY <1>4, <2>1, <2>2 DEF print_receipt
<1>5. CASE Reprint
  <2>1. ControlOK'
    BY <1>5 DEF Reprint, ControlOK, screen
  <2> QED
    BY <1>1, <1>2, <1>5, <2>1 DEF Reprint, sale, SaleOK
<1>6. CASE FinishPrint
  <2>1. ControlOK'
    BY <1>0, <1>6, FinishOK DEF FinishPrint, screen
  <2>2. basket' = <<>> \/ basket' = basket
    BY <1>6 DEF FinishPrint
  <2> QED
    BY <1>1, <1>2, <1>6, <2>1, <2>2 DEF FinishPrint
<1> QED
  BY <1>3, <1>4, <1>5, <1>6

(***************************************************************************)
(* What happens outside the program: other terminals, a lost connection,   *)
(* a restart.                                                              *)
(***************************************************************************)
LEMMA EnvironmentKeeps ==
  ASSUME IInv, OtherTerminal \/ ConnectionLost \/ Restart
  PROVE  IInv'
<1> USE Parts, PartsNext
<1>1. CASE OtherTerminal
  <2>1. products' \subseteq Products
    BY <1>1, WrittenTable DEF OtherTerminal
  <2>2. ScreenOK' /\ SaleOK'
    BY <1>1, Kept DEF OtherTerminal, screen, sale
  <2>3. ControlOK'
    BY <1>1 DEF OtherTerminal, ControlOK, screen
  <2> QED
    BY <2>1, <2>2, <2>3
<1>2. CASE ConnectionLost
  <2>1. products' \subseteq Products
    BY <1>2, WrittenTable DEF ConnectionLost
  <2> QED
    BY <1>2, <2>1, EndsOK DEF ConnectionLost
<1>3. CASE Restart
  <2>1. ScreenOK' /\ SaleOK'
    BY <1>3, Kept DEF Restart, screen, sale
  <2>2. ControlOK'
    BY <1>3 DEF Restart, ControlOK, screen
  <2> QED
    BY <1>3, <2>1, <2>2 DEF Restart
<1> QED
  BY <1>1, <1>2, <1>3

-----------------------------------------------------------------------------
(***************************************************************************)
(* The conjunction of TypeOK and BasketOK is inductive.                    *)
(***************************************************************************)
LEMMA Inductive ==
  /\ Init => IInv
  /\ IInv /\ [Next]_vars => IInv'
<1>1. ASSUME Init
      PROVE  IInv
  <2>1. ScreenOK
    BY <1>1, TerminalAssumption DEF Init, ScreenOK, Tabs
  <2>2. ControlOK
    BY <1>1, TerminalAssumption DEF Init, ControlOK
  <2>3. SaleOK
    BY <1>1 DEF Init, SaleOK, GoodBasket
  <2> QED
    BY <1>1, <2>1, <2>2, <2>3, Parts DEF Init
<1>2. ASSUME IInv, Next
      PROVE  IInv'
  <2>1. CASE LoopHead
    BY <1>2, <2>1, LoopHeadKeeps
  <2>2. CASE Handler
    BY <1>2, <2>2, PlainHandlersKeep, WindowHandlersKeep, RingingHandlersKeep,
       RemoveKeeps, PrintingKeeps DEF Handler
  <2>3. CASE OtherTerminal \/ ConnectionLost \/ Restart
    BY <1>2, <2>3, EnvironmentKeeps
  <2> QED
    BY <1>2, <2>1, <2>2, <2>3 DEF Next
<1>3. ASSUME IInv, UNCHANGED vars
      PROVE  IInv'
  <2>1. ScreenOK' /\ SaleOK'
    BY <1>3, Parts, Kept DEF vars, screen, sale
  <2>2. ControlOK'
    BY <1>3, Parts DEF vars, ControlOK, screen
  <2> QED
    BY <1>3, <2>1, <2>2, Parts, PartsNext DEF vars
<1> QED
  BY <1>1, <1>2, <1>3

(***************************************************************************)
(* Every variable of the terminal keeps its type in every behaviour, the   *)
(* bounds of the window included.                                          *)
(***************************************************************************)
THEOREM TerminalTypeOK == Spec => []TypeOK
<1>1. IInv => TypeOK
  BY DEF IInv
<1> QED
  BY <1>1, Inductive, PTL DEF Spec

(***************************************************************************)
(* The basket has one line per product and a unit or more on every line,   *)
(* for every table, screen and set of codes and whatever other terminals   *)
(* do.                                                                     *)
(***************************************************************************)
THEOREM TerminalBasketOK == Spec => []BasketOK
<1>1. IInv => BasketOK
  BY DEF IInv
<1> QED
  BY <1>1, Inductive, PTL DEF Spec

-----------------------------------------------------------------------------
(***************************************************************************)
(* A terminal is a Register, its receipts add up, and 'R' erases what is   *)
(* highlighted: for every set of codes, table, screen and bound.           *)
(*                                                                         *)
(* The invariants so far do not mention the receipt.  The refinement needs *)
(* to know where one may be out, and that it then lists the basket as it   *)
(* still is (SlipOK).  The sum of a receipt needs the total to be that of  *)
(* the basket and the table from the drawing of the screen to the printing *)
(* (TotalOK).  What 'R' erases needs the length of the list to be that of  *)
(* the window it was filled from (LineOK).                                 *)
(***************************************************************************)

\* The receipt r lists the basket b.
Lists(r, b) ==
  /\ DOMAIN r = DOMAIN b
  /\ \A j \in DOMAIN b : r[j].code = b[j].code /\ r[j].quantity = b[j].quantity

SlipOK ==
  /\ pc \notin {"print", "reprint"} => receipt = <<>>
  /\ pc = "reprint" => receipt # <<>>
  /\ receipt # <<>> => Lists(receipt, basket)
  /\ ~Running => basket = <<>>

OneRowPerCode == \A p, q \in products : p.code = q.code => p = q

TotalOK ==
  /\ OneRowPerCode
  /\ pc \in {"key", "quit", "search", "found", "print", "reprint"} =>
       \E row \in RowsRead(BasketCodes) : total = BasketTotal(row)
  /\ pc = "reprint" =>
       /\ receipt_total = total
       /\ DOMAIN receipt = DOMAIN basket
       /\ \E row \in RowsRead(BasketCodes) :
            \A j \in DOMAIN basket : receipt[j].amount = Amount(row, j)

LineOK ==
  /\ pc \in {"size", "fill", "draw", "key"} => key = "none"
  /\ pc = "quit" => key = "q"
  /\ pc \in {"draw", "key", "quit"} =>
       Len(list) = IF end > start THEN end - start ELSE 0

-----------------------------------------------------------------------------
(***************************************************************************)
(* LineOK: where a key is awaited, the list on the screen has the length   *)
(* of the window it was filled from.  Most steps leave for a place LineOK  *)
(* says nothing of.                                                        *)
(***************************************************************************)
LEMMA LineElsewhere ==
  ASSUME pc' \notin {"size", "fill", "draw", "key", "quit"}
  PROVE  LineOK'
  BY DEF LineOK

(***************************************************************************)
(* A handler that is over is at the top of the loop or at the scanner.     *)
(***************************************************************************)
LEMMA FinishLeaves ==
  ASSUME NEW k, Finish(k)
  PROVE  pc' \in {"top", "scan"} /\ key' = k
  BY DEF Finish, Done

(***************************************************************************)
(* Every step keeps LineOK.                                                *)
(***************************************************************************)
LEMMA LineInductive ==
  ASSUME IInv, LineOK, [Next]_vars
  PROVE  LineOK'
<1>1. CASE LoadCodes
  BY <1>1 DEF LoadCodes, LineOK
<1>2. CASE SizeWindow
  BY <1>2 DEF SizeWindow, LineOK
<1>3. CASE FillWindow
  <2>1. CASE Crash
    BY <2>1, LineElsewhere DEF Crash, ProcessEnds
  <2>2. CASE /\ \E codes : list' \in Visible(codes)
             /\ pc' = "draw"
             /\ UNCHANGED <<products, key, current_tab, selection, start, end,
                            product_codes, found, sale, barcode_prefix>>
    <3>1. (IF end > start THEN end - start ELSE 0) \in Nat
      BY Parts DEF ScreenOK
    <3>2. Len(list') = IF end > start THEN end - start ELSE 0
      BY <2>2, <3>1 DEF Visible
    <3> QED
      BY <1>3, <2>2, <3>2 DEF LineOK, FillWindow
  <2> QED
    BY <1>3, <2>1, <2>2 DEF FillWindow
<1>4. CASE Draw
  BY <1>4 DEF Draw, Crash, ProcessEnds, LineOK, screen
<1>5. CASE Handler
  <2>1. CASE Quit
    BY <2>1 DEF Quit, ProcessEnds, LineOK, screen
  <2>2. CASE ~Quit
    <3>1. pc' \notin {"size", "fill", "draw", "key", "quit"}
      BY <1>5, <2>2, FinishLeaves
         DEF Handler, ConfirmQuit, OtherKey, MainMenu, Remove, AddProduct,
             ModifyProduct, FinishModify, StartModify, SwitchTab, StockTab,
             ScrollUp, ScrollDown, Up, Down, AddSelected, StartSearch,
             FinishSearch, ModifyFound, AddFound, Scan, StartPrint,
             PrintFails, print_receipt, Reprint, FinishPrint, Crash,
             ProcessEnds
    <3> QED
      BY <3>1, LineElsewhere
  <2> QED
    BY <2>1, <2>2
<1>6. CASE OtherTerminal
  BY <1>6 DEF OtherTerminal, LineOK, screen
<1>7. CASE ConnectionLost \/ Restart
  BY <1>7, LineElsewhere DEF ConnectionLost, Restart, ProcessEnds
<1>8. CASE UNCHANGED vars
  BY <1>8 DEF vars, LineOK, screen
<1> QED
  BY <1>1, <1>2, <1>3, <1>4, <1>5, <1>6, <1>7, <1>8 DEF Next, LoopHead

(***************************************************************************)
(* The step of 'R' that changes the table erases the highlighted product:  *)
(* a highlighted line is above the end of the window, so the correction of *)
(* the selection does not happen.                                          *)
(***************************************************************************)
LEMMA RemoveErases ==
  ASSUME IInv, LineOK, Remove, products' # products, start >= 0,
         InBounds(list, selection)
  PROVE  products' = erase(list[selection + 1])
<1>1. ~Crash
  BY DEF Crash
<1>2. PICK c \in Selected(selection - MoveUp) : products' = erase(c)
  BY <1>1 DEF Remove
<1>3. selection # end
  <2>1. start \in Int /\ end \in Int /\ selection \in Int
    BY Parts, TerminalAssumption DEF ScreenOK
  <2>2. selection < Len(list) /\ selection >= 0
    BY <2>1, Parts DEF InBounds, ScreenOK
  <2>3. Len(list) = IF end > start THEN end - start ELSE 0
    BY DEF LineOK, Remove, Early
  <2> QED
    BY <2>1, <2>2, <2>3
<1>4. selection - MoveUp = selection
  BY <1>3, Parts, TerminalAssumption DEF MoveUp, ScreenOK
<1>5. c = list[selection + 1]
  BY <1>2, <1>4 DEF Selected, VectorRead, InBounds
<1> QED
  BY <1>2, <1>5

(***************************************************************************)
(* 'R' on the product list erases the highlighted product, for every table *)
(* and screen and whatever other terminals do, unless the window starts    *)
(* above the list.                                                         *)
(***************************************************************************)
THEOREM TerminalRemovesHighlighted == Spec => RemovesHighlighted
<1> DEFINE Erases == /\ pc \in Early /\ key' = "R"
                     /\ products' # products
                     /\ start >= 0
                     /\ InBounds(list, selection)
                     => products' = erase(list[selection + 1])
<1>1. Init => LineOK
  BY DEF Init, LineOK
<1>2. IInv /\ LineOK /\ [Next]_vars => LineOK'
  BY LineInductive
<1>3. ASSUME IInv, LineOK, Next
      PROVE  Erases
  <2> SUFFICES ASSUME pc \in Early, key' = "R", products' # products,
                      start >= 0, InBounds(list, selection)
               PROVE  products' = erase(list[selection + 1])
    OBVIOUS
  <2>1. key # "R"
    BY <1>3 DEF LineOK, Early
  <2>2. Remove
    <3>1. ~OtherTerminal
      BY <2>1 DEF OtherTerminal
    <3>2. ~(ConnectionLost \/ Restart \/ LoopHead)
      BY DEF ConnectionLost, ProcessEnds, Restart, Running, LoopHead,
             LoadCodes, SizeWindow, FillWindow, Draw, Early
    <3>3. CASE FinishModify \/ Scan
      BY <3>3 DEF FinishModify, Scan, Early
    <3> QED
      BY <1>3, <2>1, <3>1, <3>2, <3>3
         DEF Next, Handler, Quit, ConfirmQuit, OtherKey, MainMenu, AddProduct,
             ModifyProduct, StartModify, SwitchTab, StockTab, ScrollUp,
             ScrollDown, Up, Down, AddSelected, StartSearch, FinishSearch,
             ModifyFound, AddFound, StartPrint, PrintFails, print_receipt,
             Reprint, FinishPrint, Crash, ProcessEnds
  <2> QED
    BY <1>3, <2>2, RemoveErases
<1>4. IInv /\ LineOK /\ [Next]_vars => [Erases]_vars
  BY <1>3
<1> QED
  BY <1>1, <1>2, <1>4, Inductive, PTL DEF Spec, RemovesHighlighted

-----------------------------------------------------------------------------
(***************************************************************************)
(* What a step does to the sale.                                           *)
(***************************************************************************)
Ends == Running /\ \E how \in {"exited", "crashed"} : ProcessEnds(how)

Aside == UNCHANGED <<pc, basket, receipt>>

Restarts == ~Running /\ pc' = "top" /\ UNCHANGED <<basket, receipt>>

Quiet ==
  /\ Running /\ pc \notin {"print", "reprint"}
  /\ pc' \notin {"reprint", "exited", "crashed"}
  /\ UNCHANGED <<basket, receipt>>

Rings ==
  /\ Running /\ pc \notin {"print", "reprint"}
  /\ pc' \in {"top", "scan"}
  /\ \E c \in Code : add_product_to_basket(c)
  /\ UNCHANGED receipt

Voids ==
  /\ Running /\ pc \notin {"print", "reprint"}
  /\ pc' \in {"top", "scan"}
  /\ basket # <<>> /\ \E c \in Code : RemoveFromBasket(c)
  /\ UNCHANGED receipt

Prints ==
  /\ pc = "print" /\ pc' = "reprint"
  /\ basket # <<>> /\ UNCHANGED basket
  /\ Lists(receipt', basket)

Reprints == pc = "reprint" /\ pc' = "print" /\ UNCHANGED <<basket, receipt>>

Keeps ==
  /\ pc \in {"print", "reprint"} /\ pc' \in {"top", "scan"}
  /\ receipt' = <<>> /\ UNCHANGED basket

Closes ==
  /\ pc = "reprint" /\ pc' \in {"top", "scan"}
  /\ receipt' = <<>> /\ basket' = <<>>

(***************************************************************************)
(* Every step is one of these.                                             *)
(***************************************************************************)
LEMMA SaleSteps ==
  ASSUME IInv, [Next]_vars
  PROVE  \/ Ends \/ Aside \/ Restarts \/ Quiet \/ Rings \/ Voids
         \/ Prints \/ Reprints \/ Keeps \/ Closes
<1>0. selection \in Int /\ MoveUp \in Int /\ selection - MoveUp \in Int
  BY Parts, TerminalAssumption DEF ScreenOK, MoveUp
<1>1. CASE LoopHead
  BY <1>1 DEF LoopHead, LoadCodes, SizeWindow, FillWindow, Draw, Crash, Ends,
              Quiet, Running, sale
<1>2. CASE Quit \/ ConfirmQuit \/ OtherKey \/ MainMenu \/ AddProduct
           \/ ModifyProduct \/ FinishModify \/ StartSearch \/ FinishSearch
           \/ ModifyFound \/ StartPrint
  <2>1. CASE Quit \/ ConfirmQuit \/ MainMenu
    BY <2>1 DEF Quit, ConfirmQuit, MainMenu, Crash, Ends, Quiet, Running,
                Early, sale
  <2>2. CASE OtherKey
    BY <2>2 DEF OtherKey, Unhandled, Finish, Done, Quiet, Running, sale
  <2>3. CASE AddProduct \/ ModifyProduct
    BY <2>3 DEF AddProduct, ModifyProduct, StartModify, Finish, Done, Crash,
                Ends, Quiet, Running, Early, sale
  <2>4. CASE FinishModify \/ StartSearch \/ FinishSearch
    BY <2>4 DEF FinishModify, StartSearch, FinishSearch, Finish, Done, Crash,
                Ends, Quiet, Running, Early, sale
  <2>5. CASE ModifyFound \/ StartPrint
    BY <2>5 DEF ModifyFound, StartPrint, Crash, Ends, Quiet, Running, Late,
                sale
  <2> QED
    BY <1>2, <2>1, <2>2, <2>3, <2>4, <2>5
<1>3. CASE SwitchTab \/ StockTab \/ ScrollUp \/ ScrollDown \/ Up \/ Down
  BY <1>3 DEF SwitchTab, StockTab, ScrollUp, ScrollDown, Up, Down, Finish,
              Done, Quiet, Running, Early, Late, sale
<1>4. CASE AddSelected
  <2>1. Selected(selection) \subseteq Code
    BY <1>0, SelectedType, Parts
  <2> QED
    BY <1>4, <2>1 DEF AddSelected, RingUp, Finish, Done, Crash, Ends, Rings,
                      Quiet, Running, Early, sale
<1>5. CASE AddFound
  <2>1. found[1] \in Code
    BY <1>5, Parts DEF AddFound, ControlOK
  <2> QED
    BY <1>5, <2>1 DEF AddFound, RingUp, Finish, Done, Crash, Ends, Rings,
                      Running
<1>6. CASE Scan
  BY <1>6 DEF Scan, RingUp, Crash, Ends, Rings, Quiet, Running, sale
<1>7. CASE Remove
  <2>1. Selected(selection - MoveUp) \subseteq Code
    BY <1>0, SelectedType, Parts
  <2>2. current_tab = "BASKET" /\ current_list_size(current_tab, basket) # 0
          => basket # <<>>
    BY DEF current_list_size
  <2> QED
    BY <1>7, <2>1, <2>2 DEF Remove, Finish, Done, Crash, Ends, Voids, Quiet,
                            Running, Early, sale
<1>8. CASE PrintFails \/ Reprint \/ FinishPrint
  BY <1>8 DEF PrintFails, Reprint, FinishPrint, Finish, Done, Keeps, Reprints,
              Closes, sale
<1>9. CASE print_receipt
  BY <1>9 DEF print_receipt, Crash, Ends, Prints, Lists, Running
<1>10. CASE OtherTerminal \/ ConnectionLost \/ Restart
  BY <1>10 DEF OtherTerminal, ConnectionLost, Restart, Ends, Aside, Restarts,
               sale
<1>11. CASE UNCHANGED vars
  BY <1>11 DEF vars, Aside, sale
<1> QED
  BY <1>1, <1>2, <1>3, <1>4, <1>5, <1>6, <1>7, <1>8, <1>9, <1>10, <1>11
     DEF Next, Handler

(***************************************************************************)
(* SlipOK: a receipt is out only while one is being printed, and lists the *)
(* basket as it is.                                                        *)
(***************************************************************************)
LEMMA SlipInductive ==
  /\ Init => SlipOK
  /\ IInv /\ SlipOK /\ [Next]_vars => SlipOK'
<1>1. Init => SlipOK
  BY DEF Init, SlipOK, Running
<1>2. ASSUME IInv, SlipOK, [Next]_vars
      PROVE  SlipOK'
  <2>1. CASE Ends
    BY <2>1 DEF Ends, ProcessEnds, SlipOK
  <2>2. CASE Aside \/ Restarts \/ Quiet \/ Reprints
    BY <1>2, <2>2
       DEF Aside, Restarts, Quiet, Reprints, SlipOK, Lists, Running
  <2>3. CASE Rings \/ Voids \/ Keeps \/ Closes
    BY <1>2, <2>3 DEF Rings, Voids, Keeps, Closes, SlipOK, Running
  <2>4. CASE Prints
    <3>1. receipt' # <<>>
      <4>1. DOMAIN basket # {}
        BY <2>4, Parts, <1>2 DEF Prints, SaleOK, GoodBasket
      <4> QED
        BY <2>4, <4>1 DEF Prints, Lists
    <3> QED
      BY <2>4, <3>1 DEF Prints, SlipOK, Lists, Running
  <2> QED
    BY <1>2, <2>1, <2>2, <2>3, <2>4, SaleSteps
<1> QED
  BY <1>1, <1>2

-----------------------------------------------------------------------------
(***************************************************************************)
(* The units of a product in a list of lines: those on its one line, none  *)
(* if it has no line.                                                      *)
(***************************************************************************)
LEMMA UnitsOnLine ==
  ASSUME NEW s, NEW i \in DOMAIN s,
         \A m, n \in DOMAIN s : s[m].code = s[n].code => m = n
  PROVE  UnitsIn(s, s[i].code) = s[i].quantity
<1> DEFINE c == s[i].code
           j == CHOOSE k \in DOMAIN s : s[k].code = c
<1>1. j \in DOMAIN s /\ s[j].code = c
  OBVIOUS
<1>2. j = i
  BY <1>1
<1> QED
  BY <1>2 DEF UnitsIn

(***************************************************************************)
(* And none where no line names the product.                               *)
(***************************************************************************)
LEMMA UnitsNowhere ==
  ASSUME NEW s, NEW c, \A j \in DOMAIN s : s[j].code # c
  PROVE  UnitsIn(s, c) = 0
  BY DEF UnitsIn

(***************************************************************************)
(* Two lists that agree on the lines of a product agree on its units.      *)
(***************************************************************************)
LEMMA SameUnits ==
  ASSUME NEW s, NEW t, NEW c,
         \A m, n \in DOMAIN s : s[m].code = s[n].code => m = n,
         \A m, n \in DOMAIN t : t[m].code = t[n].code => m = n,
         \A i \in DOMAIN s : s[i].code = c =>
           \E j \in DOMAIN t : t[j].code = c /\ t[j].quantity = s[i].quantity,
         \A j \in DOMAIN t : t[j].code = c => \E i \in DOMAIN s : s[i].code = c
  PROVE  UnitsIn(s, c) = UnitsIn(t, c)
<1>1. CASE \E i \in DOMAIN s : s[i].code = c
  <2>1. PICK i \in DOMAIN s : s[i].code = c
    BY <1>1
  <2>2. PICK j \in DOMAIN t : t[j].code = c /\ t[j].quantity = s[i].quantity
    BY <2>1
  <2> QED
    BY <2>1, <2>2, UnitsOnLine
<1>2. CASE ~\E i \in DOMAIN s : s[i].code = c
  BY <1>2, UnitsNowhere
<1> QED
  BY <1>1, <1>2

(***************************************************************************)
(* The sale and the slip that a terminal shows as a Register.              *)
(***************************************************************************)
Sold(b) == [c \in Code |-> UnitsIn(b, c)]

Nothing == [c \in Code |-> 0]

(***************************************************************************)
(* An empty list of lines is an empty sale, and a basket with a line is    *)
(* not.                                                                    *)
(***************************************************************************)
LEMMA SoldNothing ==
  /\ Sold(<<>>) = Nothing
  /\ \A b : GoodBasket(b) /\ b # <<>> => Sold(b) # Nothing
<1>1. Sold(<<>>) = Nothing
  BY UnitsNowhere DEF Sold, Nothing
<1>2. ASSUME NEW b, GoodBasket(b), b # <<>>
      PROVE  Sold(b) # Nothing
  <2>1. 1 \in DOMAIN b /\ b[1] \in Entry
    BY <1>2 DEF GoodBasket
  <2>2. b[1].code \in Code /\ b[1].quantity # 0
    BY <1>2, <2>1 DEF GoodBasket, Entry
  <2>3. Sold(b)[b[1].code] = b[1].quantity
    BY <1>2, <2>1, <2>2, UnitsOnLine DEF Sold, GoodBasket
  <2> QED
    BY <2>2, <2>3 DEF Nothing
<1> QED
  BY <1>1, <1>2

(***************************************************************************)
(* A receipt that lists the basket sells the same.                         *)
(***************************************************************************)
LEMMA ListsSold ==
  ASSUME NEW b, GoodBasket(b), NEW r, Lists(r, b)
  PROVE  Sold(r) = Sold(b)
<1>1. ASSUME NEW c \in Code
      PROVE  UnitsIn(r, c) = UnitsIn(b, c)
  BY SameUnits DEF Lists, GoodBasket
<1> QED
  BY <1>1 DEF Sold

(***************************************************************************)
(* One line of a basket changed to q units is one product changed to q.    *)
(***************************************************************************)
LEMMA QuantitySold ==
  ASSUME GoodBasket(basket), NEW j \in DOMAIN basket, NEW q \in 1 .. MaxQuantity
  PROVE  Sold([basket EXCEPT ![j].quantity = q])
           = [Sold(basket) EXCEPT ![basket[j].code] = q]
<1> DEFINE b == [basket EXCEPT ![j].quantity = q]
<1>1. GoodBasket(b)
  BY QuantityKeepsBasket
<1>2. basket \in Seq(Entry) /\ \A i \in DOMAIN basket : basket[i] \in Entry
  BY DEF GoodBasket
<1>3. /\ DOMAIN b = DOMAIN basket
      /\ b[j].code = basket[j].code /\ b[j].quantity = q
      /\ \A i \in DOMAIN basket : i # j => b[i] = basket[i]
  BY <1>2 DEF Entry
<1> HIDE DEF b
<1>4. ASSUME NEW c \in Code, c # basket[j].code
      PROVE  UnitsIn(b, c) = UnitsIn(basket, c)
  <2>1. \A i \in DOMAIN b : b[i].code = c =>
          \E n \in DOMAIN basket :
            basket[n].code = c /\ basket[n].quantity = b[i].quantity
    BY <1>3, <1>4
  <2>2. \A n \in DOMAIN basket : basket[n].code = c =>
          \E i \in DOMAIN b : b[i].code = c
    BY <1>3, <1>4
  <2>3. \A m, n \in DOMAIN b : b[m].code = b[n].code => m = n
    BY <1>1 DEF GoodBasket
  <2>4. \A m, n \in DOMAIN basket : basket[m].code = basket[n].code => m = n
    BY DEF GoodBasket
  <2> QED
    BY <2>1, <2>2, <2>3, <2>4, SameUnits
<1>5. UnitsIn(b, basket[j].code) = q
  BY <1>1, <1>3, UnitsOnLine DEF GoodBasket
<1>6. Sold(b) = [Sold(basket) EXCEPT ![basket[j].code] = q]
  BY <1>4, <1>5 DEF Sold
<1> QED
  BY <1>6 DEF b

(***************************************************************************)
(* A line dropped is one product gone.                                     *)
(***************************************************************************)
LEMMA DropSold ==
  ASSUME GoodBasket(basket), NEW k \in DOMAIN basket
  PROVE  Sold(WithoutEntry(k)) = [Sold(basket) EXCEPT ![basket[k].code] = 0]
<1> DEFINE w == WithoutEntry(k)
           from(n) == IF n < k THEN n ELSE n + 1
<1>1. Len(basket) \in Nat /\ DOMAIN basket = 1 .. Len(basket)
  BY DEF GoodBasket
<1>2. DOMAIN w = 1 .. (Len(basket) - 1)
  BY <1>1 DEF WithoutEntry
<1>3. \A n \in DOMAIN w : /\ w[n] = basket[from(n)]
                          /\ from(n) \in DOMAIN basket /\ from(n) # k
  BY <1>1, <1>2 DEF WithoutEntry
<1>4. \A i \in DOMAIN basket : i # k => \E n \in DOMAIN w : from(n) = i
  <2> SUFFICES ASSUME NEW i \in DOMAIN basket, i # k
               PROVE  \E n \in DOMAIN w : from(n) = i
    OBVIOUS
  <2>1. CASE i < k
    BY <1>1, <1>2, <2>1
  <2>2. CASE i > k
    <3>1. i - 1 \in DOMAIN w /\ from(i - 1) = i
      BY <1>1, <1>2, <2>2
    <3> QED
      BY <3>1
  <2> QED
    BY <1>1, <2>1, <2>2
<1>5. GoodBasket(w)
  BY DropKeepsBasket
<1> HIDE DEF w, from
<1>6. ASSUME NEW c \in Code, c # basket[k].code
      PROVE  UnitsIn(w, c) = UnitsIn(basket, c)
  <2>1. \A n \in DOMAIN w : w[n].code = c =>
          \E i \in DOMAIN basket :
            basket[i].code = c /\ basket[i].quantity = w[n].quantity
    BY <1>3
  <2>2. \A i \in DOMAIN basket : basket[i].code = c =>
          \E n \in DOMAIN w : w[n].code = c
    BY <1>3, <1>4, <1>6
  <2>3. \A m, n \in DOMAIN w : w[m].code = w[n].code => m = n
    BY <1>5 DEF GoodBasket
  <2>4. \A m, n \in DOMAIN basket : basket[m].code = basket[n].code => m = n
    BY DEF GoodBasket
  <2> QED
    BY <2>1, <2>2, <2>3, <2>4, SameUnits
<1>7. UnitsIn(w, basket[k].code) = 0
  <2>1. \A n \in DOMAIN w : w[n].code # basket[k].code
    BY <1>3 DEF GoodBasket
  <2> QED
    BY <2>1, UnitsNowhere
<1>8. Sold(w) = [Sold(basket) EXCEPT ![basket[k].code] = 0]
  BY <1>6, <1>7 DEF Sold
<1> QED
  BY <1>8 DEF w

(***************************************************************************)
(* add_product_to_basket() rings up one unit of the product or, when the   *)
(* uninitialised flag says so, nothing.                                    *)
(***************************************************************************)
LEMMA AddSold ==
  ASSUME GoodBasket(basket), NEW c \in Code, add_product_to_basket(c)
  PROVE  \/ Sold(basket') = [Sold(basket) EXCEPT ![c] = @ + 1]
         \/ UNCHANGED basket
<1>1. CASE \E j \in DOMAIN basket :
             /\ FirstEntry(j, c)
             /\ basket[j].quantity < MaxQuantity
             /\ basket' = [basket EXCEPT ![j].quantity = @ + 1]
  <2>1. PICK j \in DOMAIN basket :
          /\ basket[j].code = c
          /\ basket[j].quantity < MaxQuantity
          /\ basket' = [basket EXCEPT ![j].quantity = @ + 1]
    BY <1>1 DEF FirstEntry
  <2>2. basket[j].quantity + 1 \in 1 .. MaxQuantity
    BY <2>1, TerminalAssumption DEF GoodBasket
  <2>3. Sold(basket') = [Sold(basket) EXCEPT ![c] = basket[j].quantity + 1]
    BY <2>1, <2>2, QuantitySold
  <2>4. Sold(basket)[c] = basket[j].quantity
    BY <2>1, UnitsOnLine DEF Sold, GoodBasket
  <2> QED
    BY <2>3, <2>4
<1>2. CASE /\ c \notin BasketCodes
           /\ basket' = Append(basket, [code |-> c, quantity |-> 1])
  <2>1. GoodBasket(basket')
    BY AddKeepsBasket
  <2>2. /\ DOMAIN basket' = DOMAIN basket \cup {Len(basket) + 1}
        /\ \A i \in DOMAIN basket : basket'[i] = basket[i]
        /\ basket'[Len(basket) + 1].code = c
        /\ basket'[Len(basket) + 1].quantity = 1
    BY <1>2 DEF GoodBasket
  <2>3. \A i \in DOMAIN basket : basket[i].code # c
    BY <1>2 DEF BasketCodes
  <2>4. ASSUME NEW d \in Code, d # c
        PROVE  UnitsIn(basket', d) = UnitsIn(basket, d)
    BY <2>1, <2>2, <2>4, SameUnits DEF GoodBasket
  <2>5. UnitsIn(basket', c) = 1
    BY <2>1, <2>2, UnitsOnLine DEF GoodBasket
  <2>6. UnitsIn(basket, c) = 0
    BY <2>3, UnitsNowhere
  <2>7. \A d \in Code : UnitsIn(basket', d)
                          = IF d = c THEN UnitsIn(basket, c) + 1
                                     ELSE UnitsIn(basket, d)
    BY <2>4, <2>5, <2>6
  <2> QED
    BY <2>7 DEF Sold
<1> QED
  BY <1>1, <1>2 DEF add_product_to_basket

(***************************************************************************)
(* 'R' takes units of one product off, or nothing.                         *)
(***************************************************************************)
LEMMA RemoveSold ==
  ASSUME GoodBasket(basket), basket # <<>>, NEW c \in Code, RemoveFromBasket(c)
  PROVE  \/ \E d \in Code : \E n \in 0 .. (Sold(basket)[d] - 1) :
              Sold(basket') = [Sold(basket) EXCEPT ![d] = n]
         \/ UNCHANGED basket
<1>0. \A j \in DOMAIN basket :
        /\ basket[j].code \in Code
        /\ basket[j].quantity \in 1 .. MaxQuantity
        /\ Sold(basket)[basket[j].code] = basket[j].quantity
  <2>1. \A j \in DOMAIN basket : basket[j] \in Entry
    BY DEF GoodBasket
  <2>2. \A j \in DOMAIN basket : basket[j].code \in Code
    BY <2>1 DEF Entry
  <2> QED
    BY <2>2, UnitsOnLine DEF Sold, GoodBasket
<1>1. ASSUME NEW j \in DOMAIN basket, basket' = WithoutEntry(j)
      PROVE  \E d \in Code : \E n \in 0 .. (Sold(basket)[d] - 1) :
               Sold(basket') = [Sold(basket) EXCEPT ![d] = n]
  <2>1. Sold(basket') = [Sold(basket) EXCEPT ![basket[j].code] = 0]
    BY <1>1, DropSold
  <2>2. 0 \in 0 .. (Sold(basket)[basket[j].code] - 1)
    BY <1>0, TerminalAssumption
  <2> QED
    BY <1>0, <2>1, <2>2
<1>2. ASSUME NEW j \in DOMAIN basket, basket[j].quantity # 1,
             basket' = [basket EXCEPT ![j].quantity = @ - 1]
      PROVE  \E d \in Code : \E n \in 0 .. (Sold(basket)[d] - 1) :
               Sold(basket') = [Sold(basket) EXCEPT ![d] = n]
  <2>1. basket[j].quantity - 1 \in 1 .. MaxQuantity
    BY <1>0, <1>2, TerminalAssumption
  <2>2. Sold(basket')
          = [Sold(basket) EXCEPT ![basket[j].code] = basket[j].quantity - 1]
    BY <1>2, <2>1, QuantitySold
  <2>3. basket[j].quantity - 1 \in 0 .. (Sold(basket)[basket[j].code] - 1)
    BY <1>0, <2>1, TerminalAssumption
  <2> QED
    BY <1>0, <2>2, <2>3
<1>3. Len(basket) \in DOMAIN basket
  BY DEF GoodBasket
<1> QED
  BY <1>1, <1>2, <1>3 DEF RemoveFromBasket

-----------------------------------------------------------------------------
(***************************************************************************)
(* Every step of a terminal is a step of the Register or changes nothing   *)
(* it shows.                                                               *)
(***************************************************************************)
LEMMA RegisterSteps ==
  ASSUME IInv, SlipOK, [Next]_vars
  PROVE  [R!Next]_(R!vars)
<1> DEFINE sold == Sold(basket)
           slip == Sold(receipt)
<1>0. GoodBasket(basket)
  BY Parts DEF SaleOK
<1>1. CASE Ends
  <2>1. sold' = Nothing /\ slip' = Nothing /\ Running /\ ~Running'
    BY <1>1, SoldNothing DEF Ends, ProcessEnds, Running
  <2> QED
    BY <2>1 DEF R!Next, R!GoDown, R!Empty, Sold, Nothing
<1>2. CASE Aside \/ Quiet \/ Reprints
  <2>1. UNCHANGED <<basket, receipt, Running>>
    BY <1>2 DEF Aside, Quiet, Reprints, Running
  <2> QED
    BY <2>1 DEF R!vars
<1>3. CASE Restarts
  <2>1. UNCHANGED <<basket, receipt>> /\ ~Running /\ Running'
    BY <1>3 DEF Restarts, Running
  <2> QED
    BY <2>1 DEF R!Next, R!ComeUp
<1>4. CASE Rings
  <2>1. PICK c \in Code : add_product_to_basket(c)
    BY <1>4 DEF Rings
  <2>2. /\ slip = Nothing /\ Running /\ Running'
        /\ receipt' = receipt
    BY <1>4, SoldNothing DEF Rings, SlipOK, Running
  <2>3. CASE sold' = [sold EXCEPT ![c] = @ + 1]
    BY <2>2, <2>3 DEF R!Next, R!Ring, R!Empty, Sold, Nothing
  <2>4. CASE UNCHANGED basket
    BY <2>2, <2>4 DEF R!vars
  <2> QED
    BY <1>0, <2>1, <2>3, <2>4, AddSold DEF Sold
<1>5. CASE Voids
  <2>1. PICK c \in Code : RemoveFromBasket(c)
    BY <1>5 DEF Voids
  <2>2. /\ slip = Nothing /\ Running /\ Running'
        /\ receipt' = receipt /\ basket # <<>>
    BY <1>5, SoldNothing DEF Voids, SlipOK, Running
  <2>3. ASSUME NEW d \in Code, NEW n \in 0 .. (sold[d] - 1),
               sold' = [sold EXCEPT ![d] = n]
        PROVE  R!Void(d)
    BY <2>2, <2>3 DEF R!Void, R!Empty, Sold, Nothing
  <2>4. CASE UNCHANGED basket
    BY <2>2, <2>4 DEF R!vars
  <2> QED
    BY <1>0, <2>1, <2>2, <2>3, <2>4, RemoveSold DEF R!Next, Sold
<1>6. CASE Prints
  <2>1. /\ Lists(receipt', basket) /\ UNCHANGED basket
        /\ Running /\ Running' /\ basket # <<>>
    BY <1>6 DEF Prints, Running
  <2>2. slip' = sold
    BY <1>0, <2>1, ListsSold
  <2>3. sold # Nothing
    BY <1>0, <2>1, SoldNothing
  <2> QED
    BY <2>1, <2>2, <2>3 DEF R!Next, R!PrintSlip, R!Empty, Sold, Nothing
<1>7. CASE Keeps
  <2>1. /\ UNCHANGED basket /\ Running /\ Running'
        /\ slip' = Nothing
    BY <1>7, SoldNothing DEF Keeps, Running
  <2>2. CASE slip = Nothing
    BY <2>1, <2>2 DEF R!vars, Sold
  <2>3. CASE slip # Nothing
    BY <2>1, <2>3 DEF R!Next, R!KeepSale, R!Empty, Sold, Nothing
  <2> QED
    BY <2>2, <2>3
<1>8. CASE Closes
  <2>1. /\ Running /\ Running'
        /\ slip' = Nothing /\ sold' = Nothing
    BY <1>8, SoldNothing DEF Closes, Running
  <2>2. Lists(receipt, basket) /\ basket # <<>>
    <3>1. Lists(receipt, basket) /\ receipt # <<>>
      BY <1>8 DEF Closes, SlipOK
    <3>2. receipt \in Seq(Lines)
      BY Parts DEF SaleOK
    <3>3. receipt # <<>>
      BY <3>1
    <3>4. 1 \in DOMAIN receipt
      BY <3>2, <3>3
    <3> QED
      BY <3>1, <3>4 DEF Lists
  <2>3. slip = sold /\ slip # Nothing
    BY <1>0, <2>2, ListsSold, SoldNothing
  <2> QED
    BY <2>1, <2>3 DEF R!Next, R!CloseSale, R!Empty, Sold, Nothing
<1> QED
  BY <1>1, <1>2, <1>3, <1>4, <1>5, <1>6, <1>7, <1>8, SaleSteps

(***************************************************************************)
(* Every terminal is a Register, for every set of codes, every table and   *)
(* every screen, whatever other terminals do and wherever the connection   *)
(* breaks: units change one product at a time and never while a receipt is *)
(* out, and the basket is emptied only by a receipt that lists exactly     *)
(* what was in it, or by the end of the process.                           *)
(***************************************************************************)
THEOREM TerminalIsRegister == Spec => IsRegister
<1>1. Init => R!Init
  <2> SUFFICES ASSUME Init
               PROVE  R!Init
    OBVIOUS
  <2>1. Sold(basket) = Nothing /\ Sold(receipt) = Nothing /\ Running = TRUE
    BY SoldNothing DEF Init, Running
  <2> QED
    BY <2>1 DEF R!Init, R!Empty, Sold, Nothing
<1>2. IInv /\ SlipOK /\ [Next]_vars => [R!Next]_(R!vars)
  BY RegisterSteps
<1> QED
  BY <1>1, <1>2, Inductive, SlipInductive, PTL DEF Spec, IsRegister, R!Spec

-----------------------------------------------------------------------------
(***************************************************************************)
(* Writing a product or erasing a code leaves one row for each code.       *)
(***************************************************************************)
LEMMA WritesKeepCodes ==
  ASSUME OneRowPerCode,
         \/ \E p \in Products : products' = update_stock(p)
         \/ \E c : products' = erase(c)
         \/ UNCHANGED products
  PROVE  OneRowPerCode'
  BY DEF OneRowPerCode, update_stock, erase

(***************************************************************************)
(* No step writes the table otherwise.                                     *)
(***************************************************************************)
LEMMA TableSteps ==
  ASSUME [Next]_vars
  PROVE  \/ \E p \in Products : products' = update_stock(p)
         \/ \E c : products' = erase(c)
         \/ UNCHANGED products
<1>1. CASE LoopHead
  BY <1>1 DEF LoopHead, LoadCodes, SizeWindow, FillWindow, Draw, Crash
<1>2. CASE Handler
  BY <1>2 DEF Handler, Quit, ConfirmQuit, OtherKey, MainMenu, Remove,
              AddProduct, ModifyProduct, StartModify, FinishModify, SwitchTab,
              StockTab, ScrollUp, ScrollDown, Up, Down, AddSelected,
              StartSearch, FinishSearch, ModifyFound, AddFound, Scan,
              StartPrint, PrintFails, print_receipt, Reprint, FinishPrint,
              Crash
<1>3. CASE OtherTerminal \/ ConnectionLost \/ Restart
  BY <1>3 DEF OtherTerminal, ConnectionLost, Restart
<1> QED
  BY <1>1, <1>2, <1>3 DEF Next, vars

(***************************************************************************)
(* On a table of its own, a terminal reads one row for each code, whenever *)
(* it reads it.                                                            *)
(***************************************************************************)
LEMMA OneReading ==
  ASSUME OtherTerminals = FALSE, OneRowPerCode, NEW C,
         NEW f \in RowsRead(C), NEW g \in RowsRead(C)
  PROVE  f = g
<1>1. f \in [C -> products] /\ g \in [C -> products]
  BY DEF RowsRead
<1>2. \A c \in C : f[c].code = c /\ g[c].code = c
  BY DEF RowsRead
<1>3. \A c \in C : f[c] = g[c]
  BY <1>1, <1>2 DEF OneRowPerCode
<1> QED
  BY <1>1, <1>3

\* Where the total on the screen is that of the basket.
Totalled == {"key", "quit", "search", "found", "print", "reprint"}

(***************************************************************************)
(* How such a place is reached: by drawing the screen, by steps that leave *)
(* the table, the basket and the total alone, or by printing.              *)
(***************************************************************************)
LEMMA TotalSteps ==
  ASSUME OtherTerminals = FALSE, [Next]_vars, pc' \in Totalled
  PROVE  \/ /\ \E row \in RowsRead(Drawn) : total' = BasketTotal(row)
            /\ pc' = "key"
            /\ UNCHANGED <<products, basket>>
         \/ /\ pc \in Totalled /\ pc' # "reprint"
            /\ UNCHANGED <<products, basket, total>>
         \/ /\ pc \in Totalled
            /\ \E row \in RowsRead(BasketCodes) :
                 receipt' = [j \in DOMAIN basket |->
                               [code     |-> basket[j].code,
                                quantity |-> basket[j].quantity,
                                amount   |-> Amount(row, j)]]
            /\ receipt_total' = total
            /\ UNCHANGED <<products, basket, total>>
         \/ UNCHANGED vars
<1>0. pc' \notin {"exited", "crashed", "top", "scan", "modify"}
  BY DEF Totalled
<1>1. CASE LoopHead
  BY <1>0, <1>1 DEF LoopHead, LoadCodes, SizeWindow, FillWindow, Draw, Crash,
                    ProcessEnds, Totalled
<1>2. CASE Handler
  <2>1. CASE Quit \/ StartSearch \/ StartPrint \/ Reprint
    BY <1>0, <2>1 DEF Quit, StartSearch, StartPrint, Reprint, ProcessEnds,
                      Early, Late, Totalled, sale
  <2>2. CASE FinishSearch
    BY <1>0, <2>2, FinishLeaves DEF FinishSearch, Crash, ProcessEnds,
                                    Totalled, sale
  <2>3. CASE print_receipt
    BY <1>0, <2>3 DEF print_receipt, Crash, ProcessEnds, Totalled
  <2>4. ~(\/ ConfirmQuit \/ OtherKey \/ MainMenu \/ Remove \/ AddProduct
          \/ ModifyProduct \/ FinishModify \/ SwitchTab \/ StockTab
          \/ ScrollUp \/ ScrollDown \/ Up \/ Down \/ AddSelected
          \/ ModifyFound \/ AddFound \/ Scan \/ PrintFails \/ FinishPrint)
    BY <1>0, FinishLeaves
       DEF ConfirmQuit, OtherKey, MainMenu, Remove, AddProduct, ModifyProduct,
           StartModify, FinishModify, SwitchTab, StockTab, ScrollUp,
           ScrollDown, Up, Down, AddSelected, ModifyFound, AddFound, Scan,
           PrintFails, FinishPrint, Crash, ProcessEnds
  <2> QED
    BY <1>2, <2>1, <2>2, <2>3, <2>4 DEF Handler
<1>3. CASE OtherTerminal \/ ConnectionLost \/ Restart
  BY <1>0, <1>3 DEF OtherTerminal, ConnectionLost, Restart, ProcessEnds
<1> QED
  BY <1>1, <1>2, <1>3 DEF Next

(***************************************************************************)
(* The rows read for the whole screen give the total of the basket that    *)
(* the rows read for the basket alone give.                                *)
(***************************************************************************)
LEMMA DrawnTotal ==
  ASSUME NEW row \in RowsRead(Drawn)
  PROVE  \E f \in RowsRead(BasketCodes) : BasketTotal(f) = BasketTotal(row)
<1> DEFINE f == [c \in BasketCodes |-> row[c]]
<1>1. BasketCodes \subseteq Drawn
  BY DEF Drawn
<1>2. f \in RowsRead(BasketCodes)
  BY <1>1 DEF RowsRead
<1>3. \A j \in DOMAIN basket : f[basket[j].code] = row[basket[j].code]
  BY DEF BasketCodes
<1>4. \A j \in DOMAIN basket : Amount(f, j) = Amount(row, j)
  BY <1>3 DEF Amount
<1>5. [j \in DOMAIN basket |-> Amount(f, j)]
        = [j \in DOMAIN basket |-> Amount(row, j)]
  BY <1>4
<1> QED
  BY <1>2, <1>5 DEF BasketTotal

(***************************************************************************)
(* TotalOK: from the drawing of the screen to the printing of a receipt    *)
(* the total is that of the basket and the table.                          *)
(***************************************************************************)
LEMMA TotalInductive ==
  ASSUME OtherTerminals = FALSE
  PROVE  /\ Init => TotalOK
         /\ TotalOK /\ [Next]_vars => TotalOK'
<1>1. Init => TotalOK
  BY DEF Init, TotalOK, OneRowPerCode
<1>2. ASSUME TotalOK, [Next]_vars
      PROVE  TotalOK'
  <2>1. OneRowPerCode'
    BY <1>2, TableSteps, WritesKeepCodes DEF TotalOK
  <2>2. CASE pc' \notin Totalled
    BY <2>1, <2>2 DEF TotalOK, Totalled
  <2> DEFINE Sum == \E row \in RowsRead(BasketCodes) : total = BasketTotal(row)
             Listed == /\ receipt_total = total
                       /\ DOMAIN receipt = DOMAIN basket
                       /\ \E row \in RowsRead(BasketCodes) :
                            \A j \in DOMAIN basket :
                              receipt[j].amount = Amount(row, j)
  <2>a. TotalOK' <=> /\ OneRowPerCode'
                     /\ (pc \in Totalled)' => Sum'
                     /\ (pc = "reprint")' => Listed'
    BY DEF TotalOK, Totalled
  <2>b. ASSUME UNCHANGED <<products, basket>>
        PROVE  /\ UNCHANGED RowsRead(BasketCodes)
               /\ \A row : UNCHANGED BasketTotal(row)
               /\ \A row, j : UNCHANGED Amount(row, j)
    BY <2>b DEF RowsRead, BasketCodes, BasketTotal, Amount
  <2>3. CASE /\ \E row \in RowsRead(Drawn) : total' = BasketTotal(row)
             /\ pc' = "key"
             /\ UNCHANGED <<products, basket>>
    <3>1. \E f \in RowsRead(BasketCodes) : total' = BasketTotal(f)
      BY <2>3, DrawnTotal
    <3>2. Sum'
      BY <2>3, <2>b, <3>1
    <3> QED
      BY <2>1, <2>3, <2>a, <3>2
  <2>4. CASE /\ pc \in Totalled /\ pc' # "reprint"
             /\ UNCHANGED <<products, basket, total>>
    <3>1. Sum
      BY <1>2, <2>4 DEF TotalOK, Totalled
    <3>2. Sum'
      BY <2>4, <2>b, <3>1
    <3> QED
      BY <2>1, <2>4, <2>a, <3>2
  <2>5. CASE /\ pc \in Totalled
             /\ \E row \in RowsRead(BasketCodes) :
                  receipt' = [j \in DOMAIN basket |->
                                [code     |-> basket[j].code,
                                 quantity |-> basket[j].quantity,
                                 amount   |-> Amount(row, j)]]
             /\ receipt_total' = total
             /\ UNCHANGED <<products, basket, total>>
    <3>1. Sum
      BY <1>2, <2>5 DEF TotalOK, Totalled
    <3>2. Sum'
      BY <2>5, <2>b, <3>1
    <3>3. PICK row \in RowsRead(BasketCodes) :
            receipt' = [j \in DOMAIN basket |->
                          [code     |-> basket[j].code,
                           quantity |-> basket[j].quantity,
                           amount   |-> Amount(row, j)]]
      BY <2>5
    <3>4. /\ DOMAIN receipt' = DOMAIN basket
          /\ \A j \in DOMAIN basket : receipt'[j].amount = Amount(row, j)
      BY <3>3
    <3>5. Listed'
      BY <2>5, <2>b, <3>4
    <3> QED
      BY <2>1, <2>a, <3>2, <3>5
  <2>6. CASE UNCHANGED vars
    <3>1. UNCHANGED <<products, basket, total, receipt, receipt_total, pc>>
      BY <2>6 DEF vars, sale
    <3>2. pc \in Totalled => Sum
      BY <1>2 DEF TotalOK, Totalled
    <3>3. pc = "reprint" => Listed
      BY <1>2 DEF TotalOK
    <3>4. (pc \in Totalled)' => Sum'
      BY <2>b, <3>1, <3>2
    <3>5. (pc = "reprint")' => Listed'
      BY <2>b, <3>1, <3>3
    <3> QED
      BY <2>1, <2>a, <3>4, <3>5
  <2> QED
    BY <1>2, <2>2, <2>3, <2>4, <2>5, <2>6, TotalSteps
<1> QED
  BY <1>1, <1>2

(***************************************************************************)
(* The total at the foot of a receipt is the sum of its lines, for every   *)
(* set of products and every path of keys, on a table that no other        *)
(* terminal writes.                                                        *)
(***************************************************************************)
THEOREM TerminalReceiptAdds ==
  ASSUME OtherTerminals = FALSE
  PROVE  Spec => []ReceiptAdds
<1>1. ASSUME TotalOK
      PROVE  ReceiptAdds
  <2> SUFFICES ASSUME pc = "reprint"
               PROVE  receipt_total
                        = SumFunction([j \in DOMAIN receipt |-> receipt[j].amount])
    BY DEF ReceiptAdds
  <2>1. PICK f \in RowsRead(BasketCodes) : total = BasketTotal(f)
    BY <1>1 DEF TotalOK
  <2>2. PICK g \in RowsRead(BasketCodes) :
          \A j \in DOMAIN basket : receipt[j].amount = Amount(g, j)
    BY <1>1 DEF TotalOK
  <2>3. f = g
    BY <1>1, OneReading DEF TotalOK
  <2>4. receipt_total = total /\ DOMAIN receipt = DOMAIN basket
    BY <1>1 DEF TotalOK
  <2>5. [j \in DOMAIN receipt |-> receipt[j].amount]
          = [j \in DOMAIN basket |-> Amount(f, j)]
    BY <2>2, <2>3, <2>4
  <2> QED
    BY <2>1, <2>4, <2>5 DEF BasketTotal
<1> QED
  BY <1>1, TotalInductive, PTL DEF Spec

=============================================================================
