------------------------------ MODULE Terminal ------------------------------
(***************************************************************************)
(* One point-of-sale terminal: the main loop of main.cpp with its three    *)
(* tabs, the window on the product list, the basket, the key handlers, the *)
(* search, the barcode scanner and the receipt, over the products table it *)
(* shares with other terminals.                                            *)
(*                                                                         *)
(* The loop head is four steps, a key handler is one step up to its next   *)
(* getch().  Key presses that only dismiss a message are folded into the   *)
(* step.  A step that issues several queries may see other terminals'      *)
(* commits between them (READ COMMITTED): the values a later query may     *)
(* return are Counts and RowsRead below.                                   *)
(*                                                                         *)
(* An uncaught exception ends the process.  So does dereferencing the null *)
(* buffer of an empty vector.  Reading outside a vector that has a buffer  *)
(* yields whatever lies there, any code, or ends the process.              *)
(*                                                                         *)
(* The schema of the table is not part of the repository.  Here the column *)
(* code is unique; an INSERT that meets a duplicate throws.                *)
(***************************************************************************)
EXTENDS Integers, Sequences, FiniteSets, Functions

CONSTANTS
  Code,             \* every value a product code may take
  Products,         \* the rows the table may hold
  LINES,            \* height of the screen
  Prefixes,         \* what may be configured as barcode_prefix
  OtherTerminals,   \* do other terminals write the table?
  MaxQuantity,      \* bound: units of one product in the basket
  WindowBound       \* bound: how far start and selection leave 0

Row == [code : Code, name : Nat, price : Nat, discount : 0 .. 99]

\* "#" is any character without a handler; 'Y' acts as y.
Keys == {"q", "y", "ESC", "R", "a", "TAB", "r", "m", "w", "s", "ENTER", "/",
         "t", "T", "UP", "k", "DOWN", "j", "#"}

\* get_string() collects printable characters only.
Printable == Keys \ {"ESC", "TAB", "ENTER", "UP", "DOWN"}

ASSUME TerminalAssumption ==
  /\ Products \subseteq Row
  /\ IsFiniteSet(Products)
  /\ LINES \in Nat /\ LINES >= 5
  /\ "#" \in Prefixes /\ Prefixes \subseteq Printable \cup {"NUL"}
  /\ OtherTerminals \in BOOLEAN
  /\ MaxQuantity \in Nat \ {0}
  /\ WindowBound \in Nat

VARIABLES
  products,         \* the products table, committed rows only
  pc,               \* where the terminal is
  key,              \* the global `key'; "none" while its value is dead
  current_tab,
  selection,        \* highlighted line, relative to the window
  start, end,       \* visible_product_list
  product_codes,    \* the code list read at the head of the loop
  list,             \* the codes on the screen
  found,            \* the product a search shows
  basket,           \* sequence of [code, quantity]
  total,
  barcode_prefix,
  receipt,          \* the lines last sent to the printer for this 't' or 'T'
  receipt_total     \* and the total printed under them

screen == <<current_tab, selection, start, end, product_codes, list, found>>
sale   == <<basket, total, receipt, receipt_total>>
vars   == <<products, pc, key, screen, sale, barcode_prefix>>

Tabs == {"PRODUCTS", "BASKET", "STOCK"}

-----------------------------------------------------------------------------
(***************************************************************************)
(* The queries of database_functions.cpp.                                  *)
(***************************************************************************)
CodesOf(table) == {p.code : p \in table}

stock_size == Cardinality(products)

product_exists(c) == c \in CodesOf(products)

(***************************************************************************)
(* SELECT code ... ORDER BY name ASC: rows of equal name come in any       *)
(* order.  The loop that copies the result counts the table again before   *)
(* every row, so when other terminals erase meanwhile the copy is cut      *)
(* short, and when they insert, reading the result past its end throws.    *)
(***************************************************************************)
Ordered ==
  {[n \in DOMAIN r |-> r[n].code] :
     r \in {s \in [1 .. stock_size -> products] :
              /\ \A m, n \in DOMAIN s : m # n => s[m] # s[n]
              /\ \A m, n \in DOMAIN s : m < n => s[m].name <= s[n].name}}

code_list ==
  IF OtherTerminals
    THEN {SubSeq(o, 1, n) : o \in Ordered, n \in 0 .. stock_size}
    ELSE Ordered

\* The table after update_stock(p): UPDATE if the code exists, else INSERT.
update_stock(p) == {q \in products : q.code # p.code} \cup {p}

\* The table after erase(c).
erase(c) == {q \in products : q.code # c}

\* current_list_size() on a tab, with b the basket.
current_list_size(tab, b) == IF tab = "BASKET" THEN Len(b) ELSE stock_size

\* What current_list_size() may return when a step calls it once more.
Counts ==
  IF OtherTerminals /\ current_tab # "BASKET"
    THEN 0 .. Cardinality(CodesOf(Products))
    ELSE {current_list_size(current_tab, basket)}

(***************************************************************************)
(* What get_product_data(c), called once for each c in C, may return.      *)
(* Empty when one of the products does not exist: as<>() throws.           *)
(***************************************************************************)
RowsRead(C) ==
  {f \in [C -> IF OtherTerminals THEN Products ELSE products] :
     \A c \in C : f[c].code = c}

\* In hundredths of the unit of price, so that it is an integer.
price_after_discount(p) == p.price * (100 - p.discount)

-----------------------------------------------------------------------------
(***************************************************************************)
(* Vectors and unsigned comparisons.                                       *)
(***************************************************************************)

\* What s[i] may evaluate to, i being 0-based.
VectorRead(s, i) == IF i \in 0 .. (Len(s) - 1) THEN {s[i + 1]} ELSE Code

InBounds(s, i) == i \in 0 .. (Len(s) - 1)

(***************************************************************************)
(* A long compared with a size_t is converted to it.  Only that a negative *)
(* value becomes a huge one matters; 2^16 stands for 2^64.                 *)
(***************************************************************************)
AsSize(x) == x % 65536

-----------------------------------------------------------------------------
(***************************************************************************)
(* The basket.                                                             *)
(***************************************************************************)
Entry == [code : Code, quantity : Nat]

BasketCodes == {basket[j].code : j \in DOMAIN basket}

\* j is the entry the linear searches over the basket stop at.
FirstEntry(j, c) ==
  /\ basket[j].code = c
  /\ \A h \in 1 .. (j - 1) : basket[h].code # c

WithoutEntry(j) ==
  [n \in 1 .. (Len(basket) - 1) |->
     IF n < j THEN basket[n] ELSE basket[n + 1]]

\* Mutant of add_product_to_basket: the search for the product is skipped.
add_product_to_basket_Blind(c) ==
  basket' = Append(basket, [code |-> c, quantity |-> 1])

(***************************************************************************)
(* With an empty basket the loop never assigns product_already_in_basket,  *)
(* so the test that follows reads an indeterminate bool: the product is    *)
(* added or it is not.                                                     *)
(***************************************************************************)
add_product_to_basket(c) ==
  \/ \E j \in DOMAIN basket :
       /\ FirstEntry(j, c)
       /\ basket[j].quantity < MaxQuantity
       /\ basket' = [basket EXCEPT ![j].quantity = @ + 1]
  \/ /\ c \notin BasketCodes
     /\ basket' = Append(basket, [code |-> c, quantity |-> 1])
  \/ /\ basket = <<>>
     /\ UNCHANGED basket

\* Mutant of RemoveFromBasket: the entry is kept when its quantity is zero.
RemoveFromBasket_KeepsEmpty(c) ==
  \E j \in DOMAIN basket :
    /\ FirstEntry(j, c)
    /\ basket' = [basket EXCEPT ![j].quantity = @ - 1]

(***************************************************************************)
(* One unit of the product off; its entry goes with the last unit.  When   *)
(* the code is not in the basket the code reads basket[basket.size()]: if  *)
(* a zero quantity lies there it calls basket.erase(basket.end()), which   *)
(* drops the last entry.                                                   *)
(***************************************************************************)
RemoveFromBasket(c) ==
  \/ \E j \in DOMAIN basket :
       /\ FirstEntry(j, c)
       /\ basket' = IF basket[j].quantity = 1
                      THEN WithoutEntry(j)
                      ELSE [basket EXCEPT ![j].quantity = @ - 1]
  \/ /\ c \notin BasketCodes
     /\ basket' \in {basket, WithoutEntry(Len(basket))}

(***************************************************************************)
(* What a basket line comes to when row is what was read: price times      *)
(* quantity, less the discount; printed as two figures on a receipt.       *)
(***************************************************************************)
Amount(row, j) ==
  price_after_discount(row[basket[j].code]) * basket[j].quantity

BasketTotal(row) == SumFunction([j \in DOMAIN basket |-> Amount(row, j)])

-----------------------------------------------------------------------------
Init ==
  /\ \E table \in SUBSET Products :
       /\ \A p, q \in table : p.code = q.code => p = q
       /\ products = table
  /\ pc = "top"
  /\ key = "none"
  /\ current_tab = "PRODUCTS"
  /\ selection = 0 /\ start = 0 /\ end = 0
  /\ product_codes = <<>> /\ list = <<>> /\ found = <<>>
  /\ basket = <<>> /\ total = 0
  /\ barcode_prefix = "#"
  /\ receipt = <<>> /\ receipt_total = 0

\* main() returns or the process dies: all that is not in the table is lost.
ProcessEnds(how) ==
  /\ pc' = how
  /\ key' = "none"
  /\ current_tab' = "PRODUCTS"
  /\ selection' = 0 /\ start' = 0 /\ end' = 0
  /\ product_codes' = <<>> /\ list' = <<>> /\ found' = <<>>
  /\ basket' = <<>> /\ total' = 0
  /\ barcode_prefix' = "#"
  /\ receipt' = <<>> /\ receipt_total' = 0

Crash == ProcessEnds("crashed") /\ UNCHANGED products

Window(first, last, line) ==
  /\ first \in (-WindowBound) .. WindowBound
  /\ line \in (-WindowBound) .. WindowBound
  /\ start' = first /\ end' = last /\ selection' = line

SameWindow == UNCHANGED <<start, end, selection>>

\* The window after a test that found the selection past the end.
ResetWindow == Window(0, end, 0)

-----------------------------------------------------------------------------
(***************************************************************************)
(* The head of the loop.                                                   *)
(***************************************************************************)
LoadCodes ==
  /\ pc = "top"
  /\ product_codes' \in code_list
  /\ list' = <<>>
  /\ key' = "none"
  /\ pc' = "size"
  /\ UNCHANGED <<products, current_tab, selection, start, end, found, sale,
                 barcode_prefix>>

\* How many products fit on the screen.
max_products_nr ==
  (LINES - 3 - 2) \div 2 - (IF current_tab = "BASKET" THEN 1 ELSE 0)

SizeWindow ==
  /\ pc = "size"
  /\ IF max_products_nr >= current_list_size(current_tab, basket)
       THEN end' \in Counts
       ELSE end' = max_products_nr + start
  /\ pc' = "fill"
  /\ UNCHANGED <<products, key, current_tab, selection, start, product_codes,
                 list, found, sale, barcode_prefix>>

\* The lists that codes[start], ..., codes[end - 1] may make.
Visible(codes) ==
  {l \in [1 .. (IF end > start THEN end - start ELSE 0) -> Code] :
     \A n \in DOMAIN l : l[n] \in VectorRead(codes, start + n - 1)}

Inside(codes) == \A i \in start .. (end - 1) : InBounds(codes, i)

FillWindow ==
  /\ pc = "fill"
  /\ \E codes \in code_list :
       LET shown == IF current_tab = "BASKET"
                      THEN [j \in DOMAIN basket |-> basket[j].code]
                      ELSE codes
       IN \/ /\ Inside(shown) \/ current_tab = "BASKET" \/ shown # <<>>
             /\ list' \in Visible(shown)
             /\ pc' = "draw"
             /\ UNCHANGED <<products, key, current_tab, selection, start, end,
                            product_codes, found, sale, barcode_prefix>>
          \/ ~Inside(shown) /\ Crash

\* The products the head of the loop looks up.
Drawn == Range(product_codes) \cup Range(list) \cup BasketCodes

\* Mutant of Draw: the total is only worked out where it is shown.
Draw_TotalOnBasketTab ==
  /\ pc = "draw"
  /\ \E row \in RowsRead(Drawn) :
       total' = IF current_tab = "BASKET" THEN BasketTotal(row) ELSE total
  /\ pc' = "key"
  /\ UNCHANGED <<products, key, screen, basket, receipt, receipt_total,
                 barcode_prefix>>

(***************************************************************************)
(* A product that does not exist any more ends the process.  product_codes *)
(* is indexed up to the current size of the table, whatever its own size.  *)
(***************************************************************************)
Draw ==
  /\ pc = "draw"
  /\ \/ /\ stock_size = 0 \/ product_codes # <<>>
        /\ \E row \in RowsRead(Drawn) : total' = BasketTotal(row)
        /\ pc' = "key"
        /\ UNCHANGED <<products, key, screen, basket, receipt, receipt_total,
                       barcode_prefix>>
     \/ /\ \/ RowsRead(Drawn) = {}
           \/ stock_size > Len(product_codes)
           \/ OtherTerminals
        /\ Crash

-----------------------------------------------------------------------------
(***************************************************************************)
(* The chain of tests on key.  A key read at the top of the chain meets    *)
(* every test.  One read instead at the quit prompt meets those after it,  *)
(* and one read at a search result those after the search.  The barcode    *)
(* prefix is the last test of the chain, whatever handled the key before.  *)
(***************************************************************************)
Early == {"key", "quit"}
Late  == {"key", "quit", "found"}

Done(k) == IF k = barcode_prefix THEN "scan" ELSE "top"

\* The handler of k is over.
Finish(k) == key' = k /\ pc' = Done(k)

\* The codes list[selection] may evaluate to, selection being line.
Selected(line) == IF list = <<>> THEN {} ELSE VectorRead(list, line)

Quit ==
  /\ pc = "key"
  /\ \/ basket = <<>> /\ ProcessEnds("exited") /\ UNCHANGED products
     \/ /\ basket # <<>>
        /\ key' = "q" /\ pc' = "quit"
        /\ UNCHANGED <<products, screen, sale, barcode_prefix>>

ConfirmQuit ==
  /\ pc = "quit"
  /\ ProcessEnds("exited")
  /\ UNCHANGED products

\* The keys that no handler is waiting for.
Unhandled ==
  CASE pc = "key"   -> {"y", "#"}
    [] pc = "quit"  -> {"q", "#"}
    [] pc = "found" -> Keys \ {"m", "ENTER", "t", "T", "UP", "k", "DOWN", "j"}
    [] OTHER        -> {}

OtherKey ==
  /\ \E k \in Unhandled : Finish(k)
  /\ found' = <<>>
  /\ UNCHANGED <<products, current_tab, selection, start, end, product_codes,
                 list, sale, barcode_prefix>>

(***************************************************************************)
(* start_main_menu(): of the settings only the prefix matters here.  A     *)
(* number stoi() cannot convert throws.                                    *)
(***************************************************************************)
MainMenu ==
  /\ pc \in Early
  /\ \/ /\ barcode_prefix' \in Prefixes
        /\ key' = "ESC" /\ pc' = "top"
        /\ UNCHANGED <<products, screen, sale>>
     \/ Crash

\* Mutant of Remove: the product of the line below is erased.
Remove_NextLine ==
  /\ pc \in Early
  /\ current_tab # "BASKET"
  /\ \E c \in Selected(selection + 1) : products' = erase(c)
  /\ Finish("R")
  /\ UNCHANGED <<screen, sale, barcode_prefix>>

(***************************************************************************)
(* 'R' moves selection, start and end up by one when selection equals end  *)
(* (the test that should guard start and end compares a bool with a size   *)
(* and is always true).                                                    *)
(***************************************************************************)
MoveUp == IF selection = end THEN 1 ELSE 0

Remove ==
  /\ pc \in Early
  /\ \/ /\ current_list_size(current_tab, basket) = 0
        /\ Finish("R")
        /\ UNCHANGED <<products, screen, sale, barcode_prefix>>
     \/ /\ current_list_size(current_tab, basket) # 0
        /\ Window(start - MoveUp, end - MoveUp, selection - MoveUp)
        /\ \E c \in Selected(selection - MoveUp) :
             IF current_tab = "BASKET"
               THEN RemoveFromBasket(c) /\ UNCHANGED products
               ELSE products' = erase(c) /\ UNCHANGED basket
        /\ Finish("R")
        /\ UNCHANGED <<current_tab, product_codes, list, found, total,
                       receipt, receipt_total, barcode_prefix>>
     \/ /\ current_list_size(current_tab, basket) # 0
        /\ ~InBounds(list, selection - MoveUp)
        /\ Crash

(***************************************************************************)
(* The first part of add_modify_product(list[selection], ...), which looks *)
(* the product up even when a new one is to be added.                      *)
(***************************************************************************)
StartModify(k) ==
  \/ /\ \E c \in Selected(selection) : product_exists(c)
     /\ key' = k /\ pc' = "modify"
     /\ UNCHANGED <<products, screen, sale, barcode_prefix>>
  \/ /\ \/ ~InBounds(list, selection)
        \/ \E c \in Selected(selection) : ~product_exists(c)
     /\ Crash

AddProduct ==
  /\ pc \in Early
  /\ \/ current_tab # "BASKET" /\ StartModify("a")
     \/ /\ current_tab = "BASKET"
        /\ Finish("a")
        /\ UNCHANGED <<products, screen, sale, barcode_prefix>>

ModifyProduct ==
  /\ pc \in Early
  /\ \/ /\ current_list_size(current_tab, basket) # 0
        /\ StartModify("m")
     \/ /\ current_list_size(current_tab, basket) = 0
        /\ Finish("m")
        /\ UNCHANGED <<products, screen, sale, barcode_prefix>>

(***************************************************************************)
(* The prompts of add_modify_product.  ESC at any of them leaves the table *)
(* as it is; else the row is written and committed.  ESC at the second try *)
(* of a prompt that got a comma, and a number that is only dots, throw.    *)
(***************************************************************************)
FinishModify ==
  /\ pc = "modify"
  /\ \/ /\ \/ UNCHANGED products
           \/ \E p \in Products : products' = update_stock(p)
        /\ Finish(key)
        /\ found' = <<>>
        /\ UNCHANGED <<current_tab, selection, start, end, product_codes,
                       list, sale, barcode_prefix>>
     \/ Crash

\* Mutant of SwitchTab: the next tab is reached by counting up.
SwitchTab_PastLast ==
  /\ pc \in Early
  /\ current_tab' = CASE current_tab = "PRODUCTS" -> "BASKET"
                      [] current_tab = "BASKET"   -> "STOCK"
                      [] OTHER                    -> "no tab"
  /\ ResetWindow
  /\ Finish("TAB")
  /\ UNCHANGED <<products, product_codes, list, found, sale, barcode_prefix>>

SwitchTab ==
  /\ pc \in Early
  /\ current_tab' = IF current_tab = "PRODUCTS" THEN "BASKET" ELSE "PRODUCTS"
  /\ IF selection >= current_list_size(current_tab', basket)
       THEN ResetWindow
       ELSE SameWindow
  /\ Finish("TAB")
  /\ UNCHANGED <<products, product_codes, list, found, sale, barcode_prefix>>

StockTab ==
  /\ pc \in Early
  /\ current_tab' = "STOCK"
  /\ Finish("r")
  /\ UNCHANGED <<products, selection, start, end, product_codes, list, found,
                 sale, barcode_prefix>>

ScrollUp ==
  /\ pc \in Early
  /\ IF start # 0 THEN Window(start - 1, end - 1, selection) ELSE SameWindow
  /\ Finish("w")
  /\ UNCHANGED <<products, current_tab, product_codes, list, found, sale,
                 barcode_prefix>>

ScrollDown ==
  /\ pc \in Early
  /\ IF end # current_list_size(current_tab, basket)
       THEN Window(start + 1, end + 1, selection)
       ELSE SameWindow
  /\ Finish("s")
  /\ UNCHANGED <<products, current_tab, product_codes, list, found, sale,
                 barcode_prefix>>

-----------------------------------------------------------------------------
(***************************************************************************)
(* Adding to the basket.                                                   *)
(***************************************************************************)
RingUp(c) ==
  /\ product_exists(c)
  /\ add_product_to_basket(c)
  /\ current_tab' = "BASKET"
  /\ UNCHANGED <<total, receipt, receipt_total>>

\* indexed_selection, a long, is compared with basket.size().
ResetPastBasket ==
  IF AsSize(start + selection) >= Len(basket') THEN ResetWindow ELSE SameWindow

AddSelected ==
  /\ pc \in Early
  /\ \/ /\ current_tab # "PRODUCTS"
        /\ Finish("ENTER")
        /\ UNCHANGED <<products, screen, sale, barcode_prefix>>
     \/ /\ current_tab = "PRODUCTS"
        /\ \E c \in Selected(selection) : RingUp(c)
        /\ ResetPastBasket
        /\ Finish("ENTER")
        /\ UNCHANGED <<products, product_codes, list, found, barcode_prefix>>
     \/ /\ current_tab = "PRODUCTS"
        /\ \/ ~InBounds(list, selection)
           \/ \E c \in Selected(selection) : ~product_exists(c)
        /\ Crash

StartSearch ==
  /\ pc \in Early
  /\ key' = "/" /\ pc' = "search"
  /\ UNCHANGED <<products, screen, sale, barcode_prefix>>

(***************************************************************************)
(* binary_search() returns an index of the list of names read now, or any  *)
(* int if that list is empty; it is used on product_codes, read at the     *)
(* head of the loop.                                                       *)
(***************************************************************************)
SearchIndexes ==
  IF stock_size = 0 \/ OtherTerminals
    THEN 0 .. Cardinality(CodesOf(Products))
    ELSE 0 .. (stock_size - 1)

FinishSearch ==
  /\ pc = "search"
  /\ \/ Finish(key) /\ UNCHANGED <<products, screen, sale, barcode_prefix>>
     \/ /\ product_codes # <<>>
        /\ \E i \in SearchIndexes : \E c \in VectorRead(product_codes, i) :
             /\ product_exists(c)
             /\ found' = <<c>>
        /\ pc' = "found"
        /\ UNCHANGED <<products, key, current_tab, selection, start, end,
                       product_codes, list, sale, barcode_prefix>>
     \/ /\ \/ product_codes = <<>>
           \/ \E i \in SearchIndexes :
                \/ ~InBounds(product_codes, i)
                \/ \E c \in VectorRead(product_codes, i) : ~product_exists(c)
        /\ Crash

\* 'm' at the search result.
ModifyFound ==
  /\ pc = "found"
  /\ \/ /\ product_exists(found[1])
        /\ key' = "m" /\ pc' = "modify"
        /\ UNCHANGED <<products, screen, sale, barcode_prefix>>
     \/ ~product_exists(found[1]) /\ Crash

\* ENTER at the search result.
AddFound ==
  /\ pc = "found"
  /\ \/ /\ RingUp(found[1])
        /\ ResetPastBasket
        /\ found' = <<>>
        /\ Finish("ENTER")
        /\ UNCHANGED <<products, product_codes, list, barcode_prefix>>
     \/ ~product_exists(found[1]) /\ Crash

(***************************************************************************)
(* The scanner types the rest of the code and a newline.  ESC, a string    *)
(* that is only dots and a number too large for a long throw.              *)
(***************************************************************************)
Scan ==
  /\ pc = "scan"
  /\ \/ /\ \E c \in Code :
             \/ current_tab # "STOCK" /\ RingUp(c)
             \/ /\ current_tab = "STOCK" \/ ~product_exists(c)
                /\ UNCHANGED <<current_tab, sale>>
        /\ IF selection >= current_list_size(current_tab', basket')
             THEN ResetWindow
             ELSE SameWindow
        /\ pc' = "top"
        /\ UNCHANGED <<products, key, product_codes, list, found,
                       barcode_prefix>>
     \/ Crash

-----------------------------------------------------------------------------
(***************************************************************************)
(* The receipt: 't' prints one, 'T' prints one and clears the basket.      *)
(***************************************************************************)
StartPrint ==
  /\ pc \in Late
  /\ key' \in {"t", "T"}
  /\ found' = <<>>
  /\ pc' = "print"
  /\ UNCHANGED <<products, current_tab, selection, start, end, product_codes,
                 list, sale, barcode_prefix>>

\* Mutant of PrintFails: open() is tried again until it succeeds.
PrintFails_Retries ==
  /\ pc = "print"
  /\ UNCHANGED vars

\* Mutant of PrintFails: 'T' does not look at what print_receipt() returns.
PrintFails_Clears ==
  /\ pc = "print"
  /\ receipt' = <<>> /\ receipt_total' = 0
  /\ basket' = IF key = "T" THEN <<>> ELSE basket
  /\ Finish(key)
  /\ UNCHANGED <<products, screen, total, barcode_prefix>>

\* print_receipt() returns false: nothing to print, or open() failed.
PrintFails ==
  /\ pc = "print"
  /\ receipt' = <<>> /\ receipt_total' = 0
  /\ Finish(key)
  /\ UNCHANGED <<products, screen, basket, total, barcode_prefix>>

print_receipt ==
  /\ pc = "print"
  /\ basket # <<>>
  /\ \/ /\ \E row \in RowsRead(BasketCodes) :
             receipt' = [j \in DOMAIN basket |->
                           [code     |-> basket[j].code,
                            quantity |-> basket[j].quantity,
                            amount   |-> Amount(row, j)]]
        /\ receipt_total' = total
        /\ pc' = "reprint"
        /\ UNCHANGED <<products, key, screen, basket, total, barcode_prefix>>
     \/ /\ RowsRead(BasketCodes) = {} \/ OtherTerminals
        /\ Crash

Reprint ==
  /\ pc = "reprint"
  /\ pc' = "print"
  /\ UNCHANGED <<products, key, screen, sale, barcode_prefix>>

FinishPrint ==
  /\ pc = "reprint"
  /\ IF key = "T"
       THEN basket' = <<>> /\ total' = 0
       ELSE UNCHANGED <<basket, total>>
  /\ receipt' = <<>> /\ receipt_total' = 0
  /\ Finish(key)
  /\ UNCHANGED <<products, screen, barcode_prefix>>

-----------------------------------------------------------------------------
(***************************************************************************)
(* Moving the selection; the window follows at its first and last line.  A *)
(* letter does what its arrow does, and is told apart from it only where   *)
(* it may be the prefix of a barcode too.                                  *)
(***************************************************************************)
MoveKeys(arrow, letter) == {arrow} \cup ({letter} \cap Prefixes)

Up ==
  /\ pc \in Late
  /\ LET line == IF selection # 0 THEN selection - 1 ELSE 0
     IN IF start # 0 /\ line = 0
          THEN Window(start - 1, end - 1, 1)
          ELSE Window(start, end, line)
  /\ \E k \in MoveKeys("UP", "k") : Finish(k)
  /\ found' = <<>>
  /\ UNCHANGED <<products, current_tab, product_codes, list, sale,
                 barcode_prefix>>

Down ==
  /\ pc \in Late
  /\ LET last == AsSize(Len(list) - 1)
         line == IF /\ AsSize(selection) < last
                    /\ start + selection < current_list_size(current_tab, basket)
                   THEN selection + 1
                   ELSE selection
     IN \E size \in Counts :
          IF end # size /\ AsSize(line) = last
            THEN Window(start + 1, end + 1, line - 1)
            ELSE Window(start, end, line)
  /\ \E k \in MoveKeys("DOWN", "j") : Finish(k)
  /\ found' = <<>>
  /\ UNCHANGED <<products, current_tab, product_codes, list, sale,
                 barcode_prefix>>

-----------------------------------------------------------------------------
Running == pc \notin {"exited", "crashed"}

OtherTerminal ==
  /\ OtherTerminals
  /\ \/ \E p \in Products : products' = update_stock(p)
     \/ \E c \in Code : products' = erase(c)
  /\ UNCHANGED <<pc, key, screen, sale, barcode_prefix>>

(***************************************************************************)
(* A query finds the connection broken and throws.  At the reprint prompt  *)
(* there is none.  When the query is the commit of a write, the write may  *)
(* have been applied (in_doubt_error).                                     *)
(***************************************************************************)
ConnectionLost ==
  /\ Running /\ pc # "reprint"
  /\ ProcessEnds("crashed")
  /\ \/ UNCHANGED products
     \/ pc = "modify" /\ \E p \in Products : products' = update_stock(p)
     \/ /\ pc \in Early /\ current_tab # "BASKET"
        /\ \E c \in Selected(selection - MoveUp) : products' = erase(c)

\* The program is started again.
Restart ==
  /\ ~Running
  /\ pc' = "top"
  /\ UNCHANGED <<products, key, screen, sale, barcode_prefix>>

LoopHead == LoadCodes \/ SizeWindow \/ FillWindow \/ Draw

Handler ==
  \/ Quit \/ ConfirmQuit \/ OtherKey \/ MainMenu
  \/ Remove \/ AddProduct \/ ModifyProduct \/ FinishModify
  \/ SwitchTab \/ StockTab \/ ScrollUp \/ ScrollDown \/ Up \/ Down
  \/ AddSelected \/ StartSearch \/ FinishSearch \/ ModifyFound \/ AddFound
  \/ Scan
  \/ StartPrint \/ PrintFails \/ print_receipt \/ Reprint \/ FinishPrint

Next == LoopHead \/ Handler \/ OtherTerminal \/ ConnectionLost \/ Restart

(***************************************************************************)
(* The loop head and print_receipt() wait for no one; what needs a key is  *)
(* left to the user.                                                       *)
(***************************************************************************)
Spec ==
  /\ Init /\ [][Next]_vars
  /\ WF_vars(LoopHead) /\ WF_vars(PrintFails \/ print_receipt)

-----------------------------------------------------------------------------
Lines == [code : Code, quantity : Nat, amount : Int]

(***************************************************************************)
(* The types of the variables of main(), and a search result on the screen *)
(* whenever its key is awaited.                                            *)
(***************************************************************************)
TypeOK ==
  /\ products \subseteq Products
  /\ pc \in {"top", "size", "fill", "draw", "key", "quit", "modify", "search",
             "found", "scan", "print", "reprint", "exited", "crashed"}
  /\ key \in Keys \cup {"none"}
  /\ current_tab \in Tabs
  /\ selection \in (-WindowBound) .. WindowBound
  /\ start \in (-WindowBound) .. WindowBound
  /\ end \in Int
  /\ product_codes \in Seq(Code) /\ list \in Seq(Code)
  /\ found \in Seq(Code) /\ (pc = "found" => found # <<>>)
  /\ basket \in Seq(Entry)
  /\ barcode_prefix \in Prefixes
  /\ receipt \in Seq(Lines)

(***************************************************************************)
(* The basket has one line per product and no line without a unit, however *)
(* products get into it (list, search, scanner) and out of it, and         *)
(* whatever other terminals do to the table meanwhile.                     *)
(***************************************************************************)
BasketOK ==
  /\ \A i, j \in DOMAIN basket : basket[i].code = basket[j].code => i = j
  /\ \A j \in DOMAIN basket : basket[j].quantity \in 1 .. MaxQuantity

(***************************************************************************)
(* The total at the foot of a receipt, worked out when the screen was last *)
(* drawn, is the sum of its lines, worked out when it is printed: no path  *)
(* of keys changes the basket or a price between the two.  It says so of a *)
(* table no other terminal writes.                                         *)
(***************************************************************************)
ReceiptAdds ==
  pc = "reprint" =>
    receipt_total = SumFunction([j \in DOMAIN receipt |-> receipt[j].amount])

(***************************************************************************)
(* The program always gets to a point where it reads a key, or dies.       *)
(***************************************************************************)
Responds ==
  (pc \in {"top", "size", "fill", "draw", "print"})
    ~> (pc \in {"key", "reprint", "scan", "crashed"})

(***************************************************************************)
(* 'R' on the product list erases the product that is highlighted, as long *)
(* as the window does not start above the list: the correction of the      *)
(* selection that goes before it never hits another line.                  *)
(***************************************************************************)
RemovesHighlighted ==
  [][/\ pc \in Early /\ key' = "R"
     /\ products' # products
     /\ start >= 0
     /\ InBounds(list, selection)
     => products' = erase(list[selection + 1])]_vars

(***************************************************************************)
(* main.cpp, where the window is moved: "Check if visible product window   *)
(* will not go off screen".                                                *)
(***************************************************************************)
WindowOnScreen ==
  pc = "key" => 0 <= start /\ end <= current_list_size(current_tab, basket)

(***************************************************************************)
(* main.cpp, at 'T': "Clear basket and total for next customer".  Once the *)
(* receipt of a checkout is printed, the checkout leaves an empty basket.  *)
(***************************************************************************)
CheckoutClears ==
  [][/\ pc \in {"print", "reprint"} /\ key = "T" /\ receipt # <<>>
     /\ pc' \in {"top", "scan"}
     => basket' = <<>>]_vars

(***************************************************************************)
(* The basket is the sale of a Register, its slip the receipt.             *)
(***************************************************************************)
UnitsIn(s, c) ==
  IF \E j \in DOMAIN s : s[j].code = c
    THEN s[CHOOSE j \in DOMAIN s : s[j].code = c].quantity
    ELSE 0

R == INSTANCE Register WITH
       sale <- [c \in Code |-> UnitsIn(basket, c)],
       slip <- [c \in Code |-> UnitsIn(receipt, c)],
       up   <- Running

(***************************************************************************)
(* Every terminal is a Register: units change one product at a time, never *)
(* while a receipt is out, and the basket is emptied only by a receipt     *)
(* that lists exactly what was in it, or by the end of the process.        *)
(***************************************************************************)
IsRegister == R!Spec

=============================================================================
