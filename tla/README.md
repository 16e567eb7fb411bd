# Verification of cli_pos

cli_pos is a point-of-sale terminal for ncurses. Each till runs one
single-threaded process; all tills share one PostgreSQL database through
libpqxx, a copy of which is kept in the repository. The program is
`src/src/*.cpp` and `src/src/h_files/*.h` (about 2300 lines); the library is
`src/libpqxx` (about 27000). This directory holds TLA+ models of both, TLC
configurations that check them on small instances, and TLAPS proofs.
`PROJECT.json` maps every definition to the lines it models.

## Inventory

| Component | State | Operations | Talks to |
|---|---|---|---|
| Main loop (`main.cpp` 636-991) | `key`, `current_tab`, `product_codes`, `list` | reload, draw, `getch()`, a chain of `if (key == ...)` | everything else, by calls and globals |
| Window and selection (`main.cpp` 492-550 and the handlers) | `visible_product_list.start/end`, `selection` | scroll, move, switch tab, the adjustment on `R` | basket size, table size |
| Basket (`main.cpp` 552-569, 732-766) | `basket`, `total` | add from list, search or scanner; remove; clear | table, for prices |
| Receipt (`main.cpp` 571-632) | the printer's file descriptor | `print_receipt`, the reprint prompt, which recurses | basket, table, printer |
| Scanner (`main.cpp` 961-989) | `barcode_prefix` | read digits, look the code up, add it | basket, table |
| Search (`binary_search.cpp`) | none | `compare_string`, `binary_search` | `name_list`, `product_codes` |
| Editing products (`main.cpp` 110-242) | the product edited | look up, eight prompts, `update_stock`, commit | table, text input |
| Database functions (`database_functions.cpp`) | the table `products` | count, list, exists, update or insert, erase | PostgreSQL |
| Text input (`input_string.cpp`) | the line typed | `get_string`, `remove_non_nr` | keyboard |
| Menus (`menus.cpp`) | stack of labels, settings | `run_menu`, `selection_list`, prefix and printer settings | keyboard |
| Screen output (`main.cpp`, `colors.h`, `text.h`) | none | tables, headings, messages | table |
| PostgreSQL (external) | committed rows, locks, blocks, cursors, descriptors | statements | all tills |

and of the library:

| Component | State | Operations | Talks to |
|---|---|---|---|
| Connection (`connection.cxx`, `errorhandler.cxx`) | the libpq handle, `notice_waiters`, error handlers, the current transaction | connect, move, close, `adorn_name` | libpq |
| Notifications (`connection.cxx`, `notification.cxx`) | handlers, receivers | `listen`, `get_notifs` | transactions, other sessions |
| Transactions (`transaction*.cxx`, `robusttransaction.cxx`, `subtransaction.cxx`) | status, focus, pending error | begin, exec, commit, abort | connection, server |
| Errors and retries (`except.*`, `result.cxx`, `transactor.hxx`) | attempts left | `throw_sql_error`, `perform` | transactions |
| Pipeline (`pipeline.cxx`) | queries, issued range, error limit | insert, retrieve, complete, flush, cancel | libpq's results |
| Cursors (`sql_cursor.cxx`, `cursor.cxx`) | position, end position, list of iterators | move, fetch, retrieve | the SQL cursor |
| Large objects (`blob.cxx`, `largeobject.*`) | descriptor, stream buffer | open, read, write, seek, remove | server's descriptors |
| COPY streams (`stream_*`) | line buffer, row buffer, focus | write and read rows, complete | the COPY on the connection |
| Results (`result.*`, `row.*`, `field.*`) | shared data, positions | copy, move, index, iterate | PGresult |
| Text (`encodings.*`, `array*`, `composite.hxx`, `range.hxx`, `time.*`, `params.hxx`) | buffers, parsers | render, parse | server's text formats |


What is hard about it:

* **Stale data.** Every loop reads the lists, then waits in `getch()` for as long
  as the user likes. Positions (`selection`, the index of a search) are then used
  on lists read earlier, while other tills change the table.
* **Statements between statements.** Transactions run at READ COMMITTED, so any
  two queries of one function may see different tables: `code_list()` counts the
  table before each row it copies, `update_stock()` looks a code up and then
  inserts it.
* **One chain of tests for keys.** A handler that reads `key` again (the quit
  prompt, the search result) lets the tests below it run on the new key, and the
  barcode prefix, which may be any printable key, is tested last.
* **Signed and unsigned.** `selection` and `start` are `int`, sizes are `size_t`,
  and the comparisons mix them; the window can leave the list.
* **Nothing is caught.** Every exception, from a missing row to a lost
  connection, ends the process and with it the basket.
* **Partial failure.** Printing may fail after an earlier copy succeeded, and a
  commit may be in doubt.

In the library:

* **Who owns what.** Handles, descriptors, cursors, PGresults and the focus of a
  transaction have one owner, through moves, exceptions in moves, closing in any
  order and destructors that run after a failure.
* **Mirrors.** The client keeps a copy of what the server knows: the block and
  its failure, the position of a cursor, the channels listened to, the range of
  queries issued. A failed command may change one side only.
* **In doubt.** A connection that breaks in `COMMIT` leaves either outcome.
* **Estimates.** Text is written into buffers whose size was estimated by another
  function, and not all writes are checked.
* **Bytes and characters.** In some encodings a trail byte looks like a quote.

What makes each component correct: the window shows existing lines and the
highlighted product is the one acted on; the basket has one line per product and
changes only by ringing up, voiding and checkout; a receipt lists the basket and
its total is the sum of its lines; a checkout empties the basket exactly when its
receipt is out; a search finds a name that is there; the table has one row per
code and a till's write is one step on one product; the program always returns to
a prompt; the library's mirrors are exact, its handles are closed once, committed
means committed, and a value that goes to the server and back is the same. The hazards, line by line, are in `PROJECT.json`.

## Modules

| Module | Role |
|---|---|
| `Terminal` | one till: main loop, window, basket, search, scanner, editing, receipt, with the table and other tills as its environment |
| `Register` | abstract: what a cash register promises about a sale |
| `Stock` | several tills on the table, one action per SQL statement |
| `Catalogue` | abstract: what the table promises its tills |
| `BinarySearch` | `compare_string` and `binary_search` |
| `Prompt` | the dialogue of `add_modify_product`, key by key, with its conversions |
| `Menu` | `run_menu` and the settings |
| `Transaction` | the transaction classes on one connection, and the server's block |
| `Failures` | exception classes and the choice of one for an SQLSTATE (no state; used by `Transactor`) |
| `Transactor` | `perform()` around a callback that commits |
| `Connection` | ownership of handles, notice waiters and error handlers |
| `Notification` | handlers, receivers and other sessions' notifications |
| `Pipeline` | queries in batches |
| `Cursor`, `CursorStream` | `sql_cursor` and `stateless_cursor`; `icursorstream` and its iterators |
| `LargeObject`, `LargeObjectStream` | descriptors and their holders; the stream buffer |
| `CopyText`, `CopyStream` | the text format of COPY; the life of the streams in a transaction |
| `ResultSet`, `ResultIterators`, `ResultAccess` | ownership, iteration, checked access |
| `Encodings`, `GlyphScan` | finding a character in a client encoding; the search as a machine |
| `Quoting`, `Composite`, `SqlArray` | quoted strings; composites and arrays there and back (both use `Quoting`, which uses `Encodings`) |
| `Range`, `Dates`, `Placeholders` | ranges, dates, names of parameters |
| `TerminalProofs`, `StockProofs`, `BinarySearchProofs` | theorems about the till, the table and the search |
| `TransactionProofs`, `ConnectionProofs`, `NotificationProofs`, `ResultSetProofs` | theorems about the library; the first has the large objects too |
| `SessionProofs` | theorems about the parts of `MCSession`: menus, retries, subscriptions, the table without its constraint, cursors, COPY streams, results, ranges |
| `Parts` | a machine that is one of several independent parts |
| `MCBinarySearch`, `MCTerminal`, `MCStock` | instances of the modules they are named after |
| `MCProgress`, `MCSession`, `MCRows`, `MCTexts` | the other modules, instantiated and run together by what is asked of them |

The last four hold several parts each. One is the module they extend, with its own
variables and with constants from the configuration: `Transaction` in `MCProgress`
(programs that use every class and break the rules) and in `MCSession` (programs that
keep them), `ResultSet` in `MCRows`, `Connection` in `MCTexts`. The others are
instances. `Parts` declares `part` and the variables `v1` to `v14`; `part` is chosen in
the initial state and never changes, an instance takes as many of the variables as it
needs (`INSTANCE ... WITH`), the others stay as they are, and a step of the machine is
a step of the chosen part's `Next`. The parts share no state, so the behaviours of the
machine are those of each part by itself, and `part = "x" => P` says that `P` holds of
the instance `x`. Properties of one subject are conjoined there; their names in the
component modules are in the conjunction.

### Terminal

Variables carry the program's names; `pc` says where the process is. The head of
the loop is four actions (`LoadCodes`, `SizeWindow`, `FillWindow`, `Draw`), so
that other tills may act between them. Each handler is one action up to the next
place where it waits for a key with something at stake: `StartModify` and
`FinishModify` around the prompts, `StartSearch`, `FinishSearch` and then a key
at `pc = "found"`, `Scan`, and `StartPrint`, `print_receipt` or `PrintFails`,
`Reprint`, `FinishPrint`. `Early` and `Late` are the program points at which the
tests above and below the search are reached; `Finish(k)` ends a handler at the
last test, the barcode prefix, which is why a key may do two things. The letters that
do what an arrow does, `k` and `j`, differ from it only as prefixes (`MoveKeys`).

Undefined behaviour is a choice. A read outside a vector with a buffer
(`VectorRead`) yields any code or ends the process, and one of an empty vector
ends it. `product_already_in_basket`, uninitialised when the basket is empty, has
either value. `AsSize` is the conversion of an `int` to `size_t`. A query that is
issued twice in a step may return different results when `OtherTerminals` holds
(`Counts`, `RowsRead`, the prefixes in `code_list`).

Data are abstract: a product is a code, a rank in the order of names, a price
and a discount; the other columns affect nothing modelled. Money is in exact
integers. Quantities count whole units, which is all the program ever adds or
removes. The table has unique codes here; `Stock` shows what that rests on.

### Stock

A terminal's `pc` is the statement it is at. A `SELECT` or `COUNT` sees what is
committed; an `UPDATE` or `DELETE` fixes its rows when issued (`Issue`), waits
for uncommitted writes of them, skips those that have gone (`Updating`,
`DeleteRows`), and its writes stay in `pending` under `lock` until `Commit`. The
server locks the rows of one statement in the order of its scan, the same for
all, so they are locked in one step. `UniqueCode` is a parameter because the
repository has no schema: `src/README.md` leaves the database to the user. With
it, `Insert` waits for uncommitted writes that concern its code and throws if
the code is taken. `ConnectionLost` may strike at any statement, and at a commit
leaves either outcome (libpqxx's `in_doubt_error`).

`Stock!IsCatalogue` is what licenses the environment of `Terminal`: seen from a
till, other tills put or remove one product in one step.

### BinarySearch

One action per iteration. Strings are sequences of character codes, because
whether one is a prefix of another decides what `compare_string` returns. The
uninitialised `mid`, returned for an empty list, is a choice.

### Prompt and Menu

`Prompt` has one action per key. A text is a sequence of characters of the kinds
the program tells apart; a number is its digits on both sides of the point, so
that cutting `1234.560000` to the field's length is exactly what it is in the code.
`retrying` is the recursion after a comma. In `Menu` the recursion of `run_menu` is
a stack of frames, each with its copy of the labels.

### Transactions, connections, notifications, pipelines

Calls are single steps, because a program uses one connection from one thread;
what happens between a command and its answer is a choice of the server
(`Transaction!Run`) or, where others act in between, two steps (`Notification`,
whose `call` is open until `Finish`, and the questions of `robusttransaction`). The
server's side is part of the state, so that properties compare the two. Constants
say which documented rules the program keeps (`Careful`, `Rules`, `Transient`,
`Throws`): instances keep those under "What does not hold", except where the
property holds without them (`Transaction` in `MCProgress` drops them: there, as in the
code, a statement with parameters is sent for a transaction that is over, which `exec()`
refuses). A query of `Pipeline` is one statement, as `pipeline.hxx` line 81 asks; the
private functions map a state to the set of states they may leave it in, and
`Then` stops the chain at an exception. `Transactor` uses `Failures` for both what
is thrown and what is caught, by the class hierarchy of `except.hxx`.

### Cursors, large objects, COPY, results

The server's cursor, descriptors and COPY are modelled next to the client's
objects. `CursorStream` keeps the linked list with its `prev` and `next`, as the
constructors and destructors leave it. `LargeObjectStream` runs beside a plain file
with one position, its reference. In `CopyText` a row goes to the server and back
through both readers, field by field and character by character, because the row
buffer and the views into it are what can go wrong; `CopyStream` leaves the text out and
has the focus, the COPY and its late errors. `ResultSet` tracks which object stands
for which row (`meant`) beside the shared pointers.

### Text

`Encodings` works on bytes, the server in `Quoting` on characters. `Composite` and
`SqlArray` write into a buffer of the estimated size, byte by byte where
source and destination share it; a write past the end is a state of its own. The
server then reads the text, and writes it again by its own rules for quotes.
`Range` counts lengths only; points between and around the values stand for a
dense type. `Dates` has texts as characters, 16-bit years and a calendar with a
year zero. `Placeholders` has the bytes of the buffer.

## Runs

| Run | Configuration | Checks | Shows |
|---|---|---|---|
| `search` | `MCBinarySearch.cfg` | `ResultInRange`, `FindsComparableNames`, `Returns` | binary_search on every ascending list of up to four one- and two-letter names: it returns, its result indexes the list, and it finds every name of a list whose names compare_string can tell apart. |
| `search_prefix` | `MCBinarySearchPrefix.cfg` | **violation** of `FindsEveryName` | A name that extends an earlier name of the list is not found. |
| `window` | `MCTerminalWindow.cfg` | `TypeOK`, `RemovesHighlighted` | Three products on a screen that shows two (one on the basket tab): every scroll position, selection and tab switch, with deletion of what is highlighted. |
| `sale` | `MCTerminalSale.cfg` | `BasketOK`, `ReceiptAdds`, `IsRegister` | Two products whose price and discount change, a terminal that has the table to itself, and a barcode prefix that may collide with the checkout key or with a key that moves the selection: basket, receipt and the refinement of Register. |
| `shared` | `MCTerminalShared.cfg` | `IsRegister`, `Responds` | The same terminal while others insert, change and erase products between any two of its queries; the program always gets to a prompt or dies. |
| `stock_shared` | `MCStockShared.cfg` | `IsCatalogue`, `HandlersEnd` | Two terminals edit, erase and list products statement by statement on a table with a unique code: the table changes one product at a time, and no handler waits for ever. |
| `off_screen` | `MCTerminalOffScreen.cfg` | **violation** of `WindowOnScreen` | Removing a basket line moves the window above the top of the list. |
| `checkout_kept` | `MCTerminalCheckout.cfg` | **violation** of `CheckoutClears` | A checkout whose receipt was printed keeps the basket when the second copy cannot be printed. |
| `progress` | `MCProgress.cfg` | `RegistrationExact`, `ExitLeavesAll`, `RobustCommitEnds`, `NotificationsTaken`, `ReadersEnd` | What must come to an end does: leaving the menus, the commit of a robusttransaction that lost its connection, the delivery of notifications when handlers throw, the parsing of COPY lines, loops over results; with the invariant of the registration of transactions in programs of every kind, with up to three faults. |
| `sessions` | `MCSession.cfg` | `CommitIsDefinite`, `NoBlockLeft`, `OneOutcome`, `SubscribersListen`, `CopiesBounded`, `CursorsExact`, `CopyStreamsExact`, `LargeObjectsExact`, `AccessInside`, `IteratorsExact`, `RangesExact`, `LabelsAreThePath` | A program and its session: transactions and subtransactions with up to two faults, perform() with every SQLSTATE, subscriptions, the stock table without its unique constraint, cursors with strides in both directions, COPY streams under faults, three large object handles and a buffered large object, access by number, iterators and loops, ranges; and the menus. |
| `rows` | `MCRows.cfg` | `ResultsOwned`, `CursorStreamsExact`, `PipelineExact` | What is read piece by piece and the objects it is read through: results that are copied, swapped and freed, three iterators on one cursor stream, and pipelines in and outside of a block. |
| `texts` | `MCTexts.cfg` | `HandlesOwned`, `CopyRoundTrip`, `AnswersKept`, `HitsAreGlyphs`, `CompositesExact`, `ArraysExact`, `ValuesExact`, `NamesAreNew` | Connections that are moved while they connect, their handles, error handlers and names; and what is turned into text and read back: COPY lines, prompts, every encoding, composite values, arrays well formed and garbled, dates and placeholders, against reference definitions over all inputs in the bounds. |

A violation contradicts the line of the repository that is quoted under "findings"
in `PROJECT.json`. Every property of a passing run has at least one mutant, an
operator beside the mapped definition that changes it as a plausible bug would
(a dropped guard, a missing reset, an off-by-one), under which TLC finds the
property violated; a property that joins several statements has one for most of
them.

What the joined properties say, part by part:

`progress` (`MCProgress`):

* `RegistrationExact`: The connection's pointer names the one live object that
  registered, and never one that is gone: the next transaction is neither refused
  for a dead one nor let in next to a live one.
* `ExitLeavesAll`: "exit" in any menu leads back to the list of products without
  another key, however deep the menu was (run_menu hands it up call by call).
* `RobustCommitEnds`: commit() of a robusttransaction that lost its connection
  comes to an end.
* `NotificationsTaken`: Every notification is taken from the queue in the end,
  whichever handlers throw and whatever transactions are in the way of
  get_notifs().
* `ReadersEnd`: Reading comes to its end: every row that is written to a COPY gets
  through the parsers, unless the server refuses it, and so does every loop over a
  result.

`sessions` (`MCSession`):

* `CommitIsDefinite`: The status of a transaction means what its documentation
  says, whatever failed on the way: what commit() returned for is in the database,
  and what was aborted is not, also when a parent or a successor commits.
* `NoBlockLeft`: A transaction that is over leaves the connection ready for the
  next: no block stays open behind it.
* `OneOutcome`: However often perform() runs its callback again, it commits the
  work of one run when it returns, and of none when it throws, unless it says that
  it does not know; and never the work of two.
* `SubscribersListen`: Between calls, no handler or receiver waits on a channel
  that the server does not send; and no handler is called between BEGIN and the
  end of its block, whenever the notification was sent.
* `CopiesBounded`: Without a unique constraint on code, update_stock() still
  leaves a code with at most one row for each terminal: with one, if there is only
  one terminal.
* `CursorsExact`: A cursor object's position is that of the server's cursor, and
  retrieve() returns the rows between two positions; a cursor that its object owns
  is closed with it, unless it was declared to outlive its transaction; no range
  starts at the end of the result.
* `CopyStreamsExact`: A reader that says it is at the end has given every row; a
  commit() without an exception has stored every row written, if readers are read
  to their end. The transaction's focus is the stream in use, and the server is in
  a COPY FROM only while a stream is there to end it.
* `LargeObjectsExact`: A blob object never uses a descriptor that was opened for
  another, and every open descriptor has one object that will close it, if the
  objects do not outlive their transaction; a function that fails leaves no large
  object behind; a buffer gets what was read and no more. A stream that is not
  repositioned writes and reads the bytes of the large object in order, each once.
* `AccessInside`: No access by a number from 0 that returns goes outside the rows
  and columns of the result, and the query functions that check the shape of their
  result return one of that shape only.
* `IteratorsExact`: A reverse iterator, however it was moved, shows the element
  that the program counted back to, and its distances, order and subscripts are
  those of steps. A loop hands over every row once and in order.
* `RangesExact`: After any intersections and conversions to text and back, a range
  contains the values that are in all the ranges that went into it; contains() and
  empty() tell the same of it; and every range can be converted to text whose
  bounds are of a type that counts a terminating zero in its size_buffer().
* `LabelsAreThePath`: The line above a menu is the way to it, whatever was opened
  and left before (run_menu erases labels at end()), and every setting keeps a
  value that the code reading it can use.

`rows` (`MCRows`):

* `ResultsOwned`: The data of a query is freed when the last result, row or field
  that refers to it is gone, and not before; each object shows the data it stands
  for; and rows compare equal when they stand for the same row.
* `CursorStreamsExact`: Iterators on one cursor stream each show the rows of their
  own position, as long as the stream is read through them only, and the stream's
  list holds those that are alive, each once, whatever is copied, assigned, moved
  and destroyed.
* `PipelineExact`: A pipeline runs no query twice, also when a batch failed and
  its queries were sent again one by one (and the one that failed fails again);
  the range of queries it has issued is the range the server has; retrieve()
  returns the result of the query it was asked for, and is_finished() says so only
  of queries whose result is there; complete() returns with nothing left to wait
  for.

`texts` (`MCTexts`):

* `HandlesOwned`: Every handle of libpq that is not finished belongs to exactly
  one connection, whatever is moved and whichever connect fails; its notice
  processor points to notice_waiters that exist; and no errorhandler is reached
  through a connection that is gone, or called after its life; provided that, as
  documented, no connection is moved that has a transaction or error handlers.
* `CopyRoundTrip`: The fields that stream_from and stream_query hand out are those
  of the row that stream_to was given, nulls and texts that look like escapes
  included; the parsers end with the line's last character, and stay inside a row
  buffer that was sized by the line before its first field was parsed.
* `AnswersKept`: Whatever way an answer takes through the dialogue of
  add_modify_product, what is kept of it is not empty, fits the column and has no
  comma; accepting an offered number leaves it as it is when its significant
  characters fit.
* `HitsAreGlyphs`: A search for special characters finds those of the text and no
  trail byte that looks like one; a text that ends in mid-character is an error
  wherever the rest of the character could be taken for ASCII, and a whole one is
  none.
* `CompositesExact`: In encodings without troublesome trail bytes,
  parse_composite() gets back the value that composite_into_buf() was given; the
  server and libpqxx each understand what the other renders of two or more fields
  without brackets; byte strings are not written past the estimated size, and a
  field that is escaped within the buffer never overwrites the part of itself that
  is still to be read.
* `ArraysExact`: Every index that array::at() admits finds the element that the
  program put there, and array_parser returns the structure and values of the
  container; array_into_buf() stays inside the size that size_buffer() asks for,
  unless its numbers are as wide as their type allows. Whatever the text, what
  array::parse() accepts is the text of the array it returns, and its number of
  elements is the product of its sizes.
* `ValuesExact`: A valid date that goes to the server and back stays the same day
  and is refused by neither side, within the buffer it asked for; and what is
  accepted as a date has the form that the server writes, although one of its
  characters may have been lost or become a digit or a dash. A placeholder's text
  is the dollar sign and the number of the parameter, with a zero behind it, for
  as many parameters as the protocol has, if the counter is unsigned.
* `NamesAreNew`: adorn_name() never gives the same name twice in one session,
  through moves as well: two cursors or savepoints would collide.


`MCSession` and `MCRows` use symmetry in the names of objects and rows,
which no action or property tells apart. They check no liveness.

**Bounds, and why they are enough.** `Goods` and `LINES`: three products on a
screen for two have a first, a middle and a last scroll position, and the basket
tab, whose window is a line shorter, differs from the list. `MaxQuantity` 2 tells
a line that loses a unit from one that goes; where it is 1 the property is not
about quantities. `WindowBound` cuts off how far `start` and `selection` drift
once the window has left the list: from then on reads are arbitrary choices
already, and a larger bound adds no new kind of step. One code belongs to no
product. In `Stock`, two tills suffice for a race on one code, three rows for a
duplicate beside another product and for a third copy, which `CopiesBounded`
forbids; `Id` bounds the rows and is permuted only where no liveness is checked.
In `BinarySearch`, four names give intervals of every parity and both directions.
In `Prompt` one field of each kind of conversion (text, its first character, `stol`,
`stod`, `stod` into an `int`) is enough, since fields are asked one after another. `Transaction`: four objects make a transaction with two nested
subtransactions and a successor; two faults are a failure and a failure while
handling it, and a third is another while `robusttransaction` asks. `Connection`: three slots for a move through a third object, two
handles for a move onto a live one. `Pipeline`: four queries give a batch with a
head, a failing middle and a rest to be replayed while another waits. `Cursor`:
three rows have both ends and an inside; strides reach over both. `CursorStream`:
three iterators give a list with an inner node. `LargeObjectStream`: a buffer of
two bytes overflows within an object of a few. `CopyText`: fields of two
characters over the alphabet of escapes hold every pair that could be misread.
`ResultAccess`: results of up to three rows and two columns with indices up to 3 have
an index inside, at and past each end. `LargeObject`: three objects move a descriptor through
a third, three opens reuse a number that was given back.
`SqlArray` garbled: nine characters hold a complete two-dimensional array of two
rows. `Range`: four values with points between give every order of four bounds.
`Placeholders` is run for all of `unsigned short`; larger counters only add
digits. `MaxSent`, `MaxOpens`, `MaxNames`, `MaxWrites`, `MaxPos` and `MaxFails` bound
how often something happens; each is large enough for it to happen again after it
has been dealt with.

**Fairness.** `Terminal` assumes weak fairness of the loop head and of
`print_receipt`, which run without waiting for anyone; nothing is assumed of the
user. `Stock` assumes strong fairness of a till's statements: the process issues
them without waiting for the user, and PostgreSQL queues those who wait for a row,
so none is overtaken for ever. `BinarySearch` assumes weak fairness of its loop,
`Menu` of the unwinding after the exit item, `ResultIterators` of the client's loop,
`CopyText` of the one process there is. `Transaction` assumes that
`robusttransaction`, which loops without the program, goes on asking.
`Notification` assumes that a program which is in no transaction again and again also
calls `get_notifs` then (strong fairness, since transactions come between), and that
calls and transactions end. `MCProgress` states these for each of its parts.

Runs switch off the check for deadlock where the modelled thing has an end: a search
that has returned, a value that has arrived or an exception that has ended the
trip, a bounded supply of handles, notifications, queries or COPYs that is used up.
All four runs of parts have such a part.

## What does not hold

While modelling, TLC found these properties violated by what the code does. Three
of them are runs of this project (`search_prefix`, `off_screen`, `checkout_kept`).
The others are kept as properties of the component modules, each with the line of
the repository that it states in its comment or below; the passing instances set
the constants so that the case does not occur, or leave the property out. To see a
violation again, instantiate the module with the constants named.

For that reason no passing run takes the following steps, which TLC takes under the
constants below: a seek in `LargeObjectStream`, a failing read in `LargeObject`, an
overrun in `Placeholders`, `LISTEN` of a receiver inside a block in `Notification`.

* `Stock.CodesUnique` (`UniqueCode <- FALSE`, two terminals),
  `src/src/database_functions.cpp:55`. update_stock counts the rows with the code
  and inserts when there are none, at READ COMMITTED and without a lock: two
  terminals that add the same code between each other's count and commit both
  insert it, and from then on product_exists throws when either looks it up (a
  count of 2 is no bool). src/src/database_functions.cpp:70 says "If database
  didn't find another product with same code, then add product to database"; the
  repository has no schema whose unique constraint would stop the second insert.
* `Prompt.RetryKeepsRunning` (any constants), `src/src/main.cpp:147`. An answer
  with a comma is refused with the message "can't contain commas! Try again!"
  (src/src/h_files/text.h:14) and add_modify_criteria calls itself; when the user
  leaves that second prompt with ESC it returns nullopt, and auto_output.value()
  throws bad_optional_access, which nothing catches: the process ends with the
  basket in it.
* `Menu.PrinterHonoured` (any constants), `src/src/main.cpp:587`. print_receipt
  opens "/dev/usb/lp3" whatever the settings say; src/src/h_files/text.h:85 offers
  the setting "Printer file location", which the menu stores in
  printer_device_file (src/src/menus.cpp:131) and nothing reads.
* `Transaction.CommitIsDefinite` (`Kinds <- {"work"}`, `Careful <- FALSE`, one
  fault), `src/libpqxx/src/transaction.cxx:66`. do_commit takes any result of
  COMMIT for success. The server answers COMMIT of a block that has failed with a
  plain result whose tag is ROLLBACK, so commit() after a statement that failed
  and was caught returns and the object's status is committed, while everything
  was rolled back. src/libpqxx/include/pqxx/transaction_base.hxx:162 says of
  commit(): "Make the effects of this transaction definite."
* `Transaction.CommitIsDefinite` (`Kinds <- {"robust"}`, one fault),
  `src/libpqxx/src/robusttransaction.cxx:207`. When the question after a failed
  COMMIT is answered with aborted, do_commit calls do_abort() and returns;
  commit() then sets the status to committed and returns normally. It takes a
  COMMIT that fails with SQLSTATE class 08 over a connection that is still usable.
  src/libpqxx/include/pqxx/transaction_base.hxx:162 says of commit(): "Make the
  effects of this transaction definite."
* `Transaction.NoBlockLeft` (`Kinds <- {"work"}`, `Careful <- FALSE`, one fault),
  `src/libpqxx/src/transaction_base.cxx:479`. abort() calls do_abort(), whose
  direct_exec() first throws the error that a stream left pending; abort()
  swallows that exception and closes the object, and ROLLBACK was never sent: the
  block stays open on the connection.
  src/libpqxx/include/pqxx/transaction_base.hxx:92 says: "Once you're done with
  your transaction, you can start a new one using the same connection."
* `Transaction.OneMainTransaction` (`Kinds <- {"robust"}`, two objects),
  `src/libpqxx/src/robusttransaction.cxx:115`. basic_robusttransaction::init sends
  BEGIN without register_transaction(), so a second main transaction is accepted
  on the connection. src/libpqxx/include/pqxx/transaction_base.hxx:93 says: "there
  can be only one main transaction going on on a connection at any given time"
* `Transaction.ParentWaits` (`Kinds <- {"work", "sub"}`, `Careful <- FALSE`),
  `src/libpqxx/src/subtransaction.cxx:26`. The constructor of subtransaction
  stores its transaction_focus base but never registers it, so the parent's exec()
  finds no focus and executes. src/libpqxx/include/pqxx/subtransaction.hxx:71
  says: "While the subtransaction is "live," you cannot execute queries or open
  streams etc. on its parent transaction."
* `Transactor.AtMostOnce` (`SqlStates` with the empty state `NoState`),
  `src/libpqxx/src/result.cxx:199`. An empty SQLSTATE, which the comment at
  src/libpqxx/src/result.cxx:193 ascribes to a client-side socket timeout where
  "the connection was just fine", becomes broken_connection. During COMMIT the
  connection is still open, so do_commit does not turn it into in_doubt_error, and
  perform() runs the callback again although the first COMMIT may have been done.
  src/libpqxx/include/pqxx/transactor.hxx:57 says the retries stop "when there's
  an error that leaves the database in an unknown state".
* `Connection.NoticeTargetAlive` (`Rules <- {"errorhandler"}`),
  `src/libpqxx/src/connection.cxx:110`. The move constructor moves
  m_notice_waiters and the handlers out of the source before rhs.check_movable()
  throws; the new object's members are destroyed, and libpq's notice processor of
  the source's handle points to freed memory. src/libpqxx/src/connection.cxx:171
  says: "Our notice processor gets a pointer to our notice_waiters.  We can't just
  pass "this" to it, because it may get called at a time when the pqxx::connection
  has already been destroyed"
* `Connection.NoWildAccess` (`Rules <- {"transaction"}`),
  `src/libpqxx/src/connection.cxx:319`. check_movable() looks at the transaction
  and the receivers and not at the error handlers. After the move their m_home
  points to the moved-from connection, whose notice_waiters are null, and close()
  or the handler's destructor goes through it.
  src/libpqxx/include/pqxx/connection.hxx:358 says: "Moving a connection is not
  allowed if it has an open transaction, or has error handlers or is listening for
  notifications."
* `Notification.CancelsOnlyThat` (`Careful <- FALSE`, two handler channels, no
  other session), `src/libpqxx/src/connection.cxx:535`. listen() with an empty
  handler takes lower_bound's answer without comparing the channel, and erases the
  handler of the next channel in the map.
  src/libpqxx/include/pqxx/connection.hxx:790 says: "You can do that as many times
  as you like, even when you never started listening to that channel in the first
  place."
* `Notification.SubscribersListen` (`Throws <- TRUE`, one handler channel),
  `src/libpqxx/src/connection.cxx:538`. UNLISTEN is carried out by exec(), which
  calls get_notifs(); when a handler throws there, the handler of the channel is
  not erased, and a later listen() only overwrites it without LISTEN.
  src/libpqxx/include/pqxx/connection.hxx:1439 says of the handlers: "Each
  corresponds to a `LISTEN` we have executed."
* `Notification.SubscribersListen` (a receiver and a handler on one channel),
  `src/libpqxx/src/connection.cxx:570`. remove_receiver() sends UNLISTEN although
  listen() has a handler on the channel, and listen() with an empty handler does
  although receivers are registered: the remaining subscriber hears nothing.
  src/libpqxx/include/pqxx/connection.hxx:1439 says of the handlers: "Each
  corresponds to a `LISTEN` we have executed."
* `Notification.SubscribersListen` (receivers, `Kinds <- {"work"}`),
  `src/libpqxx/src/connection.cxx:470`. add_receiver() does not look for an open
  transaction: its LISTEN is undone when the transaction is rolled back, the
  receiver stays. src/libpqxx/include/pqxx/connection.hxx:668 says: "To avoid
  complicating its internal bookkeeping, libpqxx only lets you start listening
  while no transaction is open."
* `Notification.NotInTransaction` (`Kinds <- {"robust"}`),
  `src/libpqxx/src/connection.cxx:694`. get_notifs() recognises a transaction by
  m_trans, which a robusttransaction never sets: a notification that came in
  before BEGIN is delivered by the exec() of BEGIN, inside the block.
  src/libpqxx/include/pqxx/notification.hxx:42 says: "Notifications never arrive
  inside a transaction, not even in a nontransaction."
* `Notification.NotificationsTaken` (`SpecPolling`, `Kinds` with
  "nontransaction"), `src/libpqxx/src/connection.cxx:694`. A nontransaction is
  registered too, so get_notifs() returns 0 inside it.
  src/libpqxx/include/pqxx/connection.hxx:671 says: "No notifications will come in
  while you're in a transaction... again unless it's a @ref nontransaction of
  course, because that does not open a transaction on the backend."
* `Pipeline.RetrievedIsDone` (`Transactional <- FALSE`, `Retains <- {2}`),
  `src/libpqxx/src/pipeline.cxx:217`. issue() sends several queries as one string,
  which the server runs as one transaction when no block is open: in a
  nontransaction the failure of the last query rolls back the earlier ones, whose
  results are retrieved as successes.
  src/libpqxx/include/pqxx/nontransaction.hxx:49 says: "Any query executed in a
  nontransaction is committed immediately"
* `Pipeline.FlushClears` (`Retains <- {2}`), `src/libpqxx/src/pipeline.cxx:111`.
  flush() empties the pipeline and never assigns m_error, so every later query
  fails. src/libpqxx/include/pqxx/pipeline.hxx:101 says: "Any error state (unless
  caused by an internal error) will also be cleared."
* `Pipeline.RangeExact` (`Transient <- TRUE`), `src/libpqxx/src/pipeline.cxx:352`.
  obtain_dummy() resets m_issuedrange.second to its first and lets the replay
  advance first only; when every query of the batch succeeds the second time,
  second stays behind first, and the caller's obtain_result() takes that for
  pending queries and goes past the end of m_queries.
  src/libpqxx/src/pipeline.cxx:322 says: "replay them one by one until we find the
  exact query that"
* `Cursor.RetrieveExact` (`BeginAtEnd <- TRUE`), `src/libpqxx/src/cursor.cxx:59`.
  For begin_pos == size() and a smaller end_pos the move stops at the end, one
  short of where it was to go, and the fetch of end_pos - begin_pos rows goes one
  too far: retrieve(3, 1) of three rows returns rows 2 and 1.
  src/libpqxx/include/pqxx/cursor.hxx:236 says: "Retrieve rows from begin_pos
  (inclusive) to end_pos (exclusive)"
* `Cursor.OwnedClosed` (`OwnsHeld <- TRUE`), `src/libpqxx/src/sql_cursor.cxx:179`.
  The destructor sends CLOSE in whatever transaction is open; in a failed one it
  is refused and the error swallowed, and a WITH HOLD cursor of an earlier
  transaction outlives the rollback. src/libpqxx/include/pqxx/cursor.hxx:89 says
  of owned: "Destroy SQL cursor when cursor object is closed at end of
  transaction"
* `Cursor.LooseSurvives` (`LooseUnheld <- TRUE`),
  `src/libpqxx/src/sql_cursor.cxx:148`. The ownership policy has no part in the
  DECLARE: without hold, the cursor goes when its transaction ends.
  src/libpqxx/include/pqxx/cursor.hxx:79 says: "If a cursor is created with
  "loose" ownership policy, the object representing the underlying SQL cursor will
  not take the latter with it when its own lifetime ends, nor will its originating
  transaction."
* `CursorStream.ShowsBlock` (`ReadFirst <- TRUE`),
  `src/libpqxx/src/cursor.cxx:125`. get() and ignore() advance m_realpos and not
  m_reqpos, from which a new iterator takes its position: it lies before what was
  read, service_iterators() returns at once, and the iterator equals the end
  iterator. src/libpqxx/include/pqxx/cursor.hxx:441 forbids reading the stream
  only "between the time the first icursor_iterator on it is created and the time
  its last icursor_iterator is destroyed"
* `LargeObject.OwnDescriptor` (`Outlives <- TRUE`),
  `src/libpqxx/src/blob.cxx:140`. A blob keeps its descriptor number when the
  transaction ends, the server numbers the descriptors of each transaction from 0,
  and close(), the destructor and assignment send lo_close with the old number:
  they close what another blob opened. src/libpqxx/include/pqxx/blob.hxx:244 says:
  "This does not delete the blob from the database; it only terminates your local
  object for accessing the blob."
* `LargeObject.NoLeftovers` (`HugeAnyId <- TRUE`), `src/libpqxx/src/blob.cxx:257`.
  The cleanup of from_buf() removes id, the caller's argument, not actual_id: with
  the default 0 remove() throws at once, and an object that raw_write() refused to
  fill stays, empty and unknown. The message at src/libpqxx/src/blob.cxx:264 says
  what the block is for: "Could not clean up partially created large object"
* `LargeObject.BufferExact` (`ReadFails <- TRUE`), `src/libpqxx/src/blob.cxx:309`.
  append_to_buf() casts the -1 of a failed lo_read to std::size_t and resizes the
  buffer to org_size + chunk, which wraps to one byte less than before; the caller
  is told that 2^64 - 1 bytes were read. src/libpqxx/include/pqxx/blob.hxx:229
  says: "Read part of the binary large object with `id`, and append it to `buf`."
* `LargeObjectStream.WrittenExact` (`Modes <- {"out"}`, `Seeks <- TRUE`),
  `src/libpqxx/include/pqxx/largeobject.hxx:428`. seekoff() and seekpos() move the
  descriptor and leave the put area, which is later written at the new position.
  src/libpqxx/include/pqxx/largeobject.hxx:597 says: "This worked like any other
  ostream, but to write data to a large object."
* `LargeObjectStream.ReadExact` (`Modes <- {"in"}`, `Seeks <- TRUE`),
  `src/libpqxx/include/pqxx/largeobject.hxx:428`. seekoff() and seekpos() leave
  the get area, from which the next reads are served.
  src/libpqxx/include/pqxx/largeobject.hxx:538 says: "This class worked like any
  other istream, but to read data from a large object."
* `CopyText.LineIsRow` (`MaxFails <- 1`),
  `src/libpqxx/include/pqxx/stream_to.hxx:413`. fill_buffer() appends to m_buffer,
  which only write_buffer() clears. When the conversion of a later field throws,
  the fields before it stay, and the next row is sent behind them: the server
  finds too many fields and the whole COPY fails.
  src/libpqxx/include/pqxx/stream_to.hxx:198 says: "Each item becomes a field in
  the row, in the same order as the columns you specified when creating the
  stream."
* `CopyStream.CommitMeansStored` (`Careful <- FALSE`),
  `src/libpqxx/include/pqxx/internal/stream_query.hxx:309`. close(), which the
  destructor calls when a loop over stream() is left early, does not end the COPY.
  PQexec("COMMIT") then discards what is left of it, an error of the query
  included, the server answers ROLLBACK, and commit() takes that for success: rows
  that were written before are gone and no exception was thrown.
  src/libpqxx/include/pqxx/transaction_base.hxx:162 says of commit(): "Make the
  effects of this transaction definite."
* `ResultSet.DataKeepsConnection` (two connections),
  `src/libpqxx/src/result.cxx:125`. swap() exchanges m_data and m_query and leaves
  m_encoding and m_notice_waiters. After exchanging results of two connections
  each is read in the encoding of the other, and keeps the wrong notice handlers
  alive. src/libpqxx/include/pqxx/result.hxx:200 says: "Exchange two `result`
  values in an exception-safe manner."
* `ResultSet.RefsStayValid` (one reference),
  `src/libpqxx/include/pqxx/row.hxx:374`. A row_ref and a field_ref are a pointer
  to a result object: once that object is destroyed they dangle, although a copy
  of the result still holds the data. src/libpqxx/include/pqxx/result.hxx:135
  says: "efficient code will use all kinds of direct references to that data: @ref
  row_ref, @ref field_ref, `std::string_vew`, @ref zview, raw C-style string
  pointers.  Those all stay valid even when you copy your `result` and destroy the
  original"
* `ResultSet.FieldRefsExact` (two references),
  `src/libpqxx/include/pqxx/field.hxx:87`. operator== compares home() with home(),
  which compares the results by their data, so field_refs into two copies of a
  result are equal. src/libpqxx/include/pqxx/field.hxx:82 says: "if you copy a
  @ref result, even though the two copies refer to the exact same underlying data
  structure, a `field_ref` in the one will never be equal to a `field_ref` in the
  other."
* `ResultIterators.SubscriptIsStep` (`Over <- "rows"`),
  `src/libpqxx/include/pqxx/internal/result_iterator.hxx:211`.
  const_reverse_result_iterator takes operator[] from the forward iterator: rit[n]
  is the row n places after the current one and not *(rit + n). The reverse
  iterator over fields does it right (row.hxx:950).
  src/libpqxx/include/pqxx/result.hxx:77 says: "This behaves as a container (as
  defined by the C++ standard library) and provides random access const iterators"
* `ResultAccess.AccessInside` (`Indices` from -1), `src/libpqxx/src/row.cxx:88`.
  row::at() only compares the number with the number of columns, so -1 passes and
  the field_ref that it returns reads outside the row; row_ref::at() checks for
  it. src/libpqxx/include/pqxx/row.hxx:542 says: "Address a field by number, but
  check that the number is in range."
* `ResultAccess.Query01Columns` (any constants),
  `src/libpqxx/include/pqxx/transaction_base.hxx:523`. query01() reads the row, if
  there is one, and only that checks the columns: a query that gives no rows may
  have any number of them. src/libpqxx/include/pqxx/transaction_base.hxx:518 says:
  "@throw usage_error If the number of columns in the result does not match the
  number of fields in the tuple."
* `GlyphScan.AssertedGroup` (`Glyphs` of UTF8, UHC and BIG5),
  `src/libpqxx/src/encodings.cxx:130`. enc_group() puts UHC in the ASCII-safe
  group and throws for ISO_8859_1 to ISO_8859_4. src/libpqxx/src/encodings.cxx:207
  says: "static_assert(enc_group("UHC", sl::current()) ==
  encoding_group::two_tier);" and 168-175 that those four are ascii_safe: a build
  with DEBUG does not compile.
* `Composite.NoOverrun` (strings next to integers in `Values`),
  `src/libpqxx/include/pqxx/internal/array-composite.hxx:367`. The estimate takes
  a byte for a terminating zero off size_buffer(), but that of std::string and
  std::string_view counts none
  (src/libpqxx/include/pqxx/internal/conversions.hxx:608): a field in which every
  byte is escaped makes composite_into_buf() write past the estimate.
  src/libpqxx/include/pqxx/composite.hxx:77 says: "Returns a conservative
  estimate."
* `Composite.Understood` (`Values` of one field),
  `src/libpqxx/include/pqxx/composite.hxx:136`. The trailing comma is taken back
  only if there is more than one field, so a composite of one field reaches the
  server as two fields, and is refused. src/libpqxx/include/pqxx/composite.hxx:101
  says: "Render a series of values as a single composite SQL value."
* `Composite.RoundTrip` (null strings in `Values`),
  `src/libpqxx/include/pqxx/internal/array-composite.hxx:390`. A field that is
  null is written as a pair of quotes, because to_buf() gives an empty text for it
  and nothing looks at is_null(): a null string is stored as an empty string.
  src/libpqxx/include/pqxx/composite.hxx:28 says: "Fields in composite types can
  be null."
* `Composite.Understood` (`Enc <- "sjis"`, characters with trail byte 5C),
  `src/libpqxx/include/pqxx/internal/array-composite.hxx:395`.
  write_composite_field() escapes byte by byte, whatever the encoding: the trail
  byte 5C of a character in Shift-JIS or Big5 gets a backslash before it, which
  breaks the character. (array_into_buf(), line 462, searches by character.)
  src/libpqxx/include/pqxx/composite.hxx:101 says: "Render a series of values as a
  single composite SQL value."
* `Composite.ParsesAll` (strings with a bracket in `Values`),
  `src/libpqxx/include/pqxx/internal/array-composite.hxx:263`. A closing bracket
  ends an unquoted field, but the server does not quote a field on account of one.
  src/libpqxx/include/pqxx/composite.hxx:24 says: "The function is meant to handle
  any value string that the backend can produce, but not necessarily every valid
  alternative spelling."
* `SqlArray.NoOverrun` (lists of integers of the greatest width),
  `src/libpqxx/include/pqxx/internal/conversions.hxx:909`. size_buffer() of an
  integer (line 226) counts sign and digits and no terminating zero, so a list of
  integers has no room for its separators; three of the greatest width end in an
  exception or past the end of the buffer.
  src/libpqxx/include/pqxx/internal/conversions.hxx:901 says: "Budget for each
  element includes a terminating zero. We won't actually be wanting those, but
  don't subtract that one byte: we want room for a separator instead."
* `Range.Renders` (a value of the greatest width on both sides),
  `src/libpqxx/include/pqxx/range.hxx:544`. The size of each bound is its
  size_buffer() less one for a terminating zero, but that of an integer counts
  none (src/libpqxx/include/pqxx/internal/conversions.hxx:226), and line 458 wants
  two bytes left: a range between the widest values of its type, such as
  -2147483648 for int, ends in conversion_overrun.
  src/libpqxx/include/pqxx/strconv.hxx:250 says: "Estimate how much buffer space
  is needed to represent value."
* `Dates.OnlyDatesAccepted` (`Misprint <- {" "}`),
  `src/libpqxx/src/strconv.cxx:176`. from_string<int>() skips leading blanks, so a
  year may have some in place of digits. src/libpqxx/include/pqxx/strconv.hxx:496
  says: "Whitespace is not stripped away."
* `Dates.SameDay` (server dates beyond the year 32767),
  `src/libpqxx/src/time.cxx:215`. The year is parsed as an int and given to
  std::chrono::year, which keeps 16 bits; date.ok() then finds nothing wrong: the
  server's 67560-01-01 is read as 2024-01-01.
  src/libpqxx/include/pqxx/strconv.hxx:489 says: "Overflows (e.g. converting
  "9999999999" to a 16-bit C++ type) are also treated as errors."
* `Dates.SameDay` (dates with a month beyond 12 on the C++ side),
  `src/libpqxx/src/time.cxx:102`. to_buf() does not look at ok(), and
  month_into_buf() writes a 1 for any month from 10 on: month 20 is stored as
  October. src/libpqxx/include/pqxx/time.hxx:39 says: "Invalid dates will not
  convert."
* `Placeholders.AllSupported` (`Top <- 32767`, `Signed <- TRUE`),
  `src/libpqxx/include/pqxx/params.hxx:300`. next() offers into_buf() digits10 + 1
  bytes, and a signed type asks for one more, for its sign: placeholders<int>
  throws conversion_overrun at its first carry, $10.
  src/libpqxx/include/pqxx/params.hxx:254 says: "Maximum number of parameters we
  support.", and gives the type's maximum.

## Proofs

Eight modules hold theorems. Each `EXTENDS` the module it is about; a theorem
holds for every value of the constants that the assumption of that module and the
hypotheses named here allow. Assumptions on constants are evaluated by the runs.
`SessionProofs` and `TransactionProofs` extend `MCSession`, all of whose parts are
parameterised by constants of `MCSession` itself, so what they prove is the
property that the run `sessions` checks, of the same definitions, for every value
of those constants. Of the properties proved in the other modules, those of
`Terminal`, `BinarySearch`, `Transaction`, `Connection`, `ResultSet` and
`IsCatalogue` are checked by the runs as they are proved; `CopiesBounded` and
`CodesUnique` of `Stock` and `SubscribersListen` and `NotInTransaction` of
`Notification` are checked under `part = ...`, and `SessionProofs` carries the
theorems over to that form.

**`TerminalProofs`** (with or without other tills):

* `TerminalTypeOK`: `Spec => []TypeOK`
* `TerminalBasketOK`: `Spec => []BasketOK`

The inductive invariant is `TypeOK /\ BasketOK`. Neither conjunct is inductive
without the other: that a removed unit leaves a natural number needs every line
to have one, and indexing the basket needs its type. The proof first shows what
the basket operators preserve (`AddKeepsBasket`, `RemoveKeepsBasket`,
`DropKeepsBasket`), then splits the invariant into the parts that handlers leave
alone (screen, control, sale), and takes the actions by what they touch: loop
head, plain handlers, window, ringing up, removal, printing, environment. It uses
`TerminalAssumption` only: products are rows, the table is finite, the screen has
five lines, the bounds are natural numbers.

The refinement and the properties that need more go on from there:

* `TerminalIsRegister`: `Spec => IsRegister`, the refinement. It needs to know where
  a receipt can be out and that it then lists the basket as it still is (`SlipOK`);
  every action is shown to be a step of `Register` or to leave what it sees alone.
* `TerminalRemovesHighlighted`: `Spec => RemovesHighlighted`. What `'R'` reads is
  the line that was drawn because the length of the list is still that of the
  window that was filled from it (`LineOK`), although other tills act between the
  four steps of the loop head.
* `TerminalReceiptAdds`: `OtherTerminals = FALSE` implies `Spec => []ReceiptAdds`.
  From the drawing of the screen to the printing, `total` is the total of the basket
  on the table as it is (`TotalOK`, with one row per code). With other tills the
  property is false and is not claimed: the total is that of the last drawing.

**`StockProofs`**, for any number of tills, codes and rows:

* `StockTypeOK`: `Spec => []TypeOK`
* `StockIsCatalogue`: `UniqueCode = TRUE` implies `Spec => IsCatalogue`, which is
  what licenses the environment of `Terminal`
* `StockCopiesBounded`: `Spec => []CopiesBounded`, with or without the constraint
* `StockCodesUnique`: `UniqueCode = TRUE \/ Cardinality(Terminals) = 1` implies
  `Spec => []CodesUnique`

`Writing` says who holds which row: locks belong to tills in the middle of a
transaction, the rows a till has locked or waits for have the one code it edits, and
if it has inserted a row that is all it wrote. So a commit, which publishes
everything a till has locked, changes one code. With the constraint, `Distinct`
extends uniqueness to rows not yet committed. Without it, `Shares` is the counting
argument: the rows of a code and the tills about to add one never outnumber the
tills, because a till gets to its `INSERT` only after a look-up that found none.

The first attempt at `Writing` failed and showed that the model was wrong: a row
identity freed by a `DELETE` could be used again while another till waited for the
old row, whose `UPDATE` would then have hit the new one. PostgreSQL never does that.
`Ends` now takes erased rows from the targets of those who wait. The case takes three
codes, and a third identity for `HandlersEnd`, since a full table would leave an
`INSERT` waiting; that is too large for a run with liveness, so `stock_shared` has two
of each and the case rests on the proof.

**`ConnectionProofs`**, for any number of connection objects, `PGconn`s and error
handlers:

* `ConnectionOwnedOnce`: `Spec => []OwnedOnce`, whatever rules the program breaks
* `ConnectionNamesAreNew`: `Spec => NamesAreNew`, likewise
* `ConnectionHandlesOwned`: in a program that moves no connection with a transaction
  or error handlers (`Ruled`), `Spec => []HandlesOwned`. Without the rule it is false
  (see above).

`Owners` links the pointers of the connection objects to the life of the handles in
both directions; a failed connect and a move onto a live connection are where one
direction alone is lost. `Homes` does the same for `m_home` of an error handler and
the list it is on, and for the waiters of a connection that has closed.

**`TransactionProofs`**, for any number of objects, faults and depth of nesting:

* `TransactionRegistrationExact`: `Spec => []RegistrationExact`, in every program,
  `robusttransaction` included
* `TransactionOutcomes`: in a program that keeps the documented rules and does not
  use `robusttransaction` (`Ruled`), `Spec => []CommitIsDefinite`
* `TransactionNoBlockLeft`: in such a program `Spec => []NoBlockLeft`

The invariant `Kept` ties the client's objects to the server's block. The active
transactions lie on the block as on a stack, the outermost at the bottom and each
subtransaction right above its parent (`Stack`); what a level holds is not settled,
and that of an aborted transaction is held only while the block has failed and above
every active level, so it goes with the rollback that must come first (`Holdings`);
what is settled agrees with the status of its object (`Settled`). None of the three
properties is inductive without the stack: a `COMMIT` publishes the whole block, and
that nothing aborted is in it is a fact about its order. For `robusttransaction` and
for programs that commit a parent under an open subtransaction the outcomes are
false (see above).

Large objects exist within transactions only, and their theorem is in this module too:

* `TransactionLargeObjectsExact`: `RunSpec => []LargeObjectsExact`, of the parts
  `large_object` and `large_object_stream` of `MCSession`. `Paired`: in a transaction that has not
  failed, open descriptors and the objects that hold a number are one to one. That
  the server has a free number for the next is the pigeonhole argument of
  `FreeIsFree`. For the streams, `ReaderAt` says that the get area is the stretch of
  the object before the descriptor, `WriterAt` that the file is the object with the
  put area written at the descriptor; `OverwriteOneMore` shows that one byte after
  another is both at once, however the buffer cuts them. Seeking is left out: with
  it the property is false (see above).

**`ResultSetProofs`**, for any number of objects, results and connections:

* `ResultSetResultsOwned`: `Spec => []ResultsOwned`. The invariant says that what an
  object points to is what it stands for (`Meaning`) and that the data freed are
  those that arrived and have no holder (`Released`).

**`NotificationProofs`**, for any channels, receivers and number of notifications:

* `NotificationSubscribersListen`: if handlers do not throw, handlers and receivers
  keep to channels of their own, receivers stay out of blocks and there is no
  `robusttransaction` (`Ruled`), `Spec => [](SubscribersListen /\ NotInTransaction)`.
  The open call that cancels a handler is the one exception to "every subscriber's
  channel is listened to", and only for its own channel (`Listening`). What the
  conditions leave out is under "What does not hold".

**`BinarySearchProofs`**, for every list of strings of any length:

* `SearchResultInRange`: the index returned is an index of a non-empty list
* `SearchFindsComparableNames`: in an ascending list of names that
  `compare_string` tells apart, a name that is present is found

The inductive invariant adds that the interval stays within the list, that `mid`
is in range after the first probe, and that a word that is present is still
inside the interval (`HalvingKeeps` shows the last for both halves).

**`SessionProofs`**, for every size of result, number of objects, rows, bytes,
attempts and tills. (Cursors, COPY streams, results, ranges, menus, retries,
subscriptions.) Each theorem is `RunSpec => []P`; a section shows that the part's
steps keep an invariant and that a step of the run in that part is one of them.

* `SessionOneOutcome`, if every error that arrives over a live connection has an
  SQLSTATE (without one, `perform()` takes the error for a broken connection and may
  commit twice; see above). The lemmas walk the class hierarchy of `except.hxx`: it is
  four deep, so what a `catch` clause catches is decided by four look-ups (`FourDeep`),
  every class that an SQLSTATE leads to ends the block, and `in_doubt_error` is never
  retried (`DoubtPassedOn`). The invariant is that nothing is committed while
  another run of the callback is possible.
* `SessionCursorsExact`, no hypothesis. `PositionExact` is not inductive: `adjust()`
  infers from a short count that an end was reached, and that needs to know on which
  side of the rows the cursor was. `Mirrors` says what `at_end` means on the server,
  that the end position, once known, is the number of rows plus one, and that only
  an adopted cursor that has not hit the start has no position. `AdjustIs` then gives
  `adjust()` in closed form, `StepMirrors` that a step over either end keeps the mirror, and
  `RetrieveIs` that a move and a fetch give the rows between the arguments in both
  directions.
* `SessionCopyStreamsExact`, no hypothesis. `Focused`: the focus is the one registered
  stream. `Attended`: a COPY has its stream, or was abandoned by a constructor that
  threw. `Blamed`: a failed block has an exception that was seen or that `commit()` will
  throw. `Books`: as long as there was neither, the table and the open COPY together
  hold what was written. `Reading`: what was read and what is left are the table. A
  late error (the last row's, which arrives when the COPY ends) is what needs all
  five.
* `SessionAccessInside`, for indices and arities from 0; a negative index passes one
  of the checks (see above).
* `SessionIteratorsExact`, no hypothesis.
* `SessionRangesExact`, over values that have points between, below and above them
  (`Dense`) and whose texts leave room for the terminating zero. Without the first,
  `empty()` is false of an exclusive range between two neighbours, which has no
  points. The proof goes by the kinds of the four bounds:
  `IntersectionTells` for the points of an intersection, `EmptyTells` and `SameTells` for
  what the predicates see, `TextTells` for the way through the text.
* `SessionLabelsAreThePath`, no hypothesis, to any depth of nested menus. Each call has
  its own copy of the labels, so the invariant is about every frame of the
  stack: its labels are the items chosen in the frames below it, and its own if
  a submenu is open on it (`PathTo`).
* `SessionSubscribersListen`, if no receiver's channel is one that has a handler, and
  `SessionCopiesBounded`, no hypothesis: these instantiate `NotificationProofs` and
  `StockProofs`.

The proofs found one fault of form in the models: some `CASE` expressions had guards
that overlap, and `CASE` leaves open which arm is taken. TLC takes the first, as the
`if` chains of the code do; a proof may not. The guards are exclusive now.

Only model-checked:

* Liveness (`Responds`, `Returns`, `HandlersEnd` and `MCProgress`'s temporal
  properties), which the prover does not do.
* `PipelineExact`: `Pipeline` is written with RECURSIVE operators.
* `CursorStreamsExact`: that each iterator shows its block after the list has been
  served in order is an induction over the list.
* What writers and parsers compute for texts of every length (`CopyRoundTrip`,
  `AnswersKept`, `HitsAreGlyphs`, `CompositesExact`, `ArraysExact`, `ValuesExact`):
  induction over sequences, out of the prover's reach.

## Not modelled

* Rounding, layout and the unchecked `write()` of the receipt: a receipt is what
  was handed to `write()`.
* Screen output: it changes no state. The queries of `draw_product_list` are part
  of `Terminal!Draw`.
* Dead code: `bubble_sort` (never called; its loop cannot end), `get_tax_rates`
  (called in commented-out code only), `drawing_functions.cpp` (not in the build),
  the menu items of kinds that no reachable menu has, `dropdown`.
* Of the library: conversions of floats, Booleans, byte strings and enums, which are
  functions of the standard library behind a format; the storage of parameters;
  settings, tracing and password encryption, which pass through to libpq;
  isolation levels, which change a text only; `wait.cxx` and `version.cxx`;
  `lostream`; documentation, tests and build files.
* Threads: libpqxx leaves them to its user, and the program has one.

## Open

1. `CursorStream` without the fold over its list, one action per iterator served, so
   that `CursorStreamsExact` has an inductive invariant.
2. `Pipeline` with its chain of private functions as functions on records, for
   `RangeExact`.
