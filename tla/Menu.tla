-------------------------------- MODULE Menu --------------------------------
(***************************************************************************)
(* The settings menu: run_menu() calls itself for a submenu, with a copy   *)
(* of the labels on the way there.  The C++ stack of those calls is a      *)
(* sequence of frames.  get_string() enters through its result (module     *)
(* Prompt has its keys): nothing, a text, or for an integer what stoi      *)
(* makes of it.                                                            *)
(***************************************************************************)
EXTENDS Integers, Sequences, SequencesExt

CONSTANTS
    Texts,      \* texts the user may type
    Numbers,    \* integers the user may type
    Default     \* the text of printer_device_file as the program starts

SettingsAssumption ==
    /\ Default \in Texts
    /\ Numbers \subseteq Nat

NoKey == "NUL"          \* barcode_prefix after an empty answer
NoDevice == "none"      \* nothing was printed yet

VARIABLES
    stack,      \* the open calls of run_menu, innermost last
    at,         \* "closed", "menu", "input" or "dead"
    texts,      \* what the string items point at
    numbers,    \* what the int items point at
    prefix,     \* barcode_prefix
    opened      \* the device print_receipt opened last

vars == <<stack, at, texts, numbers, prefix, opened>>
Settings == <<texts, numbers, prefix>>

-----------------------------------------------------------------------------
(* The menus as they are laid out (a label is one word here).              *)

Item(label, kind, of) == [label |-> label, kind |-> kind, of |-> of]

Options == [
    main_menu |->
        <<Item("Products", "exit", ""),
          Item("Settings", "submenu", "settings")>>,
    settings |->
        <<Item("Shop", "submenu", "shop_settings"),
          Item("Peripherals", "submenu", "peripherals"),
          Item("Colorschem", "submenu", "submenu"),
          Item("Users", "submenu", "submenu")>>,
    shop_settings |->
        <<Item("Name", "string", "name"),
          Item("Code", "string", "code"),
          Item("Addres", "string", "addres")>>,
    peripherals |->
        <<Item("Receipt_printer", "submenu", "printer_settings"),
          Item("Barcode_scanner", "submenu", "barcode_scanner")>>,
    printer_settings |->
        <<Item("Printer_file_location", "string", "printer_device_file"),
          Item("Characters_per_line", "int", "max_name_length"),
          Item("Nr_of_newlines", "int", "nr_of_newlines")>>,
    barcode_scanner |->
        <<Item("Barcode_prefix", "funct", "barcode_prefix")>>,
    submenu |->
        <<Item("exit", "exit", "")>>]

Strings == {"name", "code", "addres", "printer_device_file"}
Ints == {"max_name_length", "nr_of_newlines"}

\* A fresh call of run_menu.
Call(menu, labels) == [menu |-> menu, selection |-> 1, labels |-> labels, exit |-> FALSE]

Top == stack[Len(stack)]
Chosen(frame) == Options[frame.menu][frame.selection]
WithTop(frame) == [stack EXCEPT ![Len(stack)] = frame]

Init ==
    /\ stack = <<>>
    /\ at = "closed"
    /\ texts = [s \in Strings |-> Default]
    /\ numbers \in [Ints -> Numbers \ {0}]
    /\ prefix = Default
    /\ opened = NoDevice

\* The Escape key of main(): run_menu(main_menu) with one empty label.
start_main_menu ==
    /\ at = "closed"
    /\ stack' = <<Call("main_menu", <<"">>)>>
    /\ at' = "menu"
    /\ UNCHANGED <<Settings, opened>>

\* print_receipt, between two visits of the menu.
print_receipt ==
    /\ at = "closed"
    /\ opened' = Default
    /\ UNCHANGED <<stack, at, Settings>>

-----------------------------------------------------------------------------
(* selection_list.                                                         *)

Listing == at = "menu" /\ stack # <<>> /\ ~Top.exit

Move(step) ==
    /\ Listing
    /\ Top.selection + step \in DOMAIN Options[Top.menu]
    /\ stack' = WithTop([Top EXCEPT !.selection = @ + step])
    /\ UNCHANGED <<at, Settings, opened>>

\* A call returns without the line that drops the label.
Return_KeepsLabel(exit) ==
    LET callers == Front(stack)
    IN  IF callers = <<>>
        THEN stack' = <<>> /\ at' = "closed"
        ELSE /\ stack' = [callers EXCEPT ![Len(callers)].exit = exit]
             /\ at' = "menu"

\* A call returns without the value of the recursive call.
Return_DropsExit(exit) ==
    LET callers == Front(stack)
    IN  IF callers = <<>>
        THEN stack' = <<>> /\ at' = "closed"
        ELSE /\ stack' = [callers EXCEPT ![Len(callers)].labels = Front(@)]
             /\ at' = "menu"

\* A call of run_menu returns; its caller drops the label it had added.
Return(exit) ==
    LET callers == Front(stack)
        caller == callers[Len(callers)]
    IN  IF callers = <<>>
        THEN stack' = <<>> /\ at' = "closed"
        ELSE /\ stack' = [callers EXCEPT ![Len(callers)] =
                              [caller EXCEPT !.exit = exit, !.labels = Front(caller.labels)]]
             /\ at' = "menu"

Escape ==
    /\ Listing
    /\ Return(FALSE)
    /\ UNCHANGED <<Settings, opened>>

\* The head of the loop of run_menu once exit is set.
Unwind ==
    /\ at = "menu"
    /\ stack # <<>> /\ Top.exit
    /\ Return(TRUE)
    /\ UNCHANGED <<Settings, opened>>

-----------------------------------------------------------------------------
(* Enter on an item.                                                       *)

Enter(kind) == Listing /\ Chosen(Top).kind = kind

OpenSubmenu ==
    /\ Enter("submenu")
    /\ LET labels == Append(Top.labels, Chosen(Top).label)
       IN  stack' = Append(WithTop([Top EXCEPT !.labels = labels]),
                           Call(Chosen(Top).of, labels))
    /\ UNCHANGED <<at, Settings, opened>>

ChooseExit ==
    /\ Enter("exit")
    /\ stack' = WithTop([Top EXCEPT !.exit = TRUE])
    /\ UNCHANGED <<at, Settings, opened>>

\* get_string is called; its prompt is a state of its own.
AskValue ==
    /\ \E kind \in {"string", "int", "funct"} : Enter(kind)
    /\ at' = "input"
    /\ UNCHANGED <<stack, Settings, opened>>

Answering(kind) == at = "input" /\ Chosen(Top).kind = kind

CancelInput ==
    /\ at = "input"
    /\ at' = "menu"
    /\ UNCHANGED <<stack, Settings, opened>>

AnswerString(text) ==
    /\ Answering("string")
    /\ texts' = [texts EXCEPT ![Chosen(Top).of] = text]
    /\ at' = "menu"
    /\ UNCHANGED <<stack, numbers, prefix, opened>>

\* An integer that is 0 is not assigned.
AnswerInt(n) ==
    /\ Answering("int")
    /\ numbers' = [numbers EXCEPT ![Chosen(Top).of] = IF n = 0 THEN @ ELSE n]
    /\ at' = "menu"
    /\ UNCHANGED <<stack, texts, prefix, opened>>

\* stoi throws on an answer without a digit before the point, and on one
\* beyond an int: nothing catches it.
AnswerIntThrows ==
    /\ Answering("int")
    /\ at' = "dead"
    /\ UNCHANGED <<stack, Settings, opened>>

\* The first character of the scanned text; that of an empty one is NUL.
get_barcode_prefix(text) ==
    /\ Answering("funct")
    /\ prefix' = text
    /\ at' = "menu"
    /\ UNCHANGED <<stack, texts, numbers, opened>>

Dead == at = "dead" /\ UNCHANGED vars

User ==
    \/ start_main_menu
    \/ print_receipt
    \/ \E step \in {-1, 1} : Move(step)
    \/ Escape
    \/ OpenSubmenu
    \/ ChooseExit
    \/ AskValue
    \/ CancelInput
    \/ \E text \in Texts : AnswerString(text)
    \/ \E n \in Numbers : AnswerInt(n)
    \/ AnswerIntThrows
    \/ \E text \in Texts \cup {NoKey} : get_barcode_prefix(text)

Next == User \/ Unwind \/ Dead

\* The program does not stop between two keys.
Spec == Init /\ [][Next]_vars /\ WF_vars(Unwind)

-----------------------------------------------------------------------------
(* Properties.                                                             *)

\* The line above a menu is the way to it: one label for every submenu
\* chosen on the way, in that order, whatever was opened and left before.
\* run_menu relies on erase(end()) taking the last label.
LabelsAreThePath ==
    at # "closed" =>
        \A i \in DOMAIN stack :
            LET path == [k \in 1 .. i - 1 |-> Chosen(stack[k]).label]
                open == IF i < Len(stack) THEN <<Chosen(stack[i]).label>> ELSE <<>>
            IN  stack[i].labels = <<"">> \o path \o open

\* A setting that is a width or a count is never 0, and a setting keeps the
\* kind that the code reading it expects.
SettingsOK ==
    /\ \A n \in Ints : numbers[n] \in Nat \ {0}
    /\ \A s \in Strings : texts[s] \in Texts

Exiting == stack # <<>> /\ Top.exit
Closed == at = "closed"

\* "exit" in any menu, and "Products" in the first, lead back to the list
\* of products without another key, however deep the menu was.
ExitLeavesAll == Exiting ~> Closed

\* The receipt goes to the device the settings name ("Printer file
\* location").
PrinterHonoured == [][print_receipt => opened' = texts["printer_device_file"]]_vars
=============================================================================
