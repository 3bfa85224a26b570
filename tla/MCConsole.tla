------------------------------ MODULE MCConsole ------------------------------
(***************************************************************************)
(* A screen of two rows of three, a ring of three, and a keyboard with a    *)
(* letter, Shift, Caps Lock, Enter, Backspace and an arrow.                 *)
(***************************************************************************)
EXTENDS Console

Key(code) == [code |-> code, ext |-> FALSE]

MCKeys == {Key("1C"), Key("5A"), Key("66"), Key(Shift), Key(CapsLock),
           [code |-> "75", ext |-> TRUE]}

MCPlugged == {<<"keyboard", "none">>, <<"mf2", "mouse">>, <<"broken", "keyboard">>}

MCBootScreens == {terminal_write(Cleared, <<"o", "o", "o", "o">>)}

MCPrintable == {"o"}

=============================================================================
