----------------------------- MODULE MCKeyboard -----------------------------
(***************************************************************************)
(* Keyboard with one key of each kind: a letter, a character beyond ASCII, *)
(* the editing keys, Ctrl-C, and keys whose bytes the client holds back    *)
(* (Alt with a letter, which may come apart to ESC and the letter, and     *)
(* Home, behind which that character stays whole).                         *)
(***************************************************************************)
EXTENDS Keyboard

MCWides == {<<"w1", "w2", "w3">>}
MCWide  == {Replacement, "w1"}

MCPasts == {<<<<"y", "z">>, <<"z">>>>}

MCPresses == {<<"x">>, <<"etx">>, <<"esc", "x">>, <<"esc", "[", "H">>,
              Enter, Del, Up, Down, Right, Left} \cup MCWides
=============================================================================
