----------------------------- MODULE MCTerminal -----------------------------
(* A screen of two short rows and a prompt of one character.               *)
EXTENDS Terminal

MCPrompt == <<">">>
MCOutput == <<"?", "nl">>

(* A letter, a digit, and every key that does something else; Nul is a key *)
(* released.                                                               *)
MCKeys == {"a", "1", "nl", "bs", "tab", "esc", "shift", "caps", Nul}
=============================================================================
