------------------------------ MODULE MCShell ------------------------------
(* First a long choice of lines: set a with every text of up to four       *)
(* characters, with every chain of four numbers, with expressions that     *)
(* round, that overflow an int or a float, with letters and spaces, and    *)
(* set without a text.  Then few that set the same name or another, or     *)
(* print what was set.  TLC's integers have 32 bits: INT_MAX is 2^25 - 1.  *)
EXTENDS Shell

MCChar == {"set", "echo", "vars", "$", Space, "a", "b", "p", "w", "d", "r", "o", "t"}
            \cup Digits \cup Ops
MCMinExp == -149

Few == {"0", "2", "3"}
Texts(chars, n) == UNION {[1 .. k -> chars] : k \in 0 .. n}
Chains == {<<a, o, b, q, c, r, d>> :
             a \in Few, o \in Ops, b \in Few, q \in Ops, c \in Few, r \in Ops, d \in Few}

(* 2^24 and 2^24 + 1, the least whole number that is no float; 2^25, the   *)
(* least that is no int here; and 2^144, which is no float.                *)
Two24 == <<"1", "6", "7", "7", "7", "2", "1", "6">>
Two24Plus1 == <<"1", "6", "7", "7", "7", "2", "1", "7">>
Two25 == <<"3", "3", "5", "5", "4", "4", "3", "2">>
Two48 == Two24 \o <<"*">> \o Two24
Two144 == Two48 \o <<"*">> \o Two48 \o <<"*">> \o Two48
Hard ==
  {<<"1", "/", "4", "1", "*", "4", "1">>, <<"4", "2", "/", "5">>, <<"5", "0", "/", "7">>,
   <<"1", "/", "3", "+", "1", "/", "3", "+", "1", "/", "3">>,
   Two24, Two24Plus1, Two25, <<"5", "0", "0", "0", "0", "0", "0", "0">>,
   Two24Plus1 \o <<"+", "1">>, Two24Plus1 \o <<"+", "3">>, Two24 \o <<"*", "4">>,
   Two24 \o <<"*", "4", "/", "1">>, Two24Plus1 \o <<"*", "4", "/", "8">>,
   Two144, Two144 \o <<"/", "1">>, Two144 \o <<"-">> \o Two144, Two144 \o <<"*", "0">>,
   <<"3", "/">> \o Two25}

SetA(text) == <<"set", Space, "a", Space>> \o text
First ==
  {SetA(t) : t \in Texts({"0", "2"} \cup Ops \cup {Space}, 4) \cup Chains \cup Hard}
    \cup {<<"set">> \o t : t \in Texts({Space, "a"}, 5)}

Second == {<<"set", Space, "b", Space, "b">>, <<"set", Space, "b", Space, "2", "/", "4">>, SetA(<<"2">>)}
Third == {<<"set", Space, "b", Space, "3">>, <<"vars">>, SetA(<<"b", Space>>),
          <<"echo", Space, "$", "a">>, <<"echo", Space, "$", "b">>}

MCSession == <<First, Second, Third>>
=============================================================================
