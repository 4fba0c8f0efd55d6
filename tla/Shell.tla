------------------------------- MODULE Shell -------------------------------
(***************************************************************************)
(* The shell's command loop and its variables (shell.c): shell_parse cuts  *)
(* a line at its spaces, shell_execute looks the command up and counts its *)
(* arguments, set joins the arguments again and stores them under a name,  *)
(* in a list whose newest variable comes first.                            *)
(*                                                                         *)
(* Lines are sequences of characters.                                      *)
(* Text that is_exp takes for an expression goes through MathExp first.    *)
(* Of the commands only set changes the variables; echo and vars print     *)
(* them, as Numerals does, and the others are in Files.                    *)
(***************************************************************************)
EXTENDS Numerals

CONSTANTS
  Char,    \* the characters, of which the name of a command is one
  Session  \* the k-th line that is entered is one of Session[k]

Space == " "

ASSUME SessionAssumption ==
  /\ Session \in Seq(SUBSET Seq(Char))
  /\ {Space, "p", "w", "d", "/", "r", "o", "t"} \subseteq Char

(* The name set, and min_args of the commands.                             *)
MinArgs == [c \in {"set", "echo", "vars"} |->
              CASE c = "set" -> 3 [] c = "echo" -> 2 [] c = "vars" -> 1]

String(s) == [type |-> "STRING", data |-> s]
Pwd == [name |-> <<"p", "w", "d">>, value |-> String(<<"/", "r", "o", "o", "t">>)]

VARIABLES
  variables,  \* shell_variables, the head of the list first
  pending,    \* the name whose value is being evaluated
  entered,    \* how many lines were entered
  typed,      \* the text entered last for each name in the list (history)
  shown       \* what echo or vars has printed last

session == <<calc, variables, pending, entered, typed, shown>>

NamesOf(list) == {list[k].name : k \in DOMAIN list}
Names == NamesOf(variables)

Data == [type : {"STRING"}, data : Seq(Char)] \cup [type : {"INT"}, data : Int]
          \cup [type : {"FLOAT"}, data : Float]

(* Names and the history go together.                                      *)
TypeOK ==
  /\ InStep
  /\ given \in Seq(Char)
  /\ variables \in Seq([name : Seq(Char), value : Data])
  /\ pending \in Seq(Char)
  /\ typed \in [Names \cup (IF pc = "idle" THEN {} ELSE {pending}) -> Seq(Char)]
  /\ entered \in 0 .. Len(Session)

(* shell_main: variables_push("pwd", "/root").                             *)
Init ==
  /\ Idle
  /\ variables = <<Pwd>>
  /\ pending = <<>>
  /\ entered = 0
  /\ shown = <<>>
  /\ typed = [n \in {Pwd.name} |-> Pwd.value.data]
-----------------------------------------------------------------------------
(* shell_parse: one argument more than there are spaces.                   *)
Spaces(line) == {k \in DOMAIN line : line[k] = Space}
Argc(line) == 1 + Cardinality(Spaces(line))

Cut(args, c) ==
  IF c = Space THEN Append(args, <<>>)
  ELSE [args EXCEPT ![Len(args)] = Append(@, c)]

Argv(line) == FoldLeft(Cut, <<<<>>>>, line)

(* shell_combine_strings: the arguments, with a space after each but the   *)
(* last.                                                                   *)
CombineTight(args) == FlattenSeq(args)
Joined(s, a) == s \o <<Space>> \o a
Combine(args) == FoldLeft(Joined, Head(args), Tail(args))

(* variables_push: set_variable gives the node its new data and sets its   *)
(* next to 0, whether it is new or not.                                    *)
Indices(n) == {k \in DOMAIN variables : variables[k].name = n}

FoundNever(n) == {}
Found(n) == {k \in Indices(n) : \A j \in Indices(n) : k <= j}

Pushed(n, v) ==
  IF Found(n) = {} THEN <<[name |-> n, value |-> v]>> \o variables
  ELSE LET k == CHOOSE k \in Found(n) : TRUE
       IN [j \in 1 .. k |-> IF j = k THEN [name |-> n, value |-> v] ELSE variables[j]]

Recorded(n, text) == [m \in NamesOf(variables') \cup {n} |->
                        IF m = n THEN text ELSE typed[m]]

(* The text of a set command, from its second space on.                    *)
Text(line) ==
  LET second == CHOOSE k \in Spaces(line) :
                  Cardinality({j \in Spaces(line) : j < k}) = 1
  IN SubSeq(line, second + 1, Len(line))

IsSet(line) == Argv(line)[1] = <<"set">> /\ Argc(line) >= MinArgs["set"]

(* set a text that is no expression: it is stored as a string.             *)
SetString(line) ==
  LET argv == Argv(line)
      data == Combine(SubSeq(argv, 3, Argc(line)))
  IN /\ IsSet(line)
     /\ ~is_exp(data)
     /\ variables' = Pushed(argv[2], String(data))
     /\ typed' = Recorded(argv[2], Text(line))
     /\ UNCHANGED <<calc, pending>>

(* set an expression: its value is stored once it is evaluated.            *)
SetExp(line) ==
  LET argv == Argv(line)
      data == Combine(SubSeq(argv, 3, Argc(line)))
  IN /\ IsSet(line)
     /\ is_exp(data) /\ Start(data)
     /\ pending' = argv[2]
     /\ UNCHANGED variables
     /\ typed' = Recorded(argv[2], Text(line))

Store ==
  /\ Return
  /\ variables' = Pushed(pending, Result)
  /\ typed' = Recorded(pending, typed[pending])
  /\ pending' = <<>>
  /\ UNCHANGED <<entered, shown>>

(* echo prints its arguments, a space after each.  For one that begins     *)
(* with '$' it goes through the list and prints every variable that has    *)
(* the rest for its name.                                                  *)
NameWhole(word) == word
NameIn(word) == Tail(word)

Word(word) ==
  IF word = <<>> \/ Head(word) # "$" THEN word \o <<Space>>
  ELSE FlattenSeq([k \in DOMAIN variables |->
         IF variables[k].name = NameIn(word)
         THEN Printed(variables[k].value) \o <<Space>> ELSE <<>>])

IsEcho(line) == Argv(line)[1] = <<"echo">> /\ Argc(line) >= MinArgs["echo"]

echo(line) ==
  LET words == Tail(Argv(line))
  IN FlattenSeq([k \in DOMAIN words |-> Word(words[k])]) \o <<NewLine>>

(* vars prints each variable as "$name = value".                           *)
IsVars(line) == Argv(line)[1] = <<"vars">>

Variable(v) == <<"$">> \o v.name \o <<Space, "=", Space>> \o Printed(v.value) \o <<NewLine>>
Variables == FlattenSeq([k \in DOMAIN variables |-> Variable(variables[k])])

(* Any other line is one of another command, an unknown one, or has too    *)
(* few arguments.                                                          *)
Other(line) ==
  /\ ~IsSet(line)
  /\ UNCHANGED <<calc, variables, pending, typed>>

Output(line) ==
  CASE IsEcho(line) -> echo(line)
    [] IsVars(line) -> Variables
    [] OTHER -> <<>>

(* The loop of shell_main: the next line is entered when the last one has  *)
(* been executed.                                                          *)
Execute(line) ==
  /\ SetString(line) \/ SetExp(line) \/ Other(line)
  /\ shown' = Output(line)

Enter ==
  /\ pc = "idle" /\ entered < Len(Session)
  /\ entered' = entered + 1
  /\ \E line \in Session[entered + 1] : Execute(line)

Evaluate == Step /\ UNCHANGED <<variables, pending, entered, typed, shown>>

Next == Enter \/ Evaluate \/ Store

Spec == Init /\ [][Next]_session /\ WF_session(Evaluate \/ Store)
-----------------------------------------------------------------------------
(* echo $name prints at most one value: no name is in the list twice.      *)
NamesOnce ==
  \A j, k \in DOMAIN variables : variables[j].name = variables[k].name => j = k

Settled(k) == pc = "idle" \/ variables[k].name # pending

(* A variable holds the text entered last for it, spaces and all: cutting  *)
(* the line into arguments and joining them again loses nothing.           *)
HoldsText ==
  \A k \in DOMAIN variables :
    LET text == typed[variables[k].name]
    IN Settled(k) /\ ~is_exp(text) => variables[k].value = String(text)

(* A variable set to an expression holds its value by the rules of         *)
(* precedence, computed in floats and made an INT or a FLOAT (0 when it    *)
(* divides by 0): neither joining the arguments, nor applying one operator *)
(* at a time in the arrays nums[] and ops[], nor the variables in between  *)
(* change it.                                                              *)
HoldsValue ==
  \A k \in DOMAIN variables :
    LET text == typed[variables[k].name]
    IN Settled(k) /\ is_exp(text) =>
         variables[k].value = Converted(text, Total(Scanned(text)))

(* While a text is evaluated it is the one entered last for its name.      *)
Evaluating ==
  pc # "idle" => given = typed[pending] /\ is_exp(given)

(* The inductive invariant.                                                *)
IInv ==
  /\ TypeOK
  /\ NamesOnce
  /\ HoldsText
  /\ HoldsValue
  /\ Evaluating
  /\ ValueKept

(* echo shows what was entered: it prints for a variable its text, or      *)
(* digits that read as its value, a fraction's to six places.              *)
(* Of values that are negative or too large for an int this is not true:   *)
(* see EchoShowsAll.                                                       *)
Reads(out, text) ==
  IF is_exp(text) THEN ReadsAs(out, Total(Scanned(text))) ELSE out = text

Printable(text) ==
  is_exp(text) => Total(Scanned(text)).m >= 0 /\ Fits(Total(Scanned(text)))

Echoes(n) == Execute(<<"echo", Space, "$">> \o n)

EchoShows ==
  [][\A n \in Names \ {Pwd.name} :
       Echoes(n) /\ Printable(typed[n]) =>
         Len(shown') >= 2 /\ Reads(SubSeq(shown', 1, Len(shown') - 2), typed[n])]_session

(* The same of every value.                                                *)
EchoShowsAll ==
  [][\A n \in Names \ {Pwd.name} :
       Echoes(n) =>
         Len(shown') >= 2 /\ Reads(SubSeq(shown', 1, Len(shown') - 2), typed[n])]_session

(* Every expression comes to a result, and the shell to its next line.     *)
Evaluates == []<>(pc = "idle")

(* For a name that exists "we only change its value": no command makes     *)
(* another variable disappear.                                             *)
OnlyValueChanges == [][Names \subseteq Names']_session
=============================================================================
