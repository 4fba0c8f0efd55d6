------------------------------ MODULE Terminal ------------------------------
(***************************************************************************)
(* The console: keyboard interrupts (keyboard.c) and the shell's main loop *)
(* that prints its prompt, reads a line with fgets and prints the output   *)
(* of the command (stdio.c, shell_main), over one screen and one cursor    *)
(* (vga.c) and a mailbox of one character, curr_ch.                        *)
(*                                                                         *)
(* The keyboard handler runs with interrupts off and is one action.  The   *)
(* main loop may be interrupted between the steps of putc, between the     *)
(* read and the reset of curr_ch in keyboard_getch, and while it sleeps.   *)
(* Characters are named: "nl", "bs", "tab", "esc" and Nul are '\n', '\b',  *)
(* '\t', 27 and 0.  What is marked as history is there for the properties. *)
(***************************************************************************)
EXTENDS Integers, Sequences

CONSTANTS
  Key,            \* the keys the user presses: names of Ascii, or modifiers
  MaxKeys,        \* how many key events there are (in this run)
  SCREEN_WIDTH, SCREEN_HEIGHT,
  Prompt, Output, \* what the shell prints before and after it reads a line
  N               \* sizeof(line)

Nul == "nul"
Blank == " "
Lower == {"a", "b"}
Upper == [c \in Lower |-> IF c = "a" THEN "A" ELSE "B"]
Control == {"nl", "bs", "tab", "esc", Nul}

(* Digits and symbols and what shift makes of them.  A space and control   *)
(* characters index before the beginning of shift_symbols_table, where the *)
(* zeros at the end of scancodes_table lie.                                *)
Symbol == [c \in {"1", "2", Blank} \cup Control |->
             IF c = "1" THEN "!" ELSE IF c = "2" THEN "@" ELSE Nul]
Ascii == Lower \cup DOMAIN Symbol
Char == Ascii \cup {"A", "B", "!", "@", "?", ">"}
Modifier == {"shift", "caps"}

ASSUME TerminalAssumption ==
  /\ Key \subseteq Ascii \cup Modifier
  /\ MaxKeys \in Nat /\ N \in Nat \ {0}
  /\ SCREEN_WIDTH \in 1 .. 248 /\ SCREEN_HEIGHT \in 1 .. 255
  /\ Prompt \in Seq(Char) /\ Output \in Seq(Char)

Column == 0 .. (SCREEN_WIDTH - 1)
Row == 0 .. (SCREEN_HEIGHT - 1)

VARIABLES
  screen, cursor, hw,       \* cells; cursor; the VGA board's cursor
  is_uppercase, is_shift, line_len, curr_ch,
  keys,                     \* key events so far (history)
  pc, out, curr,            \* main loop: point, text to print, putc's curr
  temp, i, dest,            \* getch's temp; fgets
  last,                     \* the key it used last (history)
  home, followed            \* where the line begins; see Follows (history)

keyboard == <<is_uppercase, is_shift, line_len, keys>>
display == <<screen, cursor, hw>>
line == <<i, dest, last>>
read == <<home, followed>>
vars == <<keyboard, display, line, read, curr_ch, pc, out, curr, temp>>

Polling == {"poll", "clear", "use", "sleep"}
Putting == {"draw", "scroll", "set"}
Point == Polling \cup Putting \cup {"print", "first", "discard", "line"}
Stamped == [ch : Char, no : 0 .. MaxKeys]
None == [ch |-> Nul, no |-> 0]

(* uint8_t coordinates; the board's two registers; a byte before or in     *)
(* line[].                                                                 *)
Coordinates == [x : 0 .. 255, y : 0 .. 255]
LastLocation == 65535
Location == 0 .. LastLocation
Cell == -MaxKeys .. (N - 1)

TypeOK ==
  /\ screen \in [Row -> [Column -> Char]]
  /\ cursor \in Coordinates /\ curr \in Coordinates
  /\ hw \in Location
  /\ is_uppercase \in BOOLEAN /\ is_shift \in BOOLEAN
  /\ line_len \in 0 .. (MaxKeys + 1)
  /\ curr_ch \in Stamped /\ temp \in Stamped
  /\ keys \in 0 .. MaxKeys /\ last \in 0 .. MaxKeys
  /\ pc \in Point
  /\ out \in Seq(Char)
  /\ i \in -MaxKeys .. N
  /\ dest \in [Cell -> Char]
  /\ home \in 0 .. 255 /\ followed \in BOOLEAN

FirstLen == 1

Init ==
  /\ screen = [y \in Row |-> [x \in Column |-> Blank]]
  /\ cursor = [x |-> 0, y |-> 0] /\ curr = cursor /\ hw = 0
  /\ is_uppercase = FALSE /\ is_shift = FALSE
  /\ line_len = FirstLen
  /\ curr_ch = None /\ temp = None
  /\ keys = 0 /\ last = 0
  /\ pc = "print"
  /\ out = Prompt
  /\ i = 0
  /\ dest = [c \in Cell |-> Nul]
  /\ home = 0 /\ followed = FALSE
-----------------------------------------------------------------------------
(* putc: the cell that c changes and the cursor it leaves, before and      *)
(* after scroll().                                                         *)
Erases(c, p) == c = "bs" /\ p.x > 0

Drawn(s, c, p) ==
  IF Erases(c, p) THEN [s EXCEPT ![p.y][p.x - 1] = Blank]
  ELSE IF c \in Control THEN s
  ELSE [s EXCEPT ![p.y][p.x] = c]

Moved(c, p) ==
  CASE Erases(c, p)    -> [p EXCEPT !.x = @ - 1]
    [] c = "tab"       -> [p EXCEPT !.x = (@ \div 8 + 1) * 8]
    [] c = "nl"        -> [x |-> 0, y |-> p.y + 1]
    [] c \notin Control -> [p EXCEPT !.x = @ + 1]
    [] OTHER           -> p

Wrapped(p) == IF p.x >= SCREEN_WIDTH THEN [x |-> 0, y |-> p.y + 1] ELSE p
After(c, p) == Wrapped(Moved(c, p))

BelowPast(p) == p.y > SCREEN_HEIGHT
Below(p) == p.y >= SCREEN_HEIGHT

Scrolled(s, p) ==
  IF ~Below(p) THEN s
  ELSE [y \in Row |-> IF y + 1 \in Row THEN s[y + 1] ELSE [x \in Column |-> Blank]]

Up(p) == IF Below(p) THEN [x |-> 0, y |-> SCREEN_HEIGHT - 1] ELSE p

(* vga_movcurr sends currpos & 0xF0 as the high byte of the position and   *)
(* currpos & 0x0F as the low one.                                          *)
Position(p) == p.y * SCREEN_WIDTH + p.x
Sent(p) == 256 * (16 * ((Position(p) % 256) \div 16)) + (Position(p) % 16)
-----------------------------------------------------------------------------
(* keyboard_handler, for the scancode of key k.  The release of a key is   *)
(* the key Nul.                                                            *)
Translated(k) ==
  IF k \in Lower THEN IF is_uppercase \/ is_shift THEN Upper[k] ELSE k
  ELSE IF is_shift THEN Symbol[k] ELSE k

LessOneZero(l) == 0
LessOne(l) == IF l > 0 THEN l - 1 ELSE 0

LineLen(k) ==
  LET l == CASE k = "nl" -> 1
             [] k \in {"bs", Nul} -> line_len
             [] OTHER -> line_len + 1
  IN IF Translated(k) = "bs" THEN LessOne(l) ELSE l

Modify(k) ==
  /\ is_uppercase' = IF k = "caps" THEN ~is_uppercase ELSE is_uppercase
  /\ is_shift' = (is_shift \/ k = "shift")
  /\ UNCHANGED <<line_len, curr_ch, display>>

Type(k) ==
  LET c == Translated(k)
      p == After(c, cursor)
  IN /\ is_shift' = FALSE
     /\ line_len' = LineLen(k)
     /\ IF line_len' > 0
        THEN /\ screen' = Scrolled(Drawn(screen, c, cursor), p)
             /\ cursor' = Up(p)
             /\ hw' = Sent(cursor')
        ELSE UNCHANGED display
     /\ curr_ch' = [ch |-> c, no |-> keys']
     /\ UNCHANGED is_uppercase

(* The keys after which the screen still shows the line that fgets reads,  *)
(* be they pressed or released: one that fgets waits for, having used the  *)
(* last one, and that is                                                   *)
(*  - a character that is drawn, unless the row ends with it: behind the   *)
(*    wrap, backspace erases nothing on the screen;                        *)
(*  - no Esc or tab, which fgets stores and the screen shows as nothing or *)
(*    as a gap;                                                            *)
(*  - backspace, if there is something to erase;                           *)
(*  - Enter without shift, which is no '\n' but resets line_len.           *)
Follows(k) ==
  \/ k \in Modifier
  \/ /\ pc \in {"poll", "sleep"} /\ curr_ch.ch = Nul
     /\ k = "nl" => ~is_shift
     /\ LET c == Translated(k) IN
          /\ c \notin {"esc", "tab"}
          /\ c = "bs" => i > 0
          /\ c \notin Control => cursor.x + 1 < SCREEN_WIDTH

Press(k) ==
  /\ keys < MaxKeys
  /\ keys' = keys + 1
  /\ IF k \in Modifier THEN Modify(k) ELSE Type(k)
  /\ followed' = (followed /\ Follows(k))
  /\ UNCHANGED <<line, home, pc, out, curr, temp>>
-----------------------------------------------------------------------------
(* printf and puts: putc for one character after the other.                *)
PutGet ==
  /\ pc = "print" /\ out # <<>>
  /\ curr' = cursor
  /\ pc' = "draw"
  /\ UNCHANGED <<keyboard, display, line, read, curr_ch, out, temp>>

PutDraw ==
  /\ pc = "draw"
  /\ screen' = Drawn(screen, Head(out), curr)
  /\ curr' = After(Head(out), curr)
  /\ pc' = "scroll"
  /\ UNCHANGED <<keyboard, cursor, hw, line, read, curr_ch, out, temp>>

PutScroll ==
  /\ pc = "scroll"
  /\ screen' = Scrolled(screen, curr)
  /\ curr' = Up(curr)
  /\ pc' = "set"
  /\ UNCHANGED <<keyboard, cursor, hw, line, read, curr_ch, out, temp>>

PutSet ==
  /\ pc = "set"
  /\ cursor' = curr
  /\ hw' = Sent(curr)
  /\ out' = Tail(out)
  /\ pc' = "print"
  /\ UNCHANGED <<keyboard, screen, line, read, curr_ch, curr, temp>>

(* fgets: the first keyboard_getch, whose result is not used, ...          *)
Start ==
  /\ pc = "print" /\ out = <<>>
  /\ pc' = "first"
  /\ i' = 0
  /\ home' = cursor.x
  /\ followed' = (line_len > 0)
  /\ UNCHANGED <<keyboard, display, curr_ch, dest, last, out, curr, temp>>

(* ... and those of the loop: read curr_ch, then reset it.                 *)
Read ==
  /\ pc \in {"first", "poll"}
  /\ temp' = curr_ch
  /\ pc' = IF pc = "first" THEN "discard" ELSE "clear"
  /\ UNCHANGED <<keyboard, display, line, read, curr_ch, out, curr>>

TakenNot == curr_ch
Taken == None

Clear ==
  /\ pc \in {"discard", "clear"}
  /\ curr_ch' = Taken
  /\ pc' = IF pc = "discard" THEN "poll" ELSE "use"
  /\ UNCHANGED <<keyboard, display, line, read, out, curr, temp>>

(* while (i < n && ch != NEWLINE_CHAR)                                     *)
AgainAnyway(j) == j < N
Again(j) == j < N /\ temp.ch # "nl"

Use ==
  /\ pc = "use" /\ temp.ch # Nul
  /\ i' = IF temp.ch = "bs" THEN i - 1 ELSE i + 1
  /\ dest' = IF temp.ch = "bs" THEN dest ELSE [dest EXCEPT ![i] = temp.ch]
  /\ last' = temp.no
  /\ pc' = IF Again(i') THEN "poll" ELSE "line"
  /\ UNCHANGED <<keyboard, display, read, curr_ch, out, curr, temp>>

(* Sleep(10), until the next timer tick.                                   *)
Doze ==
  /\ pc = "use" /\ temp.ch = Nul
  /\ pc' = "sleep"
  /\ UNCHANGED <<keyboard, display, line, read, curr_ch, out, curr, temp>>

Tick ==
  /\ pc = "sleep"
  /\ pc' = "poll"
  /\ UNCHANGED <<keyboard, display, line, read, curr_ch, out, curr, temp>>

(* The command of the line is executed, and the next prompt printed.       *)
Execute ==
  /\ pc = "line"
  /\ pc' = "print"
  /\ out' = Output \o Prompt
  /\ UNCHANGED <<keyboard, display, line, read, curr_ch, curr, temp>>

Main ==
  \/ PutGet \/ PutDraw \/ PutScroll \/ PutSet
  \/ Start \/ Read \/ Clear \/ Use \/ Doze \/ Tick \/ Execute

Next == Main \/ \E k \in Key : Press(k)

Spec == Init /\ [][Next]_vars

(* The main loop waits for nothing but the timer, which goes on ticking.   *)
FairSpec == Spec /\ WF_vars(Main)
-----------------------------------------------------------------------------
(* However the keyboard's putc and the shell's interleave, the cursor      *)
(* stays on the screen, so that no cell beyond video memory is written.    *)
OnScreen ==
  /\ cursor.x \in Column /\ cursor.y \in Row
  /\ pc # "scroll" => curr.x \in Column /\ curr.y \in Row

(* fgets uses a key at most once, and keys in the order they were pressed, *)
(* wherever an interrupt hits keyboard_getch.                              *)
NoKeyTwice == pc = "use" /\ temp.ch # Nul => temp.no > last

(* What lies in curr_ch is new, and newer than what getch has in hand.     *)
Mailbox ==
  /\ last <= keys /\ curr_ch.no <= keys /\ temp.no <= keys
  /\ pc \in {"clear", "use"} /\ temp.ch # Nul => temp.no > last
  /\ curr_ch.ch # Nul => curr_ch.no > last
  /\ pc = "use" /\ temp.ch # Nul /\ curr_ch.ch # Nul => curr_ch.no > temp.no

(* Columns and rows between the steps of putc; fgets's index, which every  *)
(* backspace may lower and no character raises beyond its buffer.          *)
Bounds ==
  /\ pc = "scroll" => curr.x \in Column /\ curr.y \in 0 .. SCREEN_HEIGHT
  /\ -last <= i
  /\ pc \in Polling \cup {"first", "discard"} => i < N
  /\ line_len <= keys + 1
  /\ pc \in Putting => out # <<>>

(* The inductive invariant.                                                *)
IInv ==
  /\ TypeOK
  /\ OnScreen
  /\ Mailbox
  /\ Bounds

(* Unless a key has come that does not follow, the text between the place  *)
(* where the line begins and the cursor is the text that fgets has read so *)
(* far: what is seen is what will be executed.  Two programs keep it, and  *)
(* neither looks at what the other does: keyboard_handler draws and erases *)
(* by line_len, and fgets stores and forgets by its index.                 *)
LineShown ==
  followed /\ pc = "sleep" /\ curr_ch.ch = Nul =>
    /\ cursor.x = home + i
    /\ \A j \in 0 .. (i - 1) : screen[cursor.y][home + j] = dest[j]

(* Enter ends the line, unless another key event follows before the loop   *)
(* has read curr_ch, or it falls between that and the reset.               *)
EnterEnds ==
  \A k \in 1 .. MaxKeys :
    curr_ch = [ch |-> "nl", no |-> k] /\ pc \in Polling \ {"clear"}
      ~> pc = "line" \/ keys > k

(* No key event makes fgets miss a key that it has not read yet.           *)
NoKeyLost ==
  [][\A k \in Key : Press(k) /\ curr_ch.ch # Nul => curr_ch' = curr_ch]_vars

(* fgets stores nothing before the beginning of its buffer.                *)
InBuffer == i >= 0

(* The board shows the cursor where the next character will be printed.    *)
CursorShown == pc = "print" => hw = Position(cursor)
=============================================================================
