--------------------------- MODULE TerminalProofs ---------------------------
(***************************************************************************)
(* Proofs about the console for every screen of at least one cell, every   *)
(* prompt, buffer and set of keys: IInv is inductive, and so is EInv.      *)
(***************************************************************************)
EXTENDS Terminal, TLAPS

LEMMA Characters ==
  /\ Control \subseteq Ascii /\ Lower \subseteq Ascii /\ Ascii \subseteq Char
  /\ \A c \in Lower : Upper[c] \in Char
  /\ \A c \in Ascii \ Lower : Symbol[c] \in Char
  /\ Blank \in Char /\ Nul \in Char
BY DEF Control, Lower, Upper, Ascii, Symbol, Char, Nul, Blank

(* What the handler translates a key to is a character.                    *)
LEMMA TranslatedChar ==
  ASSUME NEW k \in Ascii
  PROVE  Translated(k) \in Char
BY Characters DEF Translated

(* Where putc leaves the cursor: in a column of the screen and at most one *)
(* row below it, ...                                                       *)
LEMMA AfterBounds ==
  ASSUME NEW c, NEW p \in [x : Column, y : Row]
  PROVE  After(c, p) \in [x : Column, y : 0 .. SCREEN_HEIGHT]
<1> USE TerminalAssumption DEF Column, Row
<1>1. p.x \in 0 .. (SCREEN_WIDTH - 1) /\ p.y \in 0 .. (SCREEN_HEIGHT - 1)
      /\ p = [x |-> p.x, y |-> p.y]
  OBVIOUS
<1> DEFINE m == Moved(c, p)
<1>2. m \in [x : Nat, y : 0 .. SCREEN_HEIGHT]
      /\ (m.x >= SCREEN_WIDTH => m.y < SCREEN_HEIGHT)
  <2>1. CASE Erases(c, p)
    <3>1. m = [x |-> p.x - 1, y |-> p.y]
      BY <1>1, <2>1 DEF Moved, Erases, Control
    <3>2. p.x > 0
      BY <2>1 DEF Erases
    <3> HIDE DEF m
    <3>3. QED
      BY <1>1, <3>1, <3>2
  <2>2. CASE ~Erases(c, p) /\ c = "tab"
    <3>1. m = [x |-> (p.x \div 8 + 1) * 8, y |-> p.y]
      BY <1>1, <2>2 DEF Moved, Control
    <3>2. (p.x \div 8 + 1) * 8 \in Nat
      BY <1>1
    <3> HIDE DEF m
    <3>3. QED
      BY <1>1, <3>1, <3>2
  <2>3. CASE ~Erases(c, p) /\ c = "nl"
    <3>1. m = [x |-> 0, y |-> p.y + 1]
      BY <2>3 DEF Moved, Control
    <3> HIDE DEF m
    <3>2. QED
      BY <1>1, <3>1
  <2>4. CASE ~Erases(c, p) /\ c \notin Control
    <3>1. m = [x |-> p.x + 1, y |-> p.y]
      BY <1>1, <2>4 DEF Moved, Control
    <3> HIDE DEF m
    <3>2. QED
      BY <1>1, <3>1
  <2>5. CASE ~Erases(c, p) /\ c \in Control \ {"tab", "nl"}
    <3>1. m = p
      BY <2>5 DEF Moved
    <3> HIDE DEF m
    <3>2. QED
      BY <1>1, <3>1
  <2>6. QED
    BY <2>1, <2>2, <2>3, <2>4, <2>5
<1>3. After(c, p) = IF m.x >= SCREEN_WIDTH THEN [x |-> 0, y |-> m.y + 1] ELSE m
  <2>1. m.y = p.y \/ m.x = 0
    BY DEF Moved
  <2>2. QED
    BY <2>1 DEF After, Wrapped
<1> HIDE DEF m
<1>4. QED
  BY <1>2, <1>3

(* ... and scroll() brings it back.                                        *)
LEMMA UpBounds ==
  ASSUME NEW p \in [x : Column, y : 0 .. SCREEN_HEIGHT]
  PROVE  Up(p) \in [x : Column, y : Row]
BY TerminalAssumption DEF Up, Below, Column, Row

LEMMA DrawnScreen ==
  ASSUME NEW s \in [Row -> [Column -> Char]], NEW c \in Char, NEW p
  PROVE  Drawn(s, c, p) \in [Row -> [Column -> Char]]
BY Characters DEF Drawn

LEMMA ScrolledScreen ==
  ASSUME NEW s \in [Row -> [Column -> Char]], NEW p
  PROVE  Scrolled(s, p) \in [Row -> [Column -> Char]]
BY Characters DEF Scrolled

LEMMA TwoDigits ==
  ASSUME NEW n \in 0 .. 15, NEW m \in 0 .. 15
  PROVE  256 * (16 * n) + m \in Location
<1>1. 256 * (16 * n) + m <= LastLocation
  BY DEF LastLocation
<1>2. LastLocation \in Nat
  BY DEF LastLocation
<1>3. QED
  BY <1>1, <1>2 DEF Location

(* What vga_movcurr sends fits the board's two registers.                  *)
LEMMA Bytes ==
  ASSUME NEW q \in Nat
  PROVE  256 * (16 * ((q % 256) \div 16)) + (q % 16) \in Location
<1>1. q % 16 \in 0 .. 15
  OBVIOUS
<1>2. q % 256 \in 0 .. 255
  OBVIOUS
<1>3. \A a \in 0 .. 255 : a \div 16 \in 0 .. 15
  OBVIOUS
<1>4. (q % 256) \div 16 \in 0 .. 15
  BY <1>2, <1>3
<1>5. QED
  BY <1>1, <1>4, TwoDigits, Zenon

LEMMA SentBounds ==
  ASSUME NEW p \in [x : Column, y : Row]
  PROVE  Sent(p) \in Location
<1>1. p.x \in Nat /\ p.y \in Nat /\ SCREEN_WIDTH \in Nat
  BY TerminalAssumption DEF Column, Row
<1>2. Position(p) \in Nat
  BY <1>1 DEF Position
<1>3. QED
  BY <1>2, Bytes, Zenon DEF Sent

LEMMA InitInv == Init => IInv
<1> SUFFICES ASSUME Init PROVE IInv
  OBVIOUS
<1> USE TerminalAssumption DEF Init
<1>1. 0 \in Column /\ 0 \in Row
  BY DEF Column, Row
<1>2. None \in Stamped
  BY Characters DEF None, Stamped
<1>3. TypeOK
  <2>1. screen \in [Row -> [Column -> Char]] /\ dest \in [Cell -> Char]
    BY Characters
  <2>2. cursor \in Coordinates /\ curr \in Coordinates
    BY DEF Coordinates
  <2>3. /\ line_len \in 0 .. (MaxKeys + 1) /\ i \in -MaxKeys .. N
        /\ keys \in 0 .. MaxKeys /\ last \in 0 .. MaxKeys /\ hw \in Location
    BY DEF FirstLen, Location, LastLocation
  <2>4. out \in Seq(Char) /\ pc \in Point
    BY DEF Point
  <2>5. curr_ch \in Stamped /\ temp \in Stamped
    BY <1>2
  <2>6. /\ is_uppercase \in BOOLEAN /\ is_shift \in BOOLEAN /\ followed \in BOOLEAN
    BY Zenon
  <2>7. home \in 0 .. 255
    OBVIOUS
  <2>8. QED
    BY <2>1, <2>2, <2>3, <2>4, <2>5, <2>6, <2>7 DEF TypeOK
<1>4. OnScreen
  BY <1>1 DEF OnScreen
<1>5. Mailbox
  BY DEF Mailbox, None
<1>6. Bounds
  BY DEF Bounds, Polling, Putting, FirstLen
<1>7. QED
  BY <1>3, <1>4, <1>5, <1>6 DEF IInv

(* Cursors on the screen have uint8_t coordinates.                         *)
LEMMA CursorBounds ==
  /\ [x : Column, y : 0 .. SCREEN_HEIGHT] \subseteq Coordinates
  /\ [x : Column, y : Row] \subseteq [x : Column, y : 0 .. SCREEN_HEIGHT]
  /\ \A p \in Coordinates :
       /\ p.x \in Column /\ p.y \in Row => p \in [x : Column, y : Row]
       /\ p.x \in Column /\ p.y \in 0 .. SCREEN_HEIGHT =>
            p \in [x : Column, y : 0 .. SCREEN_HEIGHT]
<1>1. /\ Column \subseteq 0 .. 255 /\ 0 .. SCREEN_HEIGHT \subseteq 0 .. 255
      /\ Row \subseteq 0 .. SCREEN_HEIGHT
  BY TerminalAssumption DEF Column, Row
<1>2. \A p \in Coordinates : p = [x |-> p.x, y |-> p.y]
  BY DEF Coordinates
<1>3. /\ [x : Column, y : 0 .. SCREEN_HEIGHT] \subseteq Coordinates
      /\ [x : Column, y : Row] \subseteq [x : Column, y : 0 .. SCREEN_HEIGHT]
  BY <1>1 DEF Coordinates
<1>4. ASSUME NEW p \in Coordinates
      PROVE  /\ p.x \in Column /\ p.y \in Row => p \in [x : Column, y : Row]
             /\ p.x \in Column /\ p.y \in 0 .. SCREEN_HEIGHT =>
                  p \in [x : Column, y : 0 .. SCREEN_HEIGHT]
  <2>1. p = [x |-> p.x, y |-> p.y]
    BY <1>2
  <2>2. \A X, Y : p.x \in X /\ p.y \in Y => p \in [x : X, y : Y]
    BY <2>1
  <2>3. QED
    BY <2>2, Zenon
<1>5. QED
  BY <1>3, <1>4

LEMMA ModifyInv ==
  ASSUME IInv, NEW k \in Key, keys < MaxKeys, keys' = keys + 1, Modify(k),
         UNCHANGED <<line, home, pc, out, curr, temp>>, followed' \in BOOLEAN
  PROVE  IInv'
<1> USE TerminalAssumption DEF IInv, Modify, line, display
<1>1. TypeOK'
  <2>1. keys' \in 0 .. MaxKeys
    BY DEF TypeOK
  <2>2. is_uppercase' \in BOOLEAN /\ is_shift' \in BOOLEAN
    BY DEF TypeOK
  <2>3. QED
    BY <2>1, <2>2 DEF TypeOK
<1>2. OnScreen'
  BY DEF OnScreen
<1>3. Mailbox'
  BY DEF Mailbox, TypeOK, Stamped
<1>4. Bounds'
  BY DEF Bounds, TypeOK
<1>5. QED
  BY <1>1, <1>2, <1>3, <1>4

LEMMA TypeInv ==
  ASSUME IInv, NEW k \in Key \ Modifier, keys < MaxKeys, keys' = keys + 1,
         Type(k), UNCHANGED <<line, home, pc, out, curr, temp>>, followed' \in BOOLEAN
  PROVE  IInv'
<1> USE DEF IInv, line
<1> DEFINE c == Translated(k)
           p == After(c, cursor)
<1>1. c \in Char
  BY TerminalAssumption, TranslatedChar
<1>2. cursor \in [x : Column, y : Row]
  BY CursorBounds DEF TypeOK, OnScreen
<1>3. p \in [x : Column, y : 0 .. SCREEN_HEIGHT]
  BY <1>2, AfterBounds
<1> HIDE DEF c, p
<1>4. /\ is_shift' = FALSE /\ line_len' = LineLen(k)
      /\ \/ UNCHANGED display
         \/ /\ screen' = Scrolled(Drawn(screen, c, cursor), p)
            /\ cursor' = Up(p)
            /\ hw' = Sent(cursor')
      /\ curr_ch' = [ch |-> c, no |-> keys']
      /\ UNCHANGED is_uppercase
  BY DEF Type, c, p
<1>5. LineLen(k) \in 0 .. (line_len + 1)
  <2>1. line_len \in Nat
    BY TerminalAssumption DEF TypeOK
  <2>2. QED
    BY <2>1 DEF LineLen, LessOne
<1>6. /\ screen' \in [Row -> [Column -> Char]]
      /\ cursor' \in [x : Column, y : Row]
      /\ hw' \in Location
  <2>1. CASE UNCHANGED display
    BY <2>1, <1>2 DEF display, TypeOK
  <2>2. CASE /\ screen' = Scrolled(Drawn(screen, c, cursor), p)
             /\ cursor' = Up(p)
             /\ hw' = Sent(cursor')
    <3>1. cursor' \in [x : Column, y : Row]
      BY <2>2, <1>3, UpBounds
    <3>2. hw' \in Location
      BY <2>2, <3>1, SentBounds
    <3>3. Drawn(screen, c, cursor) \in [Row -> [Column -> Char]]
      BY <1>1, DrawnScreen DEF TypeOK
    <3>4. QED
      BY <2>2, <3>1, <3>2, <3>3, ScrolledScreen
  <2>3. QED
    BY <2>1, <2>2, <1>4
<1>7. keys' \in 0 .. MaxKeys /\ curr_ch' \in Stamped
  BY <1>1, <1>4, TerminalAssumption DEF TypeOK, Stamped
<1>8. line_len' \in 0 .. (MaxKeys + 1) /\ line_len' <= keys' + 1
  BY <1>4, <1>5, TerminalAssumption DEF TypeOK, Bounds
<1>9. TypeOK'
  <2>1. cursor' \in Coordinates
    BY <1>6, CursorBounds
  <2>2. QED
    BY <1>4, <1>6, <1>7, <1>8, <2>1 DEF TypeOK
<1>10. OnScreen'
  BY <1>6 DEF OnScreen
<1>11. Mailbox'
  <2>1. /\ last \in Nat /\ temp.no \in Nat /\ keys \in Nat
        /\ last' = last /\ temp' = temp /\ pc' = pc
    BY TerminalAssumption DEF TypeOK, Stamped
  <2>2. curr_ch'.no = keys + 1 /\ keys' = keys + 1
    BY <1>4
  <2>3. QED
    BY <2>1, <2>2 DEF Mailbox
<1>12. Bounds'
  BY <1>8 DEF Bounds
<1>13. QED
  BY <1>9, <1>10, <1>11, <1>12

LEMMA PrintInv ==
  ASSUME IInv, PutGet \/ PutDraw \/ PutScroll \/ PutSet
  PROVE  IInv'
<1> USE DEF IInv, keyboard, display, line, read
<1>1. CASE PutGet
  <2> USE <1>1 DEF PutGet
  <2>1. TypeOK'
    BY DEF TypeOK, Point, Putting
  <2>2. OnScreen' /\ Mailbox' /\ Bounds'
    BY DEF OnScreen, Mailbox, Bounds, Polling, Putting
  <2>3. QED
    BY <2>1, <2>2
<1>2. CASE PutDraw
  <2> USE <1>2 DEF PutDraw
  <2>1. curr \in [x : Column, y : Row]
    BY CursorBounds DEF TypeOK, OnScreen
  <2>2. Head(out) \in Char
    BY DEF TypeOK, Bounds, Putting
  <2>3. curr' \in [x : Column, y : 0 .. SCREEN_HEIGHT]
    BY <2>1, AfterBounds
  <2>4. screen' \in [Row -> [Column -> Char]]
    BY <2>2, DrawnScreen DEF TypeOK
  <2>5. TypeOK'
    BY <2>3, <2>4, CursorBounds DEF TypeOK, Point, Putting
  <2>6. OnScreen' /\ Mailbox' /\ Bounds'
    BY <2>3 DEF OnScreen, Mailbox, Bounds, Polling, Putting
  <2>7. QED
    BY <2>5, <2>6
<1>3. CASE PutScroll
  <2> USE <1>3 DEF PutScroll
  <2>1. curr \in [x : Column, y : 0 .. SCREEN_HEIGHT]
    BY CursorBounds DEF TypeOK, Bounds
  <2>2. curr' \in [x : Column, y : Row]
    BY <2>1, UpBounds
  <2>3. screen' \in [Row -> [Column -> Char]]
    BY ScrolledScreen DEF TypeOK
  <2>4. TypeOK'
    BY <2>2, <2>3, CursorBounds DEF TypeOK, Point, Putting
  <2>5. OnScreen' /\ Mailbox' /\ Bounds'
    BY <2>2 DEF OnScreen, Mailbox, Bounds, Polling, Putting
  <2>6. QED
    BY <2>4, <2>5
<1>4. CASE PutSet
  <2> USE <1>4 DEF PutSet
  <2>1. curr \in [x : Column, y : Row]
    BY CursorBounds DEF TypeOK, OnScreen
  <2>2. hw' \in Location
    BY <2>1, SentBounds
  <2>3. out' \in Seq(Char)
    BY DEF TypeOK, Bounds, Putting
  <2>4. TypeOK'
    BY <2>2, <2>3 DEF TypeOK, Point
  <2>5. OnScreen' /\ Mailbox' /\ Bounds'
    BY DEF OnScreen, Mailbox, Bounds, Polling, Putting
  <2>6. QED
    BY <2>4, <2>5
<1>5. QED
  BY <1>1, <1>2, <1>3, <1>4

LEMMA UseInv ==
  ASSUME IInv, Use
  PROVE  IInv'
<1> USE DEF IInv, Use, keyboard, display, read
<1>1. /\ i \in Int /\ -last <= i /\ i < N /\ last \in Nat /\ keys \in Nat
      /\ temp.no \in 0 .. MaxKeys /\ temp.no > last /\ MaxKeys \in Nat /\ N \in Nat
  BY TerminalAssumption DEF TypeOK, Bounds, Polling, Mailbox, Stamped
<1>2. i' \in Int /\ -last' <= i' /\ i' <= N /\ last' = temp.no
  BY <1>1
<1>3. last' \in 0 .. MaxKeys /\ i' \in -MaxKeys .. N
  BY <1>1, <1>2
<1>4. dest' \in [Cell -> Char]
  <2>1. temp.ch \in Char
    BY DEF TypeOK, Stamped
  <2>2. QED
    BY <2>1 DEF TypeOK
<1>5. TypeOK'
  BY <1>3, <1>4 DEF TypeOK, Point, Polling
<1>6. OnScreen'
  BY DEF OnScreen
<1>7. Mailbox'
  BY <1>1, <1>2 DEF Mailbox
<1>8. Bounds'
  BY <1>2 DEF Bounds, Again, Polling, Putting
<1>9. QED
  BY <1>5, <1>6, <1>7, <1>8

LEMMA MainInv ==
  ASSUME IInv, Main
  PROVE  IInv'
<1> USE DEF IInv, keyboard, display, line, read
<1>1. CASE PutGet \/ PutDraw \/ PutScroll \/ PutSet
  BY <1>1, PrintInv
<1>2. CASE Start
  <2> USE <1>2 DEF Start
  <2>1. home' \in 0 .. 255 /\ followed' \in BOOLEAN
    BY DEF TypeOK, Coordinates
  <2>2. i' \in -MaxKeys .. N
    BY TerminalAssumption
  <2>3. TypeOK'
    BY <2>1, <2>2 DEF TypeOK, Point
  <2>4. OnScreen' /\ Mailbox'
    BY DEF OnScreen, Mailbox
  <2>5. Bounds'
    BY TerminalAssumption DEF TypeOK, Bounds, Polling, Putting
  <2>6. QED
    BY <2>3, <2>4, <2>5
<1>3. CASE Read
  <2> USE <1>3 DEF Read
  <2>1. TypeOK'
    BY DEF TypeOK, Point, Polling
  <2>2. OnScreen' /\ Mailbox' /\ Bounds'
    BY DEF OnScreen, Mailbox, Bounds, Polling, Putting
  <2>3. QED
    BY <2>1, <2>2
<1>4. CASE Clear
  <2> USE <1>4 DEF Clear, Taken
  <2>1. None \in Stamped /\ None.ch = Nul /\ None.no = 0
    BY Characters, TerminalAssumption DEF None, Stamped
  <2>2. TypeOK'
    BY <2>1 DEF TypeOK, Point, Polling
  <2>3. OnScreen' /\ Bounds'
    BY DEF OnScreen, Bounds, Polling, Putting
  <2>4. Mailbox'
    BY <2>1, TerminalAssumption DEF Mailbox, TypeOK
  <2>5. QED
    BY <2>2, <2>3, <2>4
<1>5. CASE Use
  BY <1>5, UseInv
<1>6. CASE Doze \/ Tick
  <2> USE <1>6 DEF Doze, Tick
  <2>1. TypeOK'
    BY DEF TypeOK, Point, Polling
  <2>2. OnScreen' /\ Mailbox' /\ Bounds'
    BY DEF OnScreen, Mailbox, Bounds, Polling, Putting
  <2>3. QED
    BY <2>1, <2>2
<1>7. CASE Execute
  <2> USE <1>7 DEF Execute
  <2>1. out' \in Seq(Char)
    BY TerminalAssumption
  <2>2. TypeOK'
    BY <2>1 DEF TypeOK, Point
  <2>3. OnScreen' /\ Mailbox' /\ Bounds'
    BY DEF OnScreen, Mailbox, Bounds, Polling, Putting
  <2>4. QED
    BY <2>2, <2>3
<1>8. QED
  BY <1>1, <1>2, <1>3, <1>4, <1>5, <1>6, <1>7 DEF Main

LEMMA NextInv == IInv /\ [Next]_vars => IInv'
<1> SUFFICES ASSUME IInv, [Next]_vars PROVE IInv'
  OBVIOUS
<1>1. CASE Main
  BY <1>1, MainInv
<1>2. ASSUME NEW k \in Key, Press(k) PROVE IInv'
  <2>1. CASE k \in Modifier
    BY <1>2, <2>1, ModifyInv DEF Press
  <2>2. CASE k \notin Modifier
    BY <1>2, <2>2, TypeInv DEF Press
  <2>3. QED
    BY <2>1, <2>2
<1>3. CASE UNCHANGED vars
  <2> USE <1>3 DEF vars, IInv, keyboard, display, line, read
  <2>1. TypeOK'
    BY DEF TypeOK
  <2>2. OnScreen' /\ Mailbox' /\ Bounds'
    BY DEF OnScreen, Mailbox, Bounds
  <2>3. QED
    BY <2>1, <2>2
<1>4. QED
  BY <1>1, <1>2, <1>3 DEF Next

(* Wherever keyboard interrupts hit the main loop, IInv holds.             *)
THEOREM TerminalInvariance == Spec => []IInv
<1>1. QED
  BY InitInv, NextInv, PTL DEF Spec

(* The cursor, the line buffer's index and all the rest stay in range.     *)
THEOREM TerminalTypes == Spec => []TypeOK
<1>1. IInv => TypeOK
  BY DEF IInv
<1>2. QED
  BY <1>1, TerminalInvariance, PTL

(* putc never writes a cell outside video memory, although the shell's     *)
(* and the keyboard handler's calls race for the cursor.                   *)
THEOREM CursorOnScreen == Spec => []OnScreen
<1>1. IInv => OnScreen
  BY DEF IInv
<1>2. QED
  BY <1>1, TerminalInvariance, PTL

(* keyboard_getch loses keys, but never delivers one twice or two in the   *)
(* wrong order.                                                            *)
THEOREM KeysInOrder == Spec => []NoKeyTwice
<1>1. IInv => NoKeyTwice
  BY DEF IInv, Mailbox, NoKeyTwice
<1>2. QED
  BY <1>1, TerminalInvariance, PTL
-----------------------------------------------------------------------------
(* What is seen of the line, while the keys follow.  As fgets polls, the   *)
(* key it has not used yet is echoed already.                              *)
Seen(n) == \A j \in 0 .. (n - 1) : screen[cursor.y][home + j] = dest[j]
Unread == IF pc \in {"clear", "use"} THEN temp.ch ELSE curr_ch.ch

EchoedNone == cursor.x = home + i /\ Seen(i) /\ line_len > i
EchoedBack ==
  i > 0 /\ cursor.x = home + i - 1 /\ Seen(i - 1) /\ line_len >= i
EchoedChar(c) ==
  /\ c \notin Control /\ line_len > i + 1
  /\ cursor.x = home + i + 1 /\ Seen(i)
  /\ screen[cursor.y][home + i] = c

Echoed(c) ==
  \/ c = Nul /\ EchoedNone
  \/ c = "bs" /\ EchoedBack
  \/ c = "nl"
  \/ EchoedChar(c)

AsTyped ==
  /\ pc \in {"first", "discard"} => i = 0 /\ cursor.x = home /\ line_len > 0
  /\ pc \in Polling => i >= 0 /\ Echoed(Unread)
  /\ pc = "clear" => curr_ch = temp
  /\ pc = "use" => curr_ch.ch = Nul

(* The strengthened invariant.                                             *)
EInv == IInv /\ (followed => AsTyped)

(* Where putc puts a character that stays in its row, and what it changes. *)
LEMMA Plain ==
  ASSUME NEW c \in Char \ Control, NEW p \in [x : Column, y : Row],
         p.x + 1 < SCREEN_WIDTH
  PROVE  After(c, p) = [x |-> p.x + 1, y |-> p.y]
<1>1. ~Erases(c, p) /\ c # "tab" /\ c # "nl"
  BY DEF Erases, Control
<1>2. Moved(c, p) = [p EXCEPT !.x = @ + 1]
  BY <1>1, Zenon DEF Moved
<1>3. [p EXCEPT !.x = @ + 1] = [x |-> p.x + 1, y |-> p.y]
  OBVIOUS
<1>4. ~(p.x + 1 >= SCREEN_WIDTH)
  BY TerminalAssumption DEF Column
<1>5. QED
  BY <1>2, <1>3, <1>4 DEF After, Wrapped

LEMMA Backspace ==
  ASSUME NEW p \in [x : Column, y : Row], p.x > 0
  PROVE  After("bs", p) = [x |-> p.x - 1, y |-> p.y]
<1>1. Erases("bs", p) /\ "bs" # "tab" /\ "bs" # "nl" /\ "bs" \in Control
  BY DEF Erases, Control
<1>2. Moved("bs", p) = [p EXCEPT !.x = @ - 1]
  BY <1>1, Zenon DEF Moved
<1>3. [p EXCEPT !.x = @ - 1] = [x |-> p.x - 1, y |-> p.y]
  OBVIOUS
<1>4. ~(p.x - 1 >= SCREEN_WIDTH)
  BY TerminalAssumption DEF Column
<1>5. QED
  BY <1>2, <1>3, <1>4 DEF After, Wrapped

LEMMA NothingSent ==
  ASSUME NEW p \in [x : Column, y : Row]
  PROVE  After(Nul, p) = p
<1>1. ~Erases(Nul, p) /\ Nul # "tab" /\ Nul # "nl" /\ Nul \in Control
  BY DEF Erases, Nul, Control
<1>2. Moved(Nul, p) = p
  BY <1>1, Zenon DEF Moved
<1>3. ~(p.x >= SCREEN_WIDTH)
  BY TerminalAssumption DEF Column
<1>4. QED
  BY <1>2, <1>3 DEF After, Wrapped

(* On a row of the screen nothing scrolls.                                 *)
LEMMA Still ==
  ASSUME NEW p, p.y \in Row, NEW s
  PROVE  Up(p) = p /\ Scrolled(s, p) = s
<1>1. ~Below(p)
  BY TerminalAssumption DEF Below, Row
<1>2. QED
  BY <1>1 DEF Up, Scrolled

LEMMA InitTyped == Init => EInv
BY InitInv DEF Init, EInv

LEMMA ModifyTyped ==
  ASSUME EInv, AsTyped, NEW k \in Key, Modify(k),
         UNCHANGED <<line, home, pc, out, curr, temp>>
  PROVE  AsTyped'
BY DEF Modify, AsTyped, display, line, Echoed, EchoedNone, EchoedBack, EchoedChar,
   Seen, Unread, Polling

(* What the handler makes of a key that follows, unless it is a modifier.  *)
LEMMA Follower ==
  ASSUME NEW k \in Key \ Modifier, Follows(k), TypeOK
  PROVE  LET c == Translated(k) IN
         /\ c \in {Nul, "bs", "nl"} \cup (Char \ Control)
         /\ c = "bs" => k = "bs"
         /\ k = "nl" => c = "nl"
         /\ k = "bs" => c \in {"bs", Nul}
         /\ k = Nul => c = Nul
<1> DEFINE c == Translated(k)
<1>1. k \in Ascii /\ c \in Char
  BY TerminalAssumption, TranslatedChar DEF Modifier
<1>2. c \notin {"esc", "tab"} /\ (k = "nl" => ~is_shift)
  BY DEF Follows
<1>3. CASE k \in Lower
  <2>1. Upper[k] \in {"A", "B"} /\ k \in {"a", "b"}
    BY <1>3 DEF Upper, Lower
  <2>2. c = Upper[k] \/ c = k
    BY <1>3 DEF Translated
  <2>3. QED
    BY <1>1, <2>1, <2>2 DEF Control, Nul
<1>4. CASE k \notin Lower
  <2>1. k \in {"1", "2", Blank, "nl", "bs", "tab", "esc", Nul}
    BY <1>1, <1>4 DEF Ascii, Symbol, Control
  <2>2. c = IF is_shift THEN Symbol[k] ELSE k
    BY <1>4 DEF Translated
  <2>3. Symbol[k] \in {"!", "@", Nul} /\ (k \notin {"1", "2"} => Symbol[k] = Nul)
    BY <2>1 DEF Symbol, Control
  <2>4. QED
    BY <1>1, <1>2, <2>1, <2>2, <2>3 DEF Control, Nul, Blank
<1>5. QED
  BY <1>3, <1>4

(* The echo of a key that follows: the last one has been used.             *)
LEMMA TypeTyped ==
  ASSUME EInv, AsTyped, NEW k \in Key \ Modifier, Follows(k), Type(k),
         UNCHANGED <<line, home, pc, out, curr, temp>>
  PROVE  AsTyped'
<1> USE TerminalAssumption
<1>0. PICK c : c = Translated(k)
  OBVIOUS
<1> DEFINE p == After(c, cursor)
<1>1. /\ pc \in {"poll", "sleep"} /\ curr_ch.ch = Nul
      /\ c = "bs" => i > 0
      /\ c \notin Control => cursor.x + 1 < SCREEN_WIDTH
      /\ IInv
  BY <1>0 DEF Follows, EInv
<1>2. EchoedNone /\ i >= 0
  BY <1>1 DEF AsTyped, Polling, Unread, Echoed, EchoedChar, Control, Nul
<1>3. i \in Nat /\ i < N /\ line_len \in Nat /\ home \in Nat /\ line_len > i
  BY <1>1, <1>2 DEF IInv, TypeOK, Bounds, Polling, EchoedNone
<1>4. /\ cursor \in [x : Column, y : Row] /\ cursor.x = home + i
      /\ screen \in [Row -> [Column -> Char]] /\ cursor.y \in Row
  BY <1>1, <1>2, CursorBounds DEF IInv, TypeOK, OnScreen, EchoedNone
<1>5. /\ c \in {Nul, "bs", "nl"} \cup (Char \ Control)
      /\ c = "bs" => k = "bs"
      /\ k = "nl" => c = "nl"
      /\ k = "bs" => c \in {"bs", Nul}
      /\ k = Nul => c = Nul
  BY <1>0, <1>1, Follower DEF IInv
<1>6. /\ line_len' = LineLen(k)
      /\ curr_ch'.ch = c
      /\ line_len' > 0 =>
           /\ screen' = Scrolled(Drawn(screen, c, cursor), p)
           /\ cursor' = Up(p)
      /\ i' = i /\ dest' = dest /\ pc' = pc /\ temp' = temp /\ home' = home
  BY <1>0 DEF Type, line
<1> HIDE DEF p
<1>7. Echoed(c)'
  <2>1. CASE c = Nul
    <3>1. line_len' \in Nat /\ line_len' >= line_len /\ line_len' > 0
      BY <1>0, <1>3, <1>5, <1>6, <2>1 DEF LineLen, Nul
    <3>2. p = cursor /\ Drawn(screen, c, cursor) = screen
      BY <1>4, <2>1, NothingSent DEF p, Drawn, Erases, Control, Nul
    <3>3. cursor' = cursor /\ screen' = screen
      <4>1. Up(cursor) = cursor /\ Scrolled(screen, cursor) = screen
        BY <1>4, Still
      <4>2. QED
        BY <1>6, <3>1, <3>2, <4>1
    <3>4. EchoedNone'
      <4>1. Seen(i)'
        BY <1>2, <1>6, <3>3 DEF EchoedNone, Seen
      <4>2. line_len' > i
        BY <1>3, <3>1
      <4>3. QED
        BY <1>2, <1>6, <3>3, <4>1, <4>2 DEF EchoedNone, Seen
    <3>5. QED
      BY <2>1, <3>4 DEF Echoed
  <2>2. CASE c = "bs"
    <3>1. i > 0 /\ line_len' = line_len - 1 /\ line_len' > 0
      BY <1>0, <1>1, <1>3, <1>5, <1>6, <2>2 DEF LineLen, LessOne
    <3>2. p = [x |-> cursor.x - 1, y |-> cursor.y]
      BY <1>3, <1>4, <2>2, <3>1, Backspace DEF p
    <3>3. Drawn(screen, c, cursor)
            = [screen EXCEPT ![cursor.y][cursor.x - 1] = Blank]
      BY <1>3, <1>4, <2>2, <3>1 DEF Drawn, Erases
    <3>4. cursor' = p /\ screen' = [screen EXCEPT ![cursor.y][cursor.x - 1] = Blank]
      <4>1. p.y \in Row /\ line_len' > 0
        BY <1>3, <1>4, <3>1, <3>2
      <4>2. Up(p) = p /\ Scrolled(Drawn(screen, c, cursor), p) = Drawn(screen, c, cursor)
        BY <4>1, Still
      <4>3. QED
        BY <1>6, <3>3, <4>1, <4>2
    <3>5. \A j \in 0 .. (i - 2) : screen'[cursor.y][home + j] = screen[cursor.y][home + j]
      <4>1. ASSUME NEW j \in 0 .. (i - 2)
            PROVE  home + j \in Column /\ home + j # cursor.x - 1
        BY <1>3, <1>4 DEF Column
      <4>2. QED
        BY <1>4, <3>4, <4>1
    <3>6. EchoedBack'
      BY <1>2, <1>3, <1>4, <1>6, <3>1, <3>2, <3>4, <3>5
         DEF EchoedBack, EchoedNone, Seen
    <3>7. QED
      BY <2>2, <3>6 DEF Echoed
  <2>3. CASE c = "nl"
    BY <2>3 DEF Echoed
  <2>4. CASE c \in Char \ Control
    <3>1. line_len' = line_len + 1 /\ line_len' > i + 1
      BY <1>0, <1>3, <1>5, <1>6, <2>4 DEF LineLen, Control, Nul
    <3>2. p = [x |-> cursor.x + 1, y |-> cursor.y]
      BY <1>1, <1>4, <2>4, Plain DEF p
    <3>3. Drawn(screen, c, cursor) = [screen EXCEPT ![cursor.y][cursor.x] = c]
      BY <2>4 DEF Drawn, Erases, Control
    <3>4. cursor' = p /\ screen' = [screen EXCEPT ![cursor.y][cursor.x] = c]
      <4>1. p.y \in Row /\ line_len' > 0
        BY <1>3, <1>4, <3>1, <3>2
      <4>2. Up(p) = p /\ Scrolled(Drawn(screen, c, cursor), p) = Drawn(screen, c, cursor)
        BY <4>1, Still
      <4>3. QED
        BY <1>6, <3>3, <4>1, <4>2
    <3>5. /\ screen'[cursor.y][home + i] = c
          /\ \A j \in 0 .. (i - 1) :
               screen'[cursor.y][home + j] = screen[cursor.y][home + j]
      <4>1. home + i \in Column /\ cursor.x = home + i
        BY <1>4
      <4>2. ASSUME NEW j \in 0 .. (i - 1)
            PROVE  home + j \in Column /\ home + j # home + i
        BY <1>3, <1>4 DEF Column
      <4>3. QED
        BY <1>4, <3>4, <4>1, <4>2
    <3>6. cursor'.x = home + i + 1 /\ cursor'.y = cursor.y
      BY <1>4, <3>2, <3>4
    <3>7. Seen(i)'
      BY <1>2, <1>6, <3>5, <3>6 DEF EchoedNone, Seen
    <3>8. EchoedChar(c)'
      BY <1>6, <2>4, <3>1, <3>5, <3>6, <3>7 DEF EchoedChar
    <3>9. QED
      BY <3>8 DEF Echoed
  <2>5. QED
    BY <1>5, <2>1, <2>2, <2>3, <2>4
<1>8. Unread' = c /\ pc' \in {"poll", "sleep"}
  BY <1>1, <1>6 DEF Unread
<1>9. Echoed(Unread)'
  BY <1>7, <1>8 DEF Echoed, EchoedNone, EchoedBack, EchoedChar, Seen
<1>10. QED
  BY <1>2, <1>6, <1>8, <1>9 DEF AsTyped, Polling

(* fgets uses the key that is on the screen.                               *)
LEMMA UseTyped ==
  ASSUME EInv, AsTyped, Use
  PROVE  AsTyped'
<1> USE TerminalAssumption DEF Use
<1>1. IInv /\ temp.ch # Nul /\ pc = "use"
  BY DEF EInv
<1>2. /\ i \in Nat /\ i < N /\ i \in Cell /\ dest \in [Cell -> Char]
      /\ line_len \in Nat /\ home \in Nat
  <2>1. i >= 0 /\ i \in Int /\ i < N
    BY <1>1 DEF AsTyped, IInv, TypeOK, Bounds, Polling
  <2>2. QED
    BY <1>1, <2>1 DEF IInv, TypeOK, Cell
<1>3. Echoed(temp.ch) /\ curr_ch.ch = Nul
  BY <1>1 DEF AsTyped, Polling, Unread
<1>4. /\ curr_ch' = curr_ch /\ cursor' = cursor /\ screen' = screen
      /\ line_len' = line_len /\ home' = home
      /\ pc' = (IF Again(i') THEN "poll" ELSE "line")
  BY DEF keyboard, display, read
<1>5. CASE pc' = "line"
  BY <1>5 DEF AsTyped, Polling
<1>6. CASE pc' = "poll"
  <2>1. temp.ch # "nl" /\ Unread' = Nul
    BY <1>3, <1>4, <1>6 DEF Again, Unread
  <2>2. i' >= 0 /\ EchoedNone'
    <3>1. CASE temp.ch = "bs"
      <4>1. EchoedBack
        BY <1>3, <3>1 DEF Echoed, EchoedChar, Control, Nul
      <4>2. i' = i - 1 /\ dest' = dest
        BY <1>2, <3>1
      <4>3. QED
        BY <1>2, <1>4, <4>1, <4>2 DEF EchoedBack, EchoedNone, Seen
    <3>2. CASE temp.ch # "bs"
      <4>1. EchoedChar(temp.ch)
        BY <1>1, <1>3, <2>1, <3>2 DEF Echoed
      <4>2. i' = i + 1 /\ dest' = [dest EXCEPT ![i] = temp.ch]
        BY <3>2
      <4>3. ASSUME NEW j \in 0 .. (i' - 1)
            PROVE  screen[cursor.y][home + j] = dest'[j]
        <5>1. CASE j = i
          BY <1>2, <4>1, <4>2, <5>1 DEF EchoedChar
        <5>2. CASE j # i
          <6>1. j \in 0 .. (i - 1) /\ j \in Cell
            BY <1>2, <4>2, <5>2 DEF Cell
          <6>2. QED
            BY <1>2, <4>1, <4>2, <5>2, <6>1 DEF EchoedChar, Seen
        <5>3. QED
          BY <5>1, <5>2
      <4>4. (\A j \in 0 .. (i' - 1) : screen'[cursor'.y][home' + j] = dest'[j])
        BY <1>4, <4>3
      <4>5. cursor'.x = home' + i' /\ line_len' > i' /\ i' >= 0
        BY <1>2, <1>4, <4>1, <4>2 DEF EchoedChar
      <4>6. QED
        BY <4>4, <4>5 DEF EchoedNone, Seen
    <3>3. QED
      BY <3>1, <3>2
  <2>3. Echoed(Unread)'
    BY <2>1, <2>2 DEF Echoed
  <2>4. QED
    BY <1>6, <2>2, <2>3 DEF AsTyped
<1>7. QED
  BY <1>4, <1>5, <1>6

LEMMA MainTyped ==
  ASSUME EInv, followed => AsTyped, Main, followed'
  PROVE  AsTyped'
<1>1. IInv
  BY DEF EInv
<1>2. CASE PutGet \/ PutDraw \/ PutScroll \/ PutSet \/ Execute
  BY <1>2 DEF PutGet, PutDraw, PutScroll, PutSet, Execute, AsTyped, Polling
<1>3. CASE Start
  BY <1>3 DEF Start, AsTyped, keyboard, display, Polling
<1>4. ASSUME Read \/ Clear \/ Use \/ Doze \/ Tick PROVE AsTyped
  BY <1>4 DEF Read, Clear, Use, Doze, Tick, read
<1>5. CASE Read
  <2>1. pc = "poll" => Unread' = Unread
    BY <1>5 DEF Read, Unread
  <2>2. pc = "poll" => Echoed(Unread)'
    BY <1>4, <1>5, <2>1 DEF Read, AsTyped, Polling, Echoed, EchoedNone,
       EchoedBack, EchoedChar, Seen, display, line, read, keyboard
  <2>3. QED
    BY <1>4, <1>5, <2>2 DEF Read, AsTyped, keyboard, display, line, read, Polling
<1>6. CASE Clear
  <2>1. curr_ch'.ch = Nul
    BY <1>6 DEF Clear, Taken, None
  <2>2. CASE pc = "clear"
    <3>1. Unread' = Unread
      BY <1>6, <2>2 DEF Clear, Unread
    <3>2. Echoed(Unread)'
      BY <1>4, <1>6, <2>2, <3>1 DEF Clear, AsTyped, Polling, Echoed, EchoedNone,
         EchoedBack, EchoedChar, Seen, display, line, read, keyboard
    <3>3. QED
      BY <1>4, <1>6, <2>1, <2>2, <3>2
         DEF Clear, AsTyped, keyboard, display, line, read, Polling
  <2>3. CASE pc = "discard"
    <3>1. Unread' = Nul /\ EchoedNone'
      BY <1>1, <1>4, <1>6, <2>1, <2>3 DEF Clear, Unread, AsTyped, EchoedNone, Seen,
         keyboard, display, line, read, IInv, TypeOK
    <3>2. QED
      BY <1>4, <1>6, <2>1, <2>3, <3>1
         DEF Clear, AsTyped, keyboard, display, line, read, Polling, Echoed
  <2>4. QED
    BY <1>6, <2>2, <2>3 DEF Clear
<1>7. CASE Use
  BY <1>4, <1>7, UseTyped
<1>8. CASE Doze \/ Tick
  <2>1. Unread' = Unread
    BY <1>4, <1>8 DEF Doze, Tick, Unread, AsTyped
  <2>2. Echoed(Unread)'
    BY <1>4, <1>8, <2>1 DEF Doze, Tick, AsTyped, Polling, Echoed, EchoedNone,
       EchoedBack, EchoedChar, Seen, display, line, read, keyboard
  <2>3. QED
    BY <1>4, <1>8, <2>2 DEF Doze, Tick, AsTyped, keyboard, line, Polling
<1>9. QED
  BY <1>2, <1>3, <1>5, <1>6, <1>7, <1>8 DEF Main

LEMMA NextTyped == EInv /\ [Next]_vars => EInv'
<1> SUFFICES ASSUME EInv, [Next]_vars, followed' PROVE AsTyped'
  BY NextInv DEF EInv
<1>1. followed => AsTyped
  BY DEF EInv
<1>2. CASE Main
  BY <1>1, <1>2, MainTyped
<1>3. ASSUME NEW k \in Key, Press(k) PROVE AsTyped'
  <2>1. AsTyped /\ Follows(k) /\ UNCHANGED <<line, home, pc, out, curr, temp>>
    BY <1>1, <1>3 DEF Press
  <2>2. CASE k \in Modifier
    BY <1>3, <2>1, <2>2, ModifyTyped DEF Press
  <2>3. CASE k \notin Modifier
    BY <1>3, <2>1, <2>3, TypeTyped DEF Press
  <2>4. QED
    BY <2>2, <2>3
<1>4. CASE UNCHANGED vars
  BY <1>1, <1>4 DEF vars, keyboard, display, line, read, AsTyped,
     Echoed, EchoedNone, EchoedBack, EchoedChar, Seen, Unread
<1>5. QED
  BY <1>2, <1>3, <1>4 DEF Next

(* The echo, which the keyboard handler prints, and the line, which fgets  *)
(* takes out of curr_ch, agree for any screen, buffer and prompt, from the *)
(* beginning of a line to the first key that does not follow.              *)
THEOREM LineStaysShown == Spec => []LineShown
<1>1. EInv => LineShown
  BY DEF LineShown, EInv, AsTyped, Polling, Unread, Echoed, EchoedNone, EchoedBack,
     EchoedChar, Control, Nul, Seen
<1>2. QED
  BY InitTyped, NextTyped, <1>1, PTL DEF Spec
=============================================================================
