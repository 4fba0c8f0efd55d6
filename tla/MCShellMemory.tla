--------------------------- MODULE MCShellMemory ---------------------------
(* Lines of eighteen kinds, in a heap that starts at address 0, large      *)
(* enough for them and for what stray NULs cut off.                        *)
EXTENDS ShellMemory

MCMmapAddr == 0
MCMmapLen == 4000
MCHeaderSize == 24

SetLine(n, size, text, exp) ==
  [command |-> "set", is |-> n, argc |-> 3, name |-> size, text |-> text, rest |-> 0, exp |-> exp]
PathLine(c, size, found) ==
  [command |-> c, argc |-> 2, path |-> size, rest |-> 0, found |-> found, outside |-> FALSE,
   content |-> 41, beyond |-> 0]

(* The last argument is empty: of an earlier, longer line seven characters *)
(* are left behind it.                                                     *)
Stale(l) == [l EXCEPT !.rest = 7]

MCLines ==
  {SetLine("a", 2, 2, TRUE), SetLine("a", 2, 9, FALSE),
   SetLine("b", 2, 2, TRUE), SetLine("b", 2, 90, FALSE),
   PathLine("touch", 5, TRUE), PathLine("mkdir", 5, FALSE), PathLine("cat", 5, TRUE),
   PathLine("cat", 9, FALSE), PathLine("ls", 2, TRUE), PathLine("ls", 0, TRUE),
   PathLine("edit", 5, FALSE), PathLine("edit", 5, TRUE),
   SetLine("b", 2, 1, FALSE), Stale(SetLine("b", 2, 1, FALSE)),
   Stale(PathLine("cd", 4, TRUE)), [PathLine("touch", 5, TRUE) EXCEPT !.outside = TRUE],
   [PathLine("cat", 5, TRUE) EXCEPT !.content = 1, !.beyond = 3],
   [command |-> "echo", argc |-> 2]}

(* A path that does not exist is never freed.                              *)
MCLeaky == {PathLine("touch", 5, FALSE)}

MCRequests == {0, 1, 2, 4, 5, 6, 9, 16, 24, 32, 41, 90}
=============================================================================
