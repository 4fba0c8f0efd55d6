------------------------------ MODULE MCFiles ------------------------------
(* Small devices: a few names, and paths of at most one directory.         *)
EXTENDS Files

MCPaths(dirs, names) ==
  [abs : BOOLEAN, via : {<<>>} \cup {<<n>> : n \in dirs}, last : names]

(* Two names besides "root", none of one letter.                           *)
MCNames == {"root", "ab", "cde"}
MCLengths == [n \in MCNames |-> CASE n = "root" -> 4 [] n = "ab" -> 2 [] n = "cde" -> 3]
MCNamePaths == MCPaths(MCNames, MCNames \cup {NoName})

(* One name besides "root".                                                *)
MCTwoNames == {"root", "ab"}
MCTwoLengths == [n \in MCTwoNames |-> IF n = "root" THEN 4 ELSE 2]
MCTwoPaths == MCPaths(MCTwoNames, MCTwoNames \cup {NoName})

(* One of one letter.                                                      *)
MCLetterNames == {"root", "a"}
MCLetterLengths == [n \in MCLetterNames |-> IF n = "root" THEN 4 ELSE 1]
MCLetterPaths == MCPaths(MCLetterNames, MCLetterNames)
=============================================================================
