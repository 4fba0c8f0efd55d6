--------------------------- MODULE DirectoryTree ---------------------------
(***************************************************************************)
(* What the shell's file commands promise: a tree of named nodes that only *)
(* grows.  touch and mkdir add one node to the directory that their path   *)
(* names, under a name that is new there, or do nothing; cd moves to a     *)
(* node that its path names.  Nothing is ever renamed, moved or lost.      *)
(***************************************************************************)
EXTENDS SequencesExt

CONSTANTS Node, Name, Path, Null

VARIABLES
  kind,    \* of each node: "none" until it is created, "file" or "dir"
  child,   \* for each directory, name -> node, or Null
  root, cwd

vars == <<kind, child, root, cwd>>

Descend(d, n) == IF d # Null /\ kind[d] = "dir" THEN child[d][n] ELSE Null

(* The node that the directories of path p lead to, or Null.               *)
Resolve(p) ==
  LET start == IF p.abs THEN root ELSE cwd
      end == FoldLeft(Descend, start, p.via)
  IN IF p.via = <<>> \/ (end # Null /\ kind[end] = "dir") THEN end ELSE Null

(* There is a root, with one directory in it.                              *)
Init ==
  /\ cwd = root
  /\ kind[root] = "dir"
  /\ \E n \in Name, d \in Node \ {root} :
       /\ kind = [x \in Node |-> IF x \in {root, d} THEN "dir" ELSE "none"]
       /\ child = [x \in Node |-> [m \in Name |->
                    IF x = root /\ m = n THEN d ELSE Null]]

Create(p, k) ==
  \E d \in {Resolve(p)} \ {Null}, x \in Node :
    /\ kind[d] = "dir" /\ kind[x] = "none"
    /\ p.last \in Name /\ child[d][p.last] = Null
    /\ kind' = [kind EXCEPT ![x] = k]
    /\ child' = [child EXCEPT ![d][p.last] = x]
    /\ UNCHANGED <<root, cwd>>

Chdir(p) ==
  \E d \in {Resolve(p)} \ {Null} :
    /\ kind[d] = "dir"
    /\ p.last \in Name /\ child[d][p.last] # Null
    /\ cwd' = child[d][p.last]
    /\ UNCHANGED <<kind, child, root>>

Next ==
  \E p \in Path : Chdir(p) \/ \E k \in {"file", "dir"} : Create(p, k)

Spec == Init /\ [][Next]_vars
=============================================================================
