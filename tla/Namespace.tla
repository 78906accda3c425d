------------------------------- MODULE Namespace -------------------------------
(***************************************************************************)
(* What the callers of a file system expect of its directories: names are  *)
(* bound to nodes one at a time, and each of making, removing and renaming *)
(* a node changes one binding and leaves every other alone.                *)
(***************************************************************************)
CONSTANTS Dirs, Names, Nodes

VARIABLE bindings       \* the triples <<directory, name, node>> in force

Bound(d, n) == \E x \in bindings : x[1] = d /\ x[2] = n
Listed(i)   == \E x \in bindings : x[3] = i

Create(d, n, i) == /\ ~Bound(d, n)
                   /\ ~Listed(i)
                   /\ bindings' = bindings \cup {<<d, n, i>>}

Remove(d, n, i) == /\ <<d, n, i>> \in bindings
                   /\ bindings' = bindings \ {<<d, n, i>>}

Rename(d, n, m, i) == /\ <<d, n, i>> \in bindings
                      /\ ~Bound(d, m)
                      /\ bindings' = (bindings \ {<<d, n, i>>}) \cup {<<d, m, i>>}

Next == \E d \in Dirs, n \in Names, i \in Nodes :
            \/ Create(d, n, i)
            \/ Remove(d, n, i)
            \/ \E m \in Names : Rename(d, n, m, i)

Init == bindings \subseteq Dirs \X Names \X Nodes
Spec == Init /\ [][Next]_bindings
================================================================================
