------------------------------ MODULE MCMoveFlow ------------------------------
(* Two local file systems and a remote one; the same name stands for         *)
(* different content on the local ones, and the remote one is empty.         *)
EXTENDS MoveFlow

CONSTANTS disc, usb, net, dir, a, b, x, y, z, f1, f2

Place(fs) == [fs |-> fs, dir |-> dir]

MCEntries == [p \in Places |->
    CASE p = Place(disc) -> [n \in {<<a>>, <<b>>} |-> IF n = <<a>> THEN x ELSE z]
      [] p = Place(usb)  -> [n \in {<<a>>} |-> y]
      [] p = Place(net)  -> <<>>]

MCStart == [s \in Sides |-> IF s = "left" THEN Place(disc) ELSE Place(net)]

Symmetric == Permutations(Flows)

===============================================================================
