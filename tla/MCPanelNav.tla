------------------------------ MODULE MCPanelNav ------------------------------
(* A folder, an archive that may lie in it or hold one, and two levels below *)
(* the root: every order of folders and archives on a path.                  *)
EXTENDS PanelNav, TLC

CONSTANTS local, remote, drives, a, z, t1, t2

Symmetric == Permutations(Tasks)

===============================================================================
