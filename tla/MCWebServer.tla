------------------------------ MODULE MCWebServer ------------------------------
(* Two secrets, so that one can be legacy while the other is sealed, and two *)
(* passwords, so that one can replace the other; two programs that share a   *)
(* configuration; two panels, with two entries on one of two file systems.   *)
EXTENDS WebServer

CONSTANTS desktop, web, s1, s2, client, here, there, top, m, n, x, y

MCTree ==
    [f \in Files |-> IF f[1] = here THEN (IF f[2][2] = m THEN x ELSE y) ELSE none]
MCStand == [s \in Panels |-> <<IF s = "left" THEN here ELSE there, top>>]

===============================================================================
