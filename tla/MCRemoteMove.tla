------------------------------ MODULE MCRemoteMove ------------------------------
(* Two files, so that a sweep can stop between them.                         *)
EXTENDS RemoteMove

CONSTANTS mv, pn

===============================================================================
