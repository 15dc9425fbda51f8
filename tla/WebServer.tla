------------------------------- MODULE WebServer -------------------------------
(***************************************************************************)
(* What the web server does besides its terminals: the secrets and the     *)
(* configuration, which it shares with the desktop and the console, and    *)
(* the commands of its clients on the panels.  The three run in one        *)
(* program and touch nothing of one another's, so that an interleaving of  *)
(* them shows nothing that each does not show: a behaviour here is one of  *)
(* any of them, with the others at rest.                                   *)
(***************************************************************************)
EXTENDS SecretStore, SharedConfig, PanelApi

VARIABLE part       \* whose behaviour it is

serverVars == <<part, vars, configVars, apiVars>>

Parts == {"secrets", "config", "panels"}

\* Where the secrets are at rest, nothing was ever stored.
ServerInit ==
    /\ part \in Parts
    /\ Init /\ ConfigInit /\ ApiInit
    /\ part # "secrets" => salt = 0

ServerNext ==
    /\ UNCHANGED part
    /\ \/ part = "secrets" /\ Next /\ UNCHANGED <<configVars, apiVars>>
       \/ part = "config" /\ ConfigNext /\ UNCHANGED <<vars, apiVars>>
       \/ part = "panels" /\ ApiNext /\ UNCHANGED <<vars, configVars>>

ServerSpec == ServerInit /\ [][ServerNext]_serverVars

ServerTypeOK == TypeOK /\ ConfigTypeOK /\ ApiTypeOK

===============================================================================
