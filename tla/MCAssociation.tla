----------------------------- MODULE MCAssociation -----------------------------
(***************************************************************************)
(* Small instances of Association.                                         *)
(***************************************************************************)
EXTENDS Association

\* Every authentication, with the right and with a wrong secret.  A data link
\* and an application that skips the facade are added to one mode at a time.
EveryMode ==
  {m \in AllModes :
     /\ m.dataLink => m.auth = "LowPassword" /\ m.genuine
     /\ m.direct => m.auth \in {"HighPassword", "HighGmac"}}

GmacModes == {m \in AllModes : m.auth = "HighGmac" /\ m.genuine /\ ~m.dataLink /\ ~m.direct}

=============================================================================
