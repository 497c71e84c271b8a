----------------------------- MODULE MCCrypto -----------------------------
(***************************************************************************)
(* What the README of the protected files says of a run of the tool,       *)
(* checked against the tool alone when one of its calls fails or comes     *)
(* short.                                                                  *)
(***************************************************************************)
EXTENDS CryptoFS

\* Runs of the tool, and no calls.
ToolSpec == Init /\ [][Tool]_vars

\* README.Captain: "Upon completion, the sticky bit is set accordingly and the file is
\* properly encrypted or decrypted."  Whenever no run is under way, and none has been cut
\* short, the file is as the bit says.
RunsProtect == clean /\ Calm => \A i \in DOMAIN file : file[i] = IF sticky THEN {i - 1} ELSE {}
=============================================================================
