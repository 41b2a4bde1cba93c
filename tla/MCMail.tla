-------------------------------- MODULE MCMail --------------------------------
(* Instances of Mail for TLC.                                                 *)
EXTENDS Mail, TLC

CONSTANTS invite, reset
===============================================================================
