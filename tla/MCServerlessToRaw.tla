-------------------------- MODULE MCServerlessToRaw --------------------------
(* Instances of ServerlessToRaw for TLC.                                    *)
EXTENDS ServerlessToRaw, TLC

CONSTANTS s1, s2
=============================================================================
