--------------------------- MODULE MCPublicRecord ---------------------------
(* A record of three decisions with room for one refusal to be put back.    *)
EXTENDS PublicRecord
=============================================================================
