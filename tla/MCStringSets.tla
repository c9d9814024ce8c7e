------------------------------ MODULE MCStringSets ------------------------------
(* A small instance of StringSets: three strings, two sets and a tree.      *)
EXTENDS StringSets, TLC

CONSTANTS s1, s2, s3, payloads, tokens

MCString == { s1, s2, s3 }
MCSet    == { payloads, tokens }
=============================================================================
