----------------------------- MODULE MCFilePath -----------------------------
(* URLs of up to four characters for a buffer of four.                       *)
EXTENDS FilePath

CONSTANTS a, b
MCChars == {a, b}
=============================================================================
