----------------------------- MODULE MCCleaner -----------------------------
(* Cleaner with two applications and one directory name in another case.   *)
EXTENDS Cleaner

MCName == {"ann", "bob", "Bob"}
MCLower == [n \in MCName |-> IF n = "Bob" THEN "bob" ELSE n]
=============================================================================
