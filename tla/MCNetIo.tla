------------------------------- MODULE MCNetIo -------------------------------
(* NetIo with connections, and users, that TLC may take for one another.     *)
EXTENDS NetIo

Interchangeable == Permutations(Ios) \cup Permutations(Users)
=============================================================================
