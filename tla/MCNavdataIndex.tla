--------------------------- MODULE MCNavdataIndex ---------------------------
(* Two stations over one cache directory, with readers in the first.         *)
EXTENDS NavdataIndex

CONSTANTS s1, s2, r1

MCReader  == {r1}
MCHome    == [r \in MCReader |-> s1]
=============================================================================
