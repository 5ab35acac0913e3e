---------------------------- MODULE MCCrossCall ----------------------------
(***************************************************************************)
(* Small instances of CrossCall.  Symbol 9 stands for text that is no part *)
(* of any source.  The two sources share the symbols 3 and 4.              *)
(***************************************************************************)
EXTENDS CrossCall

MCText == [id \in Ids |-> IF id = "long" THEN <<1, 2, 3, 4>> ELSE <<3, 4, 5>>]

Plain(t) == [raw |-> t, decoded |-> <<>>, values |-> t, inner |-> <<>>]
\* Two key=value fields: the values follow each other in the extracted text.
Fields(t, u) ==
  [raw |-> t \o <<9>> \o u, decoded |-> <<>>, values |-> t \o u, inner |-> <<>>]
\* Base64, hex or the like.
Encoded(t) == [raw |-> <<9>>, decoded |-> <<t>>, values |-> <<9>>, inner |-> <<t>>]

MCPayloads == {Fields(<<1>>, <<2>>), Plain(<<3>>), Plain(<<4>>), Plain(<<9>>), Encoded(<<2, 3, 4>>)}

MCSymmetry == Permutations(Dests)
=============================================================================
