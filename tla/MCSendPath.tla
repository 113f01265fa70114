----------------------------- MODULE MCSendPath -----------------------------
(***************************************************************************)
(* Four writes on a socket that takes up to three bytes at a time.        *)
(***************************************************************************)
EXTENDS SendPath

MCShapes == <<[vec |-> FALSE, parts |-> <<2>>], [vec |-> FALSE, parts |-> <<1>>],
              [vec |-> TRUE, parts |-> <<1, 2>>], [vec |-> TRUE, parts |-> <<1, 1>>]>>
=============================================================================
