------------------------------ MODULE MCKbSync ------------------------------
EXTENDS KbSync, TLC

CONSTANTS d1, d2, c1, c2

\* The second version of the first document has a chunk more, the one of the second.
MCOwnTexts == d1 :> {{c1}, {c1, c2}} @@ d2 :> {{c2}}
=============================================================================
