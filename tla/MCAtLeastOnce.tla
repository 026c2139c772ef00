--------------------------- MODULE MCAtLeastOnce ---------------------------
EXTENDS AtLeastOnce

FromBeginningOrOne == {Earliest, 1}
FromLatest == {Latest}
=============================================================================
