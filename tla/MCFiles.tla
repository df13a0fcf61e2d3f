------------------------------ MODULE MCFiles ------------------------------
EXTENDS Files

MCLogNames == {"access.log", "error.log"}
MCOtherNames == {"access.log.20160401120000"}
MCTexts == {<<"2", 2>>, <<"x", 0>>}
=============================================================================
