----------------------------- MODULE MCRegistry -----------------------------
EXTENDS Registry

\* The second name is a prefix of the third.
MCName == {<<1>>, <<2>>, <<2, 3>>}
MCBuiltinName == <<7, 7>>
MCBuiltinIds == <<1, 2>>
=============================================================================
