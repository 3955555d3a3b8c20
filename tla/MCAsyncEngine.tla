--------------------------- MODULE MCAsyncEngine ---------------------------
EXTENDS AsyncEngine

CONSTANTS c1, c2, a, b

\* Two clients with ids of their own.
MCIdsApart == c1 :> a @@ c2 :> b
=============================================================================
