--------------------------- MODULE MCSelectServer ---------------------------
(* Four clients, one of which says "q"; room for two of them (for three in  *)
(* SelectServerList.cfg).                                                  *)
EXTENDS SelectServer

CONSTANTS tom, ann, joe, quit
=============================================================================
