---------------------------- MODULE MCWebServer ----------------------------
(* Three browsers: a GET of a file of two full blocks and a bit, a GET of  *)
(* a file that cannot be opened, and another method.  (POST is what a line *)
(* never sent may be taken for.)  Two connections fit the queue, so the    *)
(* third has to wait for main.                                             *)
EXTENDS WebServer

CONSTANTS get, miss, other

MCMethod == [c \in Clients |-> IF c = other THEN "OTHER" ELSE "GET"]
MCBlocks == [c \in Clients |-> IF c = get THEN 2 ELSE Missing]
=============================================================================
