----------------------------- MODULE MCDbInit -----------------------------
(***************************************************************************)
(* A small instance of DbInit: two threads of a server and a second        *)
(* process that uses the same file.                                        *)
(***************************************************************************)
EXTENDS DbInit

CONSTANTS t1, t2, t3, server, stdio

McProcessOf == [t \in {t1, t2, t3} |-> IF t = t3 THEN stdio ELSE server]
=============================================================================
