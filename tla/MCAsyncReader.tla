---------------------------- MODULE MCAsyncReader -----------------------------
(***************************************************************************)
(* Two calls over two parts: "a", of recorded length, with one row group   *)
(* outside its tail window and one inside, and "b", of unknown length.     *)
(***************************************************************************)
EXTENDS AsyncReader

MCParts == {"a", "b"}
MCGroups == {0, 1}
MCInTail == {<<"a", 1>>}
MCRequests ==
    {[items |-> {<<"a", 0>>, <<"b", 0>>}, concurrency |-> 1],
     [items |-> {<<"a", 0>>, <<"a", 1>>}, concurrency |-> 2]}
===============================================================================
