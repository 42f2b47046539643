------------------------------ MODULE MCUjHeap ------------------------------
(***************************************************************************)
(* A heap of 16 bytes behind its table with headers of two bytes: up to    *)
(* four chunks, three handles.  The requests are rounded to two and to     *)
(* four bytes; a fit that is one unit too large is not split, so waste,    *)
(* its reuse by a later free, and both merges occur.                       *)
(***************************************************************************)
EXTENDS UjHeap

MCRequests == {1, 4}

=============================================================================
