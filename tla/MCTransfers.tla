------------------------------ MODULE MCTransfers ------------------------------
(***************************************************************************)
(* By TFTP, files of two blocks, and of as many as there are block         *)
(* numbers, so that the last one's number starts again at 0; two requests  *)
(* heard by the server, and datagrams repeated at will.  By scp, files up to *)
(* and past the cap, an empty one, some with an ESC, a directory, and more *)
(* bytes than the input may have.                                          *)
(***************************************************************************)
EXTENDS Transfers

File(n) == [k |-> "C", size |-> n, esc |-> {}]
Other(k) == [k |-> k]

MCUploads == {<<File(2)>>, <<Other("T"), File(1), File(2)>>, <<File(0), File(1)>>,
              <<Other("D"), File(1), Other("E"), File(1)>>, <<File(2), File(2), File(1)>>,
              <<File(2), File(2)>>, <<[File(2) EXCEPT !.esc = {1}], File(1)>>,
              <<[File(3) EXCEPT !.esc = {1, 3}]>>}
=============================================================================
