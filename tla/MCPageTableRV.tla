--------------------------- MODULE MCPageTableRV ---------------------------
(* Instances of PageTableRV: 64 pages, tables of four entries, twelve frames *)
(* of four bytes from page 17 on, of which eleven are in the RAM.            *)
EXTENDS PageTableRV


MCUserPages == {5, 40}
=============================================================================
