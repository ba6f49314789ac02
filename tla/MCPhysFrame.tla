---------------------------- MODULE MCPhysFrame ----------------------------
(* Instances of PhysFrame: ten frames of four bytes, a kernel that ends  *)
(* in the middle of its second frame.  With BITMAP_BIT_SIZE = 1 the bitmap *)
(* takes sixteen bytes.                                                    *)
EXTENDS PhysFrame
=============================================================================
