------------------------------ MODULE MCKHeap ------------------------------
(* Instances of KHeap.  The unit of size is a pointer.                     *)
EXTENDS KHeap

SmallSizes == {2, 3, 8}
MCNums == {8}
MCTypeSizes == {2, 8}
=============================================================================
