---------------------------- MODULE MCMyMalloc -----------------------------
(* An instance of MyMalloc for TLC.  The last sizes overflow the short.    *)
EXTENDS MyMalloc

RequestSizes == {0, 3, 4, 8, 28, 60, 61, 64, 72}
=============================================================================
