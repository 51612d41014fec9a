---------------------------- MODULE MCMd5Stream -----------------------------
(* Blocks of four bytes, a length of two, and a word that wraps after      *)
(* eight: nine bytes fill two blocks, wrap the count and leave one over.   *)
EXTENDS Md5Stream

TwoBytes == {1, 2}
=============================================================================
