---------------------------- MODULE MCThreadPool ----------------------------
(* ThreadPool with more descriptors than workers, so that connections must  *)
(* queue behind busy workers and descriptor numbers are reused.             *)
EXTENDS ThreadPool

=============================================================================
