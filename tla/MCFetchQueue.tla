---------------------------- MODULE MCFetchQueue ----------------------------
(* A worker process and the one that replaces it, three fetch-reports tasks *)
(* and one companies task.                                                  *)
EXTENDS FetchQueue
=============================================================================
