---------------------------- MODULE MCDartWorker ----------------------------
(* One worker process that may stop and boot again, a CLI invocation beside *)
(* it, two fetch-reports tasks, one companies task and one disclosure.      *)
EXTENDS DartWorker
=============================================================================
