----------------------------- MODULE MCFsWatch ------------------------------
(* The watcher and its debouncer on a small instance.                        *)
EXTENDS FsWatch

CONSTANTS a, b, r1
=============================================================================
