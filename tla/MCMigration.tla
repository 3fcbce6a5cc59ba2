---------------------------- MODULE MCMigration ----------------------------
EXTENDS Migration

(* Every CPU has a cache of its own.                                       *)
Apart == [c \in CPUs |-> c]
=============================================================================
