----------------------------- MODULE MCSqlStore -----------------------------
(* Instances of SqlStore for TLC. *)
EXTENDS SqlStore

\* One store thread with and without inotify, and two that share the queries.
MCSetups == {[inotify |-> i, threads |-> n] :
                <<i, n>> \in {<<TRUE, 1>>, <<FALSE, 1>>, <<FALSE, 2>>}}
=============================================================================
