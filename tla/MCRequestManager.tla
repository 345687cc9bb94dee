-------------------------- MODULE MCRequestManager --------------------------
(* Small instances of RequestManager. *)
EXTENDS RequestManager

\* Every request may use every stream.
AnyStream == [r \in Requests |-> StreamIDs]

=============================================================================
