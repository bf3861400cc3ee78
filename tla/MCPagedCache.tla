---------------------------- MODULE MCPagedCache -----------------------------
(* Pools for the run of PagedCache. *)
EXTENDS PagedCache

\* Two rows in a page: reservations, and tensors born with rows of zeros that
\* no append has written.
Roomy == [maxPages |-> 3, pageSize |-> 2, initialPages |-> 2,
          growLengths |-> {0, 3}, reserves |-> {2}, maxPending |-> 3]

\* One row in a page, so that page tables outgrow their capacity twice.
Tight == [maxPages |-> 4, pageSize |-> 1, initialPages |-> 0,
          growLengths |-> {0}, reserves |-> {}, maxPending |-> 4]

MCDescs == {Roomy, Tight}
=============================================================================
