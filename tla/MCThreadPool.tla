----------------------------- MODULE MCThreadPool -----------------------------
(***************************************************************************)
(* Instances of ThreadPool for TLC.                                        *)
(***************************************************************************)
EXTENDS ThreadPool

CONSTANTS p, q, j, k

\* A parallel_for p whose first chunk makes another, q; a task j that submits
\* a task k.
MCParent(c) == CASE c = q -> <<p, 1>> [] c = k -> <<j, 1>> [] OTHER -> Outside

\* A parallel_for p both chunks of which make another.
MCParentBoth(c) == CASE c = q -> <<p, 1>> [] c = k -> <<p, 2>> [] OTHER -> Outside

MCThrowsLast == {<<p, 2>>}
===============================================================================
