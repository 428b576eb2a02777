------------------------------ MODULE DocumentMap ------------------------------
(***************************************************************************)
(* What VectorDatabase promises the threads that share one: a dictionary   *)
(* from ids to documents, of which only the date is kept, that changes and *)
(* is queried in single steps.                                             *)
(***************************************************************************)
CONSTANTS Threads, Ids, Dates, None

VARIABLES docs,     \* the date of each document, None where there is none
          answer    \* what the last query of each thread answered

Init == docs = [i \in Ids |-> None] /\ answer = [t \in Threads |-> {}]

\* add_text, add_image, add_vector: an id not in use.
Put(i, d) == docs[i] = None /\ docs' = [docs EXCEPT ![i] = d] /\ UNCHANGED answer

Delete(i) == docs' = [docs EXCEPT ![i] = None] /\ UNCHANGED answer

\* update_metadata: the document must be there.
Change(i, d) == docs[i] # None /\ docs' = [docs EXCEPT ![i] = d] /\ UNCHANGED answer

\* query_vector with a date_filter.
Query(t, d) == /\ answer' = [answer EXCEPT ![t] = {i \in Ids : docs[i] = d}]
               /\ UNCHANGED docs

\* A new call of the thread: its last answer is forgotten.
Call(t) == answer' = [answer EXCEPT ![t] = {}] /\ UNCHANGED docs

Next == \/ \E i \in Ids : Delete(i) \/ \E d \in Dates : Put(i, d) \/ Change(i, d)
        \/ \E t \in Threads : Call(t) \/ \E d \in Dates : Query(t, d)

Spec == Init /\ [][Next]_<<docs, answer>>
================================================================================
