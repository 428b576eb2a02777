--------------------------- MODULE PgvectorAdapter ---------------------------
(***************************************************************************)
(* PgvectorAdapter (src/adapters/pgvector_adapter.cpp), as built with      *)
(* libpq and without it: it connects when first needed, makes a table,     *)
(* inserts, searches and reads it.  The server, its table, whoever else    *)
(* writes to it and its restarts are external.                             *)
(*                                                                         *)
(* A row is its distance from what is searched for, None for one without a *)
(* vector.                                                                 *)
(***************************************************************************)
EXTENDS Integers, SequencesExt, FiniteSetsExt

CONSTANTS Distances,
          batch_size,
          Ks,        \* numbers of neighbours asked for
          MaxRows,   \* bounds: rows of the table, and restarts of the server
          MaxRestarts,
          None

VARIABLES libpq,       \* HAVE_LIBPQ
          server,      \* "up" or "down"
          extension,   \* pgvector is installed
          table,       \* its rows, None if there is no table
          sessions,    \* the server's sessions of this process
          connection_, \* None, "open", or "broken" by a restart
          leaked,      \* sessions whose adapters are gone
          answer,
          restarts

held == <<sessions, connection_, leaked>>
vars == <<libpq, server, extension, table, held, answer, restarts>>

Error == [kind |-> "error"]

Init == /\ libpq \in BOOLEAN /\ extension \in BOOLEAN
        /\ server = "up" /\ table = None /\ sessions = 0
        /\ connection_ = None /\ leaked = 0 /\ answer = Error /\ restarts = 0

------------------------------------------------------------------------------
(* The server's side.                                                      *)

Write == /\ server = "up"
         /\ IF table = None THEN extension /\ table' = <<>>
            ELSE /\ Len(table) < MaxRows
                 /\ \E d \in Distances : table' = Append(table, d)
         /\ answer' = Error
         /\ UNCHANGED <<libpq, server, extension, held, restarts>>

Stop == /\ server = "up" /\ restarts < MaxRestarts
        /\ server' = "down" /\ sessions' = 0 /\ leaked' = 0
        /\ connection_' = IF connection_ = "open" THEN "broken" ELSE connection_
        /\ restarts' = restarts + 1
        /\ UNCHANGED <<libpq, extension, table, answer>>

Start == server = "down" /\ server' = "up" /\ UNCHANGED <<libpq, extension, table, held, answer, restarts>>

------------------------------------------------------------------------------
(* connect: a connection that is there is not looked at, and one that does *)
(* not come about is finished.                                             *)

OpensAnew == libpq /\ server = "up"   \* mutant of Opens: also where there is one
Opens == connection_ = None /\ libpq /\ server = "up"

Connected == IF Opens THEN "open" ELSE connection_
Connecting == /\ connection_' = Connected
              /\ sessions' = IF Opens THEN sessions + 1 ELSE sessions
              /\ UNCHANGED leaked

Fails == answer' = Error
\* A statement reaches the server over the connection this operation has.
Reaches == Connected = "open"

Operation == Connecting /\ UNCHANGED <<libpq, server, extension, restarts>>

Connect == /\ Operation /\ UNCHANGED table
           /\ answer' = IF Connected = None THEN Error ELSE [kind |-> "connected"]

Disconnect == /\ libpq /\ connection_ # None
              /\ sessions' = sessions - (IF connection_ = "open" THEN 1 ELSE 0)
              /\ connection_' = None /\ Fails
              /\ UNCHANGED <<libpq, server, extension, table, leaked, restarts>>

\* The destructor is the default one.
Destroy == /\ connection_' = None
           /\ leaked' = leaked + (IF connection_ = "open" THEN 1 ELSE 0)
           /\ leaked' <= 2 /\ Fails
           /\ UNCHANGED <<libpq, server, extension, table, sessions, restarts>>

\* The type of the column is the extension's; whether the index comes about does
\* not matter.
CreateTable == /\ Operation
               /\ IF Reaches /\ (extension \/ table # None)
                  THEN table' = (IF table = None THEN <<>> ELSE table) /\ answer' = [kind |-> "created"]
                  ELSE Fails /\ UNCHANGED table

\* Every statement names a parameter $1 and is given none, so that the server
\* refuses it; what it refuses is not counted.
Accepted(statement) == ~statement.parameter
InsertVectors(rows) ==
    LET Statement(d) == [parameter |-> TRUE, row |-> d]
        stored == SelectSeq(rows, LAMBDA d : Reaches /\ table # None /\ Accepted(Statement(d)))
    IN  /\ Operation
        /\ IF Connected = None THEN Fails /\ UNCHANGED table
           ELSE /\ table' = IF table = None THEN table ELSE table \o stored
                /\ answer' = [kind |-> "inserted", count |-> Len(stored),
                              before |-> IF table = None THEN 0 ELSE Len(table)]

\* Rows without a vector come last; one that is among the answers has no distance
\* to be read, and the call throws.  With a threshold the statement has its WHERE
\* after its LIMIT, which the server refuses.
Key(row) == IF row = None THEN 1000 ELSE row
NearestFirst == SortSeq(table, LAMBDA x, y : Key(x) < Key(y))
FirstOf(rows, k) == SubSeq(rows, 1, Min({k, Len(rows)}))
Numbered(rows) == [n \in DOMAIN rows |-> [row |-> rows[n], index |-> n - 1, total |-> Len(rows)]]

QuerySimilar(k, threshold) ==
    /\ Operation /\ UNCHANGED table
    /\ IF Reaches /\ table # None /\ ~threshold /\ None \notin ToSet(FirstOf(NearestFirst, k))
       THEN answer' = [kind |-> "similar", chunks |-> Numbered(FirstOf(NearestFirst, k))]
       ELSE Fails

\* Without libpq, a chunk that says so.  The first batch is all that is read.
ParsedRows == Numbered(FirstOf(table, batch_size))
Parse == /\ Operation /\ UNCHANGED table
         /\ IF ~libpq THEN answer' = [kind |-> "parsed", chunks |-> Numbered(<<None>>)]
            ELSE IF Reaches /\ extension /\ table # None
                 THEN answer' = [kind |-> "parsed", chunks |-> ParsedRows]
                 ELSE Fails

Next == \/ Write \/ Stop \/ Start
        \/ Connect \/ Disconnect \/ Destroy \/ CreateTable \/ Parse
        \/ \E d \in Distances : InsertVectors(<<d, d>>)
        \/ \E k \in Ks, threshold \in BOOLEAN : QuerySimilar(k, threshold)

Spec == Init /\ [][Next]_vars

------------------------------------------------------------------------------
\* Through restarts of the server, failed connections and disconnects, the
\* sessions are those of the connection and of connections that went with their
\* adapters; without libpq there is none.
SessionsAreHeld ==
    /\ server = "up" => sessions = leaked + (IF connection_ = "open" THEN 1 ELSE 0)
    /\ ~libpq => connection_ = None

\* What is answered is what the table has: as many more rows as were counted, the
\* nearest k, or one batch of them, numbered from 0.
AnswersAreOfTheTable ==
    /\ answer.kind = "inserted" => answer.count = (IF table = None THEN 0 ELSE Len(table) - answer.before)
    /\ answer.kind = "similar" =>
          \A c \in DOMAIN answer.chunks : LET chunk == answer.chunks[c] IN
              /\ chunk.index = c - 1
              /\ Cardinality({n \in DOMAIN table : Key(table[n]) < Key(chunk.row)}) < c
    /\ answer.kind = "parsed" /\ libpq =>
          /\ Len(answer.chunks) = Min({Len(table), batch_size})
          /\ \A c \in DOMAIN answer.chunks : answer.chunks[c] = [row |-> table[c], index |-> c - 1,
                                                                 total |-> Len(answer.chunks)]
==============================================================================
