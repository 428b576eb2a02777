------------------------- MODULE VectorDatabaseProofs -------------------------
(***************************************************************************)
(* Theorems about VectorDatabase for any number of ids, any documents and  *)
(* any number of restarts.                                                 *)
(***************************************************************************)
EXTENDS MCVectorDatabase, FiniteSetTheorems, SequenceTheorems, TLAPS

Lines == LineSet \cup {Malformed}

\* The file is a sequence of lines, some of them malformed.
TypeInv == TypeOK /\ lines \in Seq(Lines)

------------------------------------------------------------------------------
(* Files and what is read from them.                                       *)

LEMMA IdsFinite == IsFiniteSet(Ids) /\ Cardinality(Ids) \in Nat /\ Ids = 1 .. Cardinality(Ids) /\ None \notin Docs
  BY DatabaseAssumption, MetadataAssumption, FS_CardinalityType

\* A sequence of the elements of a finite set.
LEMMA Sequence ==
  ASSUME NEW S, IsFiniteSet(S)
  PROVE  SetToSeq(S) \in Seq(S)
<1>1. PICK n \in Nat : ExistsBijection(1 .. n, S)
  BY FS_NatBijection
<1>2. Cardinality(S) = n
  BY <1>1, FS_CountingElements
<1>3. PICK f \in Bijection(1 .. n, S) : TRUE
  BY <1>1 DEF ExistsBijection
<1>4. f \in [1 .. Cardinality(S) -> S] /\ IsInjective(f)
  BY <1>2, <1>3 DEF Bijection, Injection, IsInjective
<1>5. SetToSeq(S) \in [1 .. Cardinality(S) -> S]
  BY <1>4 DEF SetToSeq
<1> QED
  BY <1>1, <1>2, <1>5

LEMMA Rewritten ==
  ASSUME metadata \in Documents, NEW S \in SUBSET Ids
  PROVE  Entries(S) \subseteq LineSet /\ SetToSeq(Entries(S)) \in Seq(Lines)
<1> DEFINE T == {i \in S : metadata[i] # None}
<1> DEFINE f == [i \in T |-> Line(i, metadata[i])]
<1>1. IsFiniteSet(T)
  <2>1. T \subseteq Ids
    OBVIOUS
  <2> QED
    BY <2>1, IdsFinite, FS_Subset
<1>2. f \in Surjection(T, Entries(S))
  BY DEF Entries, Surjection
<1>3. IsFiniteSet(Entries(S))
  BY <1>1, <1>2, FS_Surjection DEF ExistsSurjection
<1>4. Entries(S) \subseteq LineSet
  BY DEF Entries, LineSet, Line, Documents
<1>5. SetToSeq(Entries(S)) \in Seq(Entries(S))
  BY <1>3, Sequence
<1> QED
  BY <1>4, <1>5 DEF Lines

Documented == /\ metadata \in Documents /\ dirty \in BOOLEAN /\ stream \in {"closed", "open", "bad"}
              /\ lines \in Seq(Lines) /\ torn \in BOOLEAN

\* What becomes of the file when lines are added to it.
LEMMA Appended ==
  ASSUME Documented, NEW line \in Lines, Appends(line)
  PROVE  lines' \in Seq(Lines)
<1>1. lines \in Seq(Lines) /\ Malformed \in Lines
  BY DEF Documented, Lines
<1>2. CASE torn
  <2>1. Front(lines) \in Seq(Lines)
    <3>1. 1 \in Int /\ Len(lines) - 1 \in Int /\ \A i \in 1 .. Len(lines) - 1 : lines[i] \in Lines
      BY <1>1
    <3> QED
      BY <3>1, SubSeqProperties DEF Front
  <2> QED
    BY <1>1, <1>2, <2>1 DEF Appends
<1>3. CASE ~torn
  BY <1>1, <1>3 DEF Appends
<1> QED
  BY <1>2, <1>3

LEMMA CutsShort ==
  ASSUME Documented, NEW line \in LineSet, CutShort(line)
  PROVE  lines' \in Seq(Lines) /\ torn' \in BOOLEAN
<1>1. line \in Lines /\ Malformed \in Lines
  BY DEF Lines
<1>2. Appends(line) => lines' \in Seq(Lines)
  BY <1>1, Appended
<1>3. Appends(Malformed) => lines' \in Seq(Lines)
  BY <1>1, Appended
<1>4. \/ lines' = lines /\ torn' = torn
      \/ Appends(line) /\ torn' = TRUE
      \/ Appends(Malformed) /\ torn' = TRUE
  BY DEF CutShort
<1>5. lines \in Seq(Lines) /\ torn \in BOOLEAN
  BY DEF Documented
<1> QED
  BY <1>2, <1>3, <1>4, <1>5

LEMMA AppendedIsLine ==
  ASSUME NEW id \in Ids, NEW doc \in Docs
  PROVE  Abridged[doc] \in Docs /\ AppendedLine(id, doc) \in LineSet
<1>1. Abridged[doc] \in Docs
  BY MetadataAssumption
<1> QED
  BY <1>1 DEF AppendedLine, LineSet

LEMMA Adds ==
  ASSUME Documented, NEW id \in Ids, NEW doc \in Docs, NEW answer, AddMetadata(id, doc, answer)
  PROVE  Documented' /\ metadata' = [metadata EXCEPT ![id] = doc]
<1>1. AppendedLine(id, doc) \in LineSet /\ AppendedLine(id, doc) \in Lines
  BY AppendedIsLine DEF Lines
<1>2. metadata' = [metadata EXCEPT ![id] = doc] /\ dirty' = TRUE /\ AppendToFile(AppendedLine(id, doc), answer)
  BY DEF AddMetadata
<1>3. metadata' \in Documents
  BY <1>2 DEF Documented, Documents
<1>4. /\ lines' \in Seq(Lines) /\ torn' \in BOOLEAN /\ stream' \in {"closed", "open", "bad"}
  BY <1>1, <1>2, Appended, CutsShort DEF AppendToFile, Documented
<1> QED
  BY <1>2, <1>3, <1>4 DEF Documented

LEMMA RewritesInPart ==
  ASSUME Documented, RewrittenInPart
  PROVE  lines' \in Seq(Lines) /\ torn' \in BOOLEAN
<1>1. metadata \in Documents
  BY DEF Documented
<1>2. PICK written \in SUBSET Ids :
         \/ lines' = SetToSeq(Entries(written)) /\ torn' = FALSE
         \/ \E cut \in Entries(Ids \ written) \cup {Malformed} :
               lines' = Append(SetToSeq(Entries(written)), cut) /\ torn' = TRUE
  BY DEF RewrittenInPart
<1>3. SetToSeq(Entries(written)) \in Seq(Lines)
  BY <1>1, Rewritten
<1>4. Entries(Ids \ written) \cup {Malformed} \subseteq Lines
  <2>1. Ids \ written \in SUBSET Ids
    OBVIOUS
  <2> QED
    BY <1>1, <2>1, Rewritten DEF Lines
<1>5. CASE lines' = SetToSeq(Entries(written)) /\ torn' = FALSE
  BY <1>3, <1>5
<1>6. ASSUME NEW cut \in Entries(Ids \ written) \cup {Malformed},
             lines' = Append(SetToSeq(Entries(written)), cut), torn' = TRUE
      PROVE  lines' \in Seq(Lines) /\ torn' \in BOOLEAN
  <2>1. cut \in Lines
    BY <1>4, <1>6
  <2> QED
    BY <1>3, <1>6, <2>1, AppendProperties
<1> QED
  BY <1>2, <1>5, <1>6

LEMMA Forgets ==
  ASSUME Forgotten, lines' \in Seq(Lines), torn' \in BOOLEAN
  PROVE  Documented'
  BY DEF Forgotten, Documented, Documents

\* A set of numbers up to some bound has a greatest one.
LEMMA Greatest ==
  ASSUME NEW n \in Nat, NEW S \in SUBSET (1 .. n), S # {}
  PROVE  \E m \in S : \A k \in S : k <= m
<1>1. PICK b \in Nat : (\E k \in S : k + b = n) /\ \A c \in Nat : c < b => ~\E k \in S : k + c = n
  <2> DEFINE B == {b \in Nat : \E k \in S : k + b = n}
  <2>1. B # {} /\ B \subseteq Nat
    <3>1. PICK k \in S : TRUE
      OBVIOUS
    <3>2. n - k \in Nat /\ k + (n - k) = n
      OBVIOUS
    <3> QED
      BY <3>1, <3>2
  <2>2. PICK b \in B : \A c \in B : <<c, b>> \notin OpToRel(<, Nat)
    BY <2>1, WFMin, NatLessThanWellFounded
  <2>3. \A c \in B : ~(c < b)
    BY <2>1, <2>2 DEF OpToRel
  <2> QED
    BY <2>1, <2>3
<1>2. PICK m \in S : m + b = n
  BY <1>1
<1>3. ASSUME NEW k \in S, k > m PROVE FALSE
  <2>1. n - k \in Nat /\ n - k < b /\ k + (n - k) = n
    BY <1>2, <1>3
  <2> QED
    BY <1>1, <2>1
<1> QED
  BY <1>3

LEMMA Loads ==
  ASSUME Documented, LoadMetadata
  PROVE  Documented'
<1>1. ASSUME NEW id \in Ids, LinesOf(id) # {}
      PROVE  lines[CHOOSE i \in LinesOf(id) : \A j \in LinesOf(id) : j <= i].doc \in Docs
  <2>1. LinesOf(id) \subseteq 1 .. Len(lines) /\ Len(lines) \in Nat
    BY DEF LinesOf, Documented
  <2>2. PICK i \in LinesOf(id) : \A j \in LinesOf(id) : j <= i
    BY <1>1, <2>1, Greatest
  <2>3. (CHOOSE k \in LinesOf(id) : \A j \in LinesOf(id) : j <= k) \in LinesOf(id)
    BY <2>2
  <2>4. \A k \in LinesOf(id) : lines[k] \in LineSet
    BY DEF LinesOf, Documented, Lines
  <2>5. \A line \in LineSet : line.doc \in Docs
    BY DEF LineSet, Line
  <2> QED
    BY <2>3, <2>4, <2>5
<1>2. Loaded \in Documents
  BY <1>1 DEF Loaded, Documents
<1> QED
  BY <1>2 DEF LoadMetadata, Documented

------------------------------------------------------------------------------
(* The inductive invariant.                                                *)

Typed == /\ up \in BOOLEAN
         /\ nodes \in Documents
         /\ indexed \in SUBSET Ids /\ stored \in SUBSET Ids
         /\ nextId \in 1 .. Cardinality(Ids) + 1
         /\ saved \in Documents
         /\ savedTorn \in BOOLEAN
         /\ reply \in {"none", "ok", "IoError", "InvalidVectorId"}
         /\ restarts \in 0 .. MaxRestarts
         /\ acked \in Documents /\ synced \in Documents
         /\ updated \in SUBSET Ids

\* The index has each document of a history as it was added.
Has(documents) == \A id \in Ids : documents[id] # None =>
                                    id \in indexed /\ nodes[id] = documents[id]

\* What a sync has covered is in the index file, and in the index as long as a
\* process is up, together with what it has added since.
Covered == /\ savedTorn = FALSE
           /\ \A id \in Ids : synced[id] # None => saved[id] = synced[id]
           /\ up => Has(acked) /\ Has(synced)

AsAcked(id) == nodes[id] = acked[id] /\ metadata[id] # None /\ (id \in updated \/ metadata[id] = acked[id])

\* AddsAreAtomic, for a history of all the ids.
Atomic ==
    up /\ restarts = 0 =>
        /\ indexed = stored
        /\ indexed = {id \in Ids : acked[id] # None}
        /\ \A id \in indexed : AsAcked(id)

IInv == Documented /\ Typed /\ Atomic /\ (~SaveFaults => Covered)

LEMMA InitIInv == Init => IInv
<1> SUFFICES ASSUME Init PROVE IInv
  OBVIOUS
<1>1. Documented
  <2>1. <<>> \in Seq(Lines)
    OBVIOUS
  <2> QED
    BY <2>1 DEF Init, MetaInit, Documented, Documents
<1>2. 1 \in 1 .. Cardinality(Ids) + 1 /\ 0 \in 0 .. MaxRestarts
  BY IdsFinite, DatabaseAssumption
<1>3. Typed
  BY <1>2 DEF Init, Nothing, Typed, Documents
<1>4. Atomic
  BY DEF Init, Nothing, Atomic
<1>5. Covered
  BY DEF Init, Nothing, Covered, Has
<1> QED
  BY <1>1, <1>3, <1>4, <1>5 DEF IInv

LEMMA StutterIInv == IInv /\ UNCHANGED vars => IInv'
  BY DEF IInv, vars, metaVars, inMemory, indexFile, history, Documented, Typed, Atomic, AsAcked,
         Covered, Has

\* The next id, and the one after it.
LEMMA NextIds ==
  ASSUME NEW i, i \in 1 .. Cardinality(Ids) + 1, i \in Ids
  PROVE  i + 1 \in 1 .. Cardinality(Ids) + 1
  BY IdsFinite

\* AddVector's three outcomes.
LEMMA StepAddVector ==
  ASSUME IInv, NEW doc \in Docs, AddVector(doc)
  PROVE  IInv'
<1>1. Documented /\ Typed /\ Atomic /\ (~SaveFaults => Covered)
  BY DEF IInv
<1>2. /\ up /\ nextId \in Ids /\ nextId' = nextId + 1 /\ up' = up
      /\ saved' = saved /\ savedTorn' = savedTorn /\ restarts' = restarts /\ synced' = synced
      /\ updated' = updated
  BY DEF AddVector, indexFile
<1>3. nextId' \in 1 .. Cardinality(Ids) + 1
  BY <1>1, <1>2, NextIds DEF Typed
<1>4. None \notin Docs
  BY IdsFinite
<1>5. CASE AddRefused
  <2>1. /\ metadata' = metadata /\ dirty' = dirty /\ stream' = stream /\ lines' = lines /\ torn' = torn
        /\ nodes' = nodes /\ indexed' = indexed /\ stored' = stored /\ acked' = acked
        /\ reply' = "InvalidVectorId"
    BY <1>5 DEF AddRefused, metaVars
  <2>2. Documented'
    BY <1>1, <2>1 DEF Documented
  <2>3. Typed'
    BY <1>1, <1>2, <1>3, <2>1 DEF Typed
  <2>4. Atomic'
    BY <1>1, <1>2, <2>1 DEF Atomic, AsAcked
  <2>5. Covered => Covered'
    BY <1>1, <1>2, <2>1 DEF Covered, Has
  <2> QED
    BY <1>1, <2>2, <2>3, <2>4, <2>5 DEF IInv
<1>6. CASE AddUnstored(doc)
  <2>1. /\ metadata' = metadata /\ dirty' = dirty /\ stream' = stream /\ lines' = lines /\ torn' = torn
        /\ nodes' = [nodes EXCEPT ![nextId] = doc] /\ indexed' = indexed /\ stored' = stored
        /\ acked' = acked /\ reply' = "IoError" /\ nextId \notin indexed
    BY <1>6 DEF AddUnstored, metaVars, Taken
  <2>2. Documented'
    BY <1>1, <2>1 DEF Documented
  <2>3. Typed'
    BY <1>1, <1>2, <1>3, <2>1 DEF Typed, Documents
  <2>4. Atomic'
    BY <1>1, <1>2, <2>1 DEF Atomic, AsAcked, Typed, Documents
  <2>5. Covered => Covered'
    BY <1>1, <1>2, <2>1 DEF Covered, Has, Typed, Documents
  <2> QED
    BY <1>1, <2>2, <2>3, <2>4, <2>5 DEF IInv
<1>7. CASE AddStored(doc)
  <2>1. nodes' = [nodes EXCEPT ![nextId] = doc] /\ nextId \notin indexed
    BY <1>7 DEF AddStored, Taken
  <2>2. PICK answer \in {"ok", "IoError"} : AddMetadata(nextId, doc, answer)
    BY <1>7 DEF AddStored
  <2>3. Documented' /\ metadata' = [metadata EXCEPT ![nextId] = doc]
    BY <1>1, <1>2, <2>2, Adds
  <2>4. \/ /\ indexed' = indexed \cup {nextId} /\ stored' = stored \cup {nextId}
           /\ acked' = [acked EXCEPT ![nextId] = doc] /\ reply' = "ok"
        \/ indexed' = indexed /\ stored' = stored /\ acked' = acked /\ reply' = "IoError"
    BY <1>7 DEF AddStored
  <2>5. Typed'
    <3>1. nodes' \in Documents
      BY <1>1, <1>2, <2>1 DEF Typed, Documents
    <3>2. /\ acked' \in Documents /\ indexed' \in SUBSET Ids /\ stored' \in SUBSET Ids
          /\ reply' \in {"none", "ok", "IoError", "InvalidVectorId"}
      <4>1. CASE acked' = [acked EXCEPT ![nextId] = doc]
        BY <1>1, <1>2, <2>4, <4>1 DEF Typed, Documents
      <4>2. CASE acked' = acked
        BY <1>1, <1>2, <2>4, <4>2 DEF Typed
      <4> QED
        BY <2>4, <4>1, <4>2
    <3> QED
      BY <1>1, <1>2, <1>3, <3>1, <3>2 DEF Typed
  <2>6. Atomic'
    <3> SUFFICES ASSUME restarts = 0
                 PROVE  /\ indexed' = stored'
                        /\ indexed' = {id \in Ids : acked'[id] # None}
                        /\ \A id \in indexed' :
                              /\ nodes'[id] = acked'[id] /\ metadata'[id] # None
                              /\ id \in updated \/ metadata'[id] = acked'[id]
      BY <1>2 DEF Atomic, AsAcked
    <3>1. /\ indexed = stored /\ indexed = {id \in Ids : acked[id] # None}
          /\ \A id \in indexed : /\ nodes[id] = acked[id] /\ metadata[id] # None
                                 /\ id \in updated \/ metadata[id] = acked[id]
      BY <1>1, <1>2 DEF Atomic, AsAcked
    <3>2. /\ nodes \in [Ids -> Docs \cup {None}] /\ metadata \in [Ids -> Docs \cup {None}]
          /\ acked \in [Ids -> Docs \cup {None}]
      BY <1>1 DEF Typed, Documented, Documents
    <3>3. CASE acked' = acked /\ indexed' = indexed /\ stored' = stored
      BY <1>2, <1>4, <2>1, <2>3, <3>1, <3>2, <3>3
    <3>4. CASE /\ indexed' = indexed \cup {nextId} /\ stored' = stored \cup {nextId}
               /\ acked' = [acked EXCEPT ![nextId] = doc]
      BY <1>2, <1>4, <2>1, <2>3, <3>1, <3>2, <3>4
    <3> QED
      BY <2>4, <3>3, <3>4
  <2>7. Covered => Covered'
    <3>1. SUFFICES ASSUME Covered PROVE Covered'
      OBVIOUS
    <3>2. Has(acked)'
      BY <1>1, <1>2, <2>1, <2>4, <3>1 DEF Covered, Has, Typed, Documents
    <3>3. Has(synced)'
      BY <1>1, <1>2, <2>1, <2>4, <3>1 DEF Covered, Has, Typed, Documents
    <3> QED
      BY <1>2, <3>1, <3>2, <3>3 DEF Covered
  <2> QED
    BY <1>1, <2>3, <2>5, <2>6, <2>7 DEF IInv
<1> QED
  BY <1>5, <1>6, <1>7 DEF AddVector

LEMMA StepRemoveVector ==
  ASSUME IInv, NEW id \in Ids, RemoveVector(id)
  PROVE  IInv'
<1>1. Documented /\ Typed /\ Atomic /\ (~SaveFaults => Covered)
  BY DEF IInv
<1>2. /\ up /\ up' = up /\ nodes' = nodes /\ nextId' = nextId /\ restarts' = restarts
      /\ saved' = saved /\ savedTorn' = savedTorn /\ reply' = "ok"
      /\ indexed' = indexed \ {id} /\ stored' = stored \ {id}
      /\ acked' = [acked EXCEPT ![id] = None] /\ synced' = [synced EXCEPT ![id] = None]
      /\ updated' = updated
  BY DEF RemoveVector, indexFile
<1>3. /\ metadata' = [metadata EXCEPT ![id] = None] /\ dirty' = TRUE
      /\ stream' = stream /\ lines' = lines /\ torn' = torn
  BY DEF RemoveVector, RemoveMetadata
<1>4. Documented'
  BY <1>1, <1>3 DEF Documented, Documents
<1>5. Typed'
  BY <1>1, <1>2 DEF Typed, Documents
<1>6. Atomic'
  BY <1>1, <1>2, <1>3 DEF Atomic, AsAcked, Typed, Documents, Documented
<1>7. Covered => Covered'
  BY <1>1, <1>2 DEF Covered, Has, Typed, Documents
<1> QED
  BY <1>1, <1>4, <1>5, <1>6, <1>7 DEF IInv

LEMMA StepUpdate ==
  ASSUME IInv, NEW id \in Ids, NEW doc \in Docs, Update(id, doc)
  PROVE  IInv'
<1>1. Documented /\ Typed /\ Atomic /\ (~SaveFaults => Covered)
  BY DEF IInv
<1>2. /\ up' = up /\ nodes' = nodes /\ nextId' = nextId /\ restarts' = restarts
      /\ saved' = saved /\ savedTorn' = savedTorn /\ reply' = "ok"
      /\ indexed' = indexed /\ stored' = stored /\ acked' = acked /\ synced' = synced
      /\ updated' = updated \cup {id}
  BY DEF Update, indexFile, inMemory
<1>3. /\ metadata' = [metadata EXCEPT ![id] = doc] /\ dirty' = TRUE
      /\ stream' = stream /\ lines' = lines /\ torn' = torn
  BY DEF Update, UpdateMetadata
<1>4. Documented'
  BY <1>1, <1>3 DEF Documented, Typed, Documents
<1>5. Typed'
  BY <1>1, <1>2 DEF Typed, Documents
<1>6. Atomic'
  BY <1>1, <1>2, <1>3, MetadataAssumption DEF Atomic, AsAcked, Typed, Documents, Documented
<1>7. Covered => Covered'
  BY <1>1, <1>2 DEF Covered, Has
<1> QED
  BY <1>1, <1>4, <1>5, <1>6, <1>7 DEF IInv

LEMMA StepSyncRefused ==
  ASSUME IInv, SyncRefused
  PROVE  IInv'
<1>1. Documented /\ Typed /\ Atomic /\ (~SaveFaults => Covered)
  BY DEF IInv
<1>2. /\ up' = up /\ nodes' = nodes /\ indexed' = indexed /\ stored' = stored /\ nextId' = nextId
      /\ saved' = saved /\ savedTorn' = savedTorn /\ reply' = "IoError" /\ restarts' = restarts
      /\ acked' = acked /\ synced' = synced /\ updated' = updated
      /\ metadata' = metadata /\ dirty' = dirty /\ stream' = stream /\ lines' = lines /\ torn' = torn
  BY DEF SyncRefused, SaveIndexRefused, indexFile, inMemory, history, metaVars
<1>3. Documented'
  BY <1>1, <1>2 DEF Documented
<1>4. Typed'
  BY <1>1, <1>2 DEF Typed
<1>5. Atomic'
  BY <1>1, <1>2 DEF Atomic, AsAcked
<1>6. Covered => Covered'
  BY <1>1, <1>2 DEF Covered, Has
<1> QED
  BY <1>1, <1>3, <1>4, <1>5, <1>6 DEF IInv

LEMMA Syncs ==
  ASSUME Documented, SyncMetadata \/ SyncMetadataInPart \/ SyncMetadataRefused \/ UNCHANGED metaVars
  PROVE  Documented' /\ metadata' = metadata
<1>1. CASE SyncMetadata
  <2>1. metadata' = metadata /\ stream' = stream
    BY <1>1 DEF SyncMetadata
  <2>2. \/ dirty' = dirty /\ lines' = lines /\ torn' = torn
        \/ dirty' = FALSE /\ lines' = SetToSeq(Entries(Ids)) /\ torn' = FALSE
    BY <1>1 DEF SyncMetadata
  <2>3. SetToSeq(Entries(Ids)) \in Seq(Lines)
    BY Rewritten DEF Documented
  <2> QED
    BY <2>1, <2>2, <2>3 DEF Documented
<1>2. CASE SyncMetadataInPart
  <2>1. metadata' = metadata /\ stream' = stream /\ dirty' = FALSE /\ RewrittenInPart
    BY <1>2 DEF SyncMetadataInPart
  <2>2. lines' \in Seq(Lines) /\ torn' \in BOOLEAN
    BY <2>1, RewritesInPart
  <2> QED
    BY <2>1, <2>2 DEF Documented
<1>3. CASE SyncMetadataRefused
  BY <1>3 DEF SyncMetadataRefused, metaVars, Documented
<1>4. CASE UNCHANGED metaVars
  BY <1>4 DEF metaVars, Documented
<1> QED
  BY <1>1, <1>2, <1>3, <1>4

LEMMA StepSync ==
  ASSUME IInv, Sync
  PROVE  IInv'
<1>1. Documented /\ Typed /\ Atomic /\ (~SaveFaults => Covered)
  BY DEF IInv
<1>2. /\ up /\ up' = up /\ nodes' = nodes /\ indexed' = indexed /\ stored' = stored
      /\ nextId' = nextId /\ restarts' = restarts /\ acked' = acked /\ updated' = updated
      /\ saved' = nodes /\ savedTorn' \in {FALSE, SaveFaults} /\ reply' \in {"ok", "IoError"}
      /\ (synced' = acked \/ synced' = synced)
      /\ (SyncMetadata \/ SyncMetadataInPart \/ SyncMetadataRefused \/ UNCHANGED metaVars)
  BY DEF Sync, SaveIndex, inMemory
<1>3. Documented' /\ metadata' = metadata
  BY <1>1, <1>2, Syncs
<1>4. Typed'
  <2>1. SaveFaults \in BOOLEAN
    BY DatabaseAssumption
  <2>2. synced' \in Documents
    BY <1>1, <1>2 DEF Typed
  <2> QED
    BY <1>1, <1>2, <2>1, <2>2 DEF Typed
<1>5. Atomic'
  BY <1>1, <1>2, <1>3 DEF Atomic, AsAcked
<1>6. ASSUME ~SaveFaults PROVE Covered'
  <2>1. SaveFaults = FALSE
    BY <1>6, DatabaseAssumption
  <2>2. Has(acked) /\ Has(synced)
    BY <1>1, <1>2, <1>6 DEF Covered
  <2>3. savedTorn' = FALSE
    BY <1>2, <2>1
  <2>4. \A id \in Ids : synced'[id] # None => saved'[id] = synced'[id]
    BY <1>2, <2>2 DEF Has
  <2>5. Has(acked)' /\ Has(synced)'
    BY <1>2, <2>2 DEF Has
  <2> QED
    BY <2>3, <2>4, <2>5 DEF Covered
<1> QED
  BY <1>3, <1>4, <1>5, <1>6 DEF IInv

------------------------------------------------------------------------------
(* Processes end and begin.                                                *)

LEMMA Dies ==
  ASSUME Typed, Gone, saved' \in Documents, savedTorn' \in BOOLEAN,
         acked' \in Documents, synced' \in Documents, updated' = updated
  PROVE  Typed' /\ Atomic' /\ up' = FALSE
<1>1. 1 \in 1 .. Cardinality(Ids) + 1
  BY IdsFinite
<1>2. Typed'
  BY <1>1 DEF Typed, Gone, Nothing, Documents
<1> QED
  BY <1>2 DEF Atomic, Gone

LEMMA StepClose ==
  ASSUME IInv, Close
  PROVE  IInv'
<1>1. Documented /\ Typed /\ (~SaveFaults => Covered)
  BY DEF IInv
<1>2. /\ up /\ Gone /\ Forgotten /\ acked' = acked /\ updated' = updated
      /\ \/ saved' = nodes /\ savedTorn' \in {FALSE, SaveFaults} /\ synced' = acked
         \/ SaveFaults /\ saved' = saved /\ savedTorn' = savedTorn /\ synced' = synced
  BY DEF Close, SaveIndex, SaveIndexRefused, indexFile
<1>3. Documented'
  <2>1. lines' \in Seq(Lines) /\ torn' \in BOOLEAN
    <3>1. /\ SetToSeq(Entries(Ids)) \in Seq(Lines) /\ lines \in Seq(Lines) /\ torn \in BOOLEAN
          /\ RewrittenInPart => lines' \in Seq(Lines) /\ torn' \in BOOLEAN
      BY <1>1, Rewritten, RewritesInPart DEF Documented
    <3>2. LastRewrite
      BY DEF Close
    <3> QED
      BY <3>1, <3>2 DEF LastRewrite
  <2> QED
    BY <1>2, <2>1, Forgets
<1>4. Typed' /\ Atomic' /\ up' = FALSE
  <2>1. saved' \in Documents /\ savedTorn' \in BOOLEAN /\ acked' \in Documents /\ synced' \in Documents
    BY <1>1, <1>2, DatabaseAssumption DEF Typed
  <2> QED
    BY <1>1, <1>2, <2>1, Dies
<1>5. ASSUME ~SaveFaults PROVE Covered'
  <2>1. /\ \A id \in Ids : acked[id] # None => nodes[id] = acked[id]
        /\ \A id \in Ids : synced[id] # None => nodes[id] = synced[id]
    BY <1>1, <1>2, <1>5 DEF Covered, Has
  <2>2. savedTorn' = FALSE /\ saved' = nodes /\ (synced' = acked \/ synced' = synced)
    <3>1. SaveFaults = FALSE
      BY <1>5, DatabaseAssumption
    <3> QED
      BY <1>2, <3>1
  <2>3. \A id \in Ids : synced'[id] # None => saved'[id] = synced'[id]
    BY <2>1, <2>2
  <2> QED
    BY <1>4, <2>2, <2>3 DEF Covered
<1> QED
  BY <1>3, <1>4, <1>5 DEF IInv

LEMMA StepCrash ==
  ASSUME IInv, Crash
  PROVE  IInv'
<1>1. Documented /\ Typed /\ (~SaveFaults => Covered)
  BY DEF IInv
<1>2. /\ up /\ Gone /\ Forgotten /\ acked' = acked /\ synced' = synced /\ updated' = updated
      /\ lines' = lines /\ torn' = torn /\ saved' = saved /\ savedTorn' = savedTorn
  BY DEF Crash, indexFile, history
<1>3. Documented'
  BY <1>1, <1>2, Forgets DEF Documented
<1>4. Typed' /\ Atomic' /\ up' = FALSE
  BY <1>1, <1>2, Dies DEF Typed
<1>5. Covered => Covered'
  BY <1>2, <1>4 DEF Covered
<1> QED
  BY <1>1, <1>3, <1>4, <1>5 DEF IInv

LEMMA StepCrashInAdd ==
  ASSUME IInv, NEW doc \in Docs, CrashInAdd(doc)
  PROVE  IInv'
<1>1. Documented /\ Typed /\ (~SaveFaults => Covered)
  BY DEF IInv
<1>2. /\ nextId \in Ids /\ Gone /\ acked' = acked /\ synced' = synced /\ updated' = updated
      /\ saved' = saved /\ savedTorn' = savedTorn
      /\ CutShort(AppendedLine(nextId, doc)) /\ Forgotten
  BY DEF CrashInAdd, DiesAppending, indexFile, history
<1>3. AppendedLine(nextId, doc) \in LineSet
  BY <1>2, AppendedIsLine
<1>4. Documented'
  BY <1>1, <1>2, <1>3, CutsShort, Forgets
<1>5. Typed' /\ Atomic' /\ up' = FALSE
  BY <1>1, <1>2, Dies DEF Typed
<1>6. Covered => Covered'
  BY <1>2, <1>5 DEF Covered
<1> QED
  BY <1>1, <1>4, <1>5, <1>6 DEF IInv

LEMMA StepCrashDuringSync ==
  ASSUME IInv, CrashDuringSync
  PROVE  IInv'
<1>1. Documented /\ Typed /\ (~SaveFaults => Covered)
  BY DEF IInv
<1>2. /\ up /\ Gone /\ Forgotten /\ acked' = acked /\ synced' = synced /\ saved' = nodes /\ updated' = updated
      /\ \/ SaveFaults /\ savedTorn' = TRUE
         \/ savedTorn' = FALSE
      /\ \/ lines' = lines /\ torn' = torn
         \/ RewrittenInPart
  BY DEF CrashDuringSync, DiesRewriting, history
<1>3. Documented'
  <2>1. lines' \in Seq(Lines) /\ torn' \in BOOLEAN
    BY <1>1, <1>2, RewritesInPart DEF Documented
  <2> QED
    BY <1>2, <2>1, Forgets
<1>4. Typed' /\ Atomic' /\ up' = FALSE
  <2>1. saved' \in Documents /\ savedTorn' \in BOOLEAN /\ acked' \in Documents /\ synced' \in Documents
    BY <1>1, <1>2 DEF Typed
  <2> QED
    BY <1>1, <1>2, <2>1, Dies
<1>5. ASSUME ~SaveFaults PROVE Covered'
  <2>1. /\ \A id \in Ids : acked[id] # None => nodes[id] = acked[id]
        /\ \A id \in Ids : synced[id] # None => nodes[id] = synced[id]
    BY <1>1, <1>2, <1>5 DEF Covered, Has
  <2>2. savedTorn' = FALSE /\ saved' = nodes /\ (synced' = acked \/ synced' = synced)
    <3>1. SaveFaults = FALSE
      BY <1>5, DatabaseAssumption
    <3> QED
      BY <1>2, <3>1
  <2>3. \A id \in Ids : synced'[id] # None => saved'[id] = synced'[id]
    BY <2>1, <2>2
  <2> QED
    BY <1>4, <2>2, <2>3 DEF Covered
<1> QED
  BY <1>3, <1>4, <1>5 DEF IInv

LEMMA Reads == ASSUME saved \in Documents
               PROVE  Readable \subseteq Documents /\ (~savedTorn => Readable = {saved})
  BY DEF Readable, Documents

\* Not more entries than ids.
LEMMA Entered ==
  ASSUME NEW S \in SUBSET Ids
  PROVE  Cardinality(S) + 1 \in 1 .. Cardinality(Ids) + 1
<1>1. IsFiniteSet(Ids) /\ Cardinality(Ids) \in Nat
  BY IdsFinite
<1>2. IsFiniteSet(S) /\ Cardinality(S) <= Cardinality(Ids)
  BY <1>1, FS_Subset
<1>3. Cardinality(S) \in Nat
  BY <1>2, FS_CardinalityType
<1> QED
  BY <1>1, <1>2, <1>3

LEMMA StepOpen ==
  ASSUME IInv, Open
  PROVE  IInv'
<1>1. Documented /\ Typed /\ (~SaveFaults => Covered)
  BY DEF IInv
<1>2. /\ restarts < MaxRestarts /\ restarts' = restarts + 1 /\ up' = TRUE
      /\ nodes' \in Readable /\ indexed' = {id \in Ids : nodes'[id] # None} /\ stored' = {}
      /\ reply' = "none" /\ acked' = synced /\ synced' = synced /\ updated' = updated
      /\ saved' = saved /\ savedTorn' = savedTorn
  BY DEF Open, indexFile
<1>3. Documented'
  BY <1>1, Loads DEF Open
<1>4. restarts' \in 0 .. MaxRestarts /\ restarts' # 0
  BY <1>1, <1>2, DatabaseAssumption DEF Typed
<1>5. nextId' \in 1 .. Cardinality(Ids) + 1
  <2>1. nextId' = Cardinality({id \in Ids : metadata'[id] # None}) + 1
    BY DEF Open, ResumedId, Size
  <2>2. {id \in Ids : metadata'[id] # None} \in SUBSET Ids
    OBVIOUS
  <2> QED
    BY <2>1, <2>2, Entered
<1>6. nodes' \in Documents /\ (~savedTorn => nodes' = saved)
  BY <1>1, <1>2, Reads DEF Typed
<1>7. Typed'
  BY <1>1, <1>2, <1>4, <1>5, <1>6 DEF Typed
<1>8. Atomic'
  BY <1>4 DEF Atomic
<1>9. Covered => Covered'
  <2> SUFFICES ASSUME Covered PROVE Covered'
    OBVIOUS
  <2>1. \A id \in Ids : synced[id] # None => id \in indexed' /\ nodes'[id] = synced[id]
    BY <1>2, <1>6 DEF Covered
  <2>2. Has(acked)' /\ Has(synced)'
    BY <1>2, <2>1 DEF Has
  <2> QED
    BY <1>2, <2>2 DEF Covered
<1> QED
  BY <1>1, <1>3, <1>7, <1>8, <1>9 DEF IInv

LEMMA NextIInv == IInv /\ Next => IInv'
  BY StepAddVector, StepRemoveVector, StepUpdate, StepSyncRefused, StepSync, StepClose, StepCrash,
     StepCrashInAdd, StepCrashDuringSync, StepOpen DEF Next

LEMMA Invariant == Spec => []IInv
<1>1. IInv /\ [Next]_vars => IInv'
  BY NextIInv, StutterIInv
<1> QED
  BY <1>1, InitIInv, PTL DEF Spec

------------------------------------------------------------------------------
\* Types, and with them that the next id is never beyond the one after the
\* last: for any number of ids and of restarts, whatever fails.
THEOREM TypeCorrect == Spec => []TypeOK
<1>1. IInv => TypeOK
  <2> SUFFICES ASSUME IInv PROVE TypeOK
    OBVIOUS
  <2>1. Documented /\ Typed
    BY DEF IInv
  <2>2. \A i \in DOMAIN lines : lines[i] \in LineSet \cup {Malformed}
    BY <2>1 DEF Documented, Lines
  <2> QED
    BY <2>1, <2>2 DEF Documented, Typed, TypeOK
<1> QED
  BY <1>1, Invariant, PTL

\* An add or a remove changes index, store and metadata together or leaves
\* them as they were, whichever of the three refuses.
THEOREM Atomicity == Spec => []AddsAreAtomic
<1>1. IInv => AddsAreAtomic
  BY DEF IInv, Atomic, AsAcked, AddsAreAtomic, Typed, Documents
<1> QED
  BY <1>1, Invariant, PTL

\* Where the index file is written whole, a vector that a sync has covered is
\* in the index of every later process until it is removed, wherever processes
\* die and however often ids are given out again.
THEOREM Survival == ASSUME ~SaveFaults PROVE Spec => []SyncedVectorsSurvive
<1>1. IInv => SyncedVectorsSurvive
  BY DEF IInv, Covered, Has, SyncedVectorsSurvive, Typed, Documents
<1> QED
  BY <1>1, Invariant, PTL

------------------------------------------------------------------------------
(* Metadata, where no rewrite of its file fails or is cut short.           *)

LastOf(S) == CHOOSE i \in S : \A j \in S : j <= i

LEMMA LastOfIsLast ==
  ASSUME NEW n \in Nat, NEW S \in SUBSET (1 .. n), S # {}
  PROVE  LastOf(S) \in S /\ \A j \in S : j <= LastOf(S)
<1>1. \E m \in S : \A k \in S : k <= m
  BY Greatest
<1> QED
  BY <1>1 DEF LastOf

LEMMA LoadedIs ==
  ASSUME Documented, NEW id \in Ids
  PROVE  /\ LinesOf(id) \subseteq 1 .. Len(lines) /\ Len(lines) \in Nat
         /\ Loaded[id] = IF LinesOf(id) = {} THEN None ELSE lines[LastOf(LinesOf(id))].doc
         /\ LinesOf(id) # {} => LastOf(LinesOf(id)) \in LinesOf(id)
<1>1. LinesOf(id) \subseteq 1 .. Len(lines) /\ Len(lines) \in Nat
  BY DEF LinesOf, Documented
<1>2. LinesOf(id) # {} => LastOf(LinesOf(id)) \in LinesOf(id)
  BY <1>1, LastOfIsLast
<1>3. Loaded[id] = IF LinesOf(id) = {} THEN None ELSE lines[LastOf(LinesOf(id))].doc
  BY DEF Loaded, LastOf
<1> QED
  BY <1>1, <1>2, <1>3

\* A line that is added is what is loaded for its id.
LEMMA LoadsAppended ==
  ASSUME Documented, Documented', NEW id \in Ids, NEW doc \in Docs, lines' = Append(lines, Line(id, doc))
  PROVE  Loaded'[id] = doc /\ \A d \in Ids : d # id => Loaded'[d] = Loaded[d]
<1> DEFINE line == Line(id, doc)
           n == Len(lines) + 1
<1>1. /\ Len(lines) \in Nat /\ DOMAIN lines = 1 .. Len(lines) /\ DOMAIN lines' = 1 .. n
      /\ \A i \in 1 .. Len(lines) : lines'[i] = lines[i]
      /\ lines'[n] = line
  BY DEF Documented
<1>2. line # Malformed /\ line.id = id /\ line.doc = doc
  BY MetadataAssumption DEF Line
<1> HIDE DEF line
<1>3. n \in Nat /\ n \notin 1 .. Len(lines) /\ 1 .. n = (1 .. Len(lines)) \cup {n}
  BY <1>1
<1>4. \A d \in Ids : LinesOf(d)' = IF d = id THEN LinesOf(d) \cup {n} ELSE LinesOf(d)
  <2>1. \A d \in Ids : n \in LinesOf(d)' <=> d = id
    BY <1>1, <1>2, <1>3 DEF LinesOf
  <2>2. \A d \in Ids : \A i \in 1 .. Len(lines) : i \in LinesOf(d)' <=> i \in LinesOf(d)
    BY <1>1, <1>3 DEF LinesOf
  <2>3. \A d \in Ids : LinesOf(d) \subseteq 1 .. Len(lines) /\ LinesOf(d)' \subseteq 1 .. n
    BY <1>1 DEF LinesOf
  <2> QED
    BY <1>3, <2>1, <2>2, <2>3
<1>5. ASSUME NEW d \in Ids
      PROVE  Loaded'[d] = IF LinesOf(d)' = {} THEN None ELSE lines'[LastOf(LinesOf(d)')].doc
  BY DEF Loaded, LastOf
<1>6. Loaded'[id] = doc
  <2>1. LinesOf(id)' = LinesOf(id) \cup {n} /\ LinesOf(id)' \in SUBSET (1 .. n)
    BY <1>1, <1>3, <1>4 DEF LinesOf
  <2> DEFINE S == LinesOf(id)'
             m == LastOf(S)
  <2>2. n \in S /\ S \subseteq 1 .. n /\ S # {}
    BY <2>1
  <2> HIDE DEF S
  <2>3. m \in S /\ n <= m
    BY <1>3, <2>2, LastOfIsLast
  <2> HIDE DEF m
  <2>4. m = n
    BY <1>3, <2>2, <2>3
  <2>5. Loaded'[id] = lines'[n].doc
    BY <1>5, <2>2, <2>4 DEF S, m
  <2> QED
    BY <1>1, <1>2, <2>5
<1>7. ASSUME NEW d \in Ids, d # id
      PROVE  Loaded'[d] = Loaded[d]
  <2>1. LinesOf(d)' = LinesOf(d)
    BY <1>4, <1>7
  <2>2. /\ Loaded[d] = IF LinesOf(d) = {} THEN None ELSE lines[LastOf(LinesOf(d))].doc
        /\ LinesOf(d) \subseteq 1 .. Len(lines)
        /\ LinesOf(d) # {} => LastOf(LinesOf(d)) \in LinesOf(d)
    BY LoadedIs
  <2>3. Loaded'[d] = IF LinesOf(d) = {} THEN None ELSE lines'[LastOf(LinesOf(d))].doc
    BY <1>5, <2>1
  <2> QED
    BY <1>1, <2>2, <2>3
<1> QED
  BY <1>6, <1>7

\* SetToSeq leaves out nothing.
LEMMA Enumerated ==
  ASSUME NEW S, IsFiniteSet(S)
  PROVE  /\ SetToSeq(S) \in [1 .. Cardinality(S) -> S] /\ Cardinality(S) \in Nat
         /\ \A e \in S : \E i \in 1 .. Cardinality(S) : SetToSeq(S)[i] = e
<1> DEFINE n == Cardinality(S)
           s == SetToSeq(S)
<1>1. n \in Nat /\ ExistsBijection(1 .. n, S)
  BY FS_CardinalityType
<1>2. PICK f \in Bijection(1 .. n, S) : TRUE
  BY <1>1 DEF ExistsBijection
<1>3. f \in [1 .. n -> S] /\ IsInjective(f)
  BY <1>2 DEF Bijection, Injection, IsInjective
<1>4. s \in [1 .. n -> S] /\ IsInjective(s)
  BY <1>3 DEF SetToSeq
<1> HIDE DEF n, s
<1>5. s \in Injection(1 .. n, S)
  BY <1>4 DEF Injection, IsInjective
<1>6. Cardinality(1 .. n) = n
  <2>1. Cardinality(1 .. n) = IF 1 > n THEN 0 ELSE n - 1 + 1
    BY <1>1, FS_Interval
  <2> QED
    BY <1>1, <2>1
<1>7. s \in Surjection(1 .. n, S)
  BY <1>5, <1>6, FS_Injection DEF n
<1>8. \A e \in S : \E i \in 1 .. n : s[i] = e
  BY <1>7 DEF Surjection
<1> QED
  BY <1>1, <1>4, <1>8 DEF n, s

LEMMA EntriesFinite ==
  ASSUME metadata \in Documents
  PROVE  IsFiniteSet(Entries(Ids))
<1> DEFINE T == {i \in Ids : metadata[i] # None}
           f == [i \in T |-> Line(i, metadata[i])]
<1>1. IsFiniteSet(T)
  BY IdsFinite, FS_Subset
<1>2. f \in Surjection(T, Entries(Ids))
  BY DEF Entries, Surjection
<1> QED
  BY <1>1, <1>2, FS_Surjection DEF ExistsSurjection

\* What a sync has written is what is loaded.
LEMMA LoadsRewritten ==
  ASSUME Documented, Documented', lines' = SetToSeq(Entries(Ids))
  PROVE  \A id \in Ids : Loaded'[id] = metadata[id]
<1> DEFINE E == Entries(Ids)
           n == Cardinality(E)
<1>1. metadata \in Documents
  BY DEF Documented
<1>2. /\ lines' \in [1 .. n -> E] /\ n \in Nat
      /\ \A e \in E : \E i \in 1 .. n : lines'[i] = e
  BY <1>1, EntriesFinite, Enumerated
<1>3. \A e \in E : e # Malformed /\ e.id \in Ids /\ metadata[e.id] # None /\ e.doc = metadata[e.id]
  <2>1. \A id \in Ids : metadata[id] # None => Line(id, metadata[id]) # Malformed
    BY <1>1, MetadataAssumption DEF Line, Documents
  <2> QED
    BY <2>1 DEF Entries, Line
<1>4. \A id \in Ids : metadata[id] # None => Line(id, metadata[id]) \in E
  BY DEF Entries
<1> HIDE DEF E, n
<1>5. TAKE id \in Ids
<1>6. LinesOf(id)' = {i \in 1 .. n : lines'[i].id = id}
  BY <1>2, <1>3 DEF LinesOf
<1>7. Loaded'[id] = IF LinesOf(id)' = {} THEN None ELSE lines'[LastOf(LinesOf(id)')].doc
  BY DEF Loaded, LastOf
<1>8. CASE metadata[id] = None
  <2>1. LinesOf(id)' = {}
    BY <1>2, <1>3, <1>6, <1>8
  <2> QED
    BY <1>7, <1>8, <2>1
<1>9. CASE metadata[id] # None
  <2>1. PICK i \in 1 .. n : lines'[i] = Line(id, metadata[id])
    BY <1>2, <1>4, <1>9
  <2>2. i \in LinesOf(id)'
    BY <1>6, <2>1 DEF Line
  <2> DEFINE S == LinesOf(id)'
  <2>3. S \subseteq 1 .. n /\ S # {}
    BY <1>6, <2>2
  <2>4. \A k \in S : lines'[k].doc = metadata[id]
    BY <1>2, <1>3, <1>6
  <2> HIDE DEF S
  <2>5. LastOf(S) \in S
    BY <1>2, <2>3, LastOfIsLast
  <2>6. lines'[LastOf(S)].doc = metadata[id]
    BY <2>4, <2>5
  <2> QED
    BY <1>7, <2>3, <2>6 DEF S
<1> QED
  BY <1>8, <1>9

\* What a line added to the file leaves as it was: an id that is not the line's,
\* unless its own line is the last one and has no newline.
LEMMA LoadsBeside ==
  ASSUME Documented, Documented', NEW line \in Lines, Appends(line), NEW id \in Ids,
         torn => Len(lines) \notin LinesOf(id),
         ~torn => line = Malformed \/ line.id # id
  PROVE  Loaded'[id] = Loaded[id] /\ Len(lines') \notin LinesOf(id)'
<1> DEFINE n == Len(lines)
<1>1. n \in Nat /\ DOMAIN lines = 1 .. n /\ lines \in Seq(Lines) /\ torn \in BOOLEAN
  BY DEF Documented
<1>2. /\ LinesOf(id)' = LinesOf(id) /\ Len(lines') \notin LinesOf(id)'
      /\ \A i \in LinesOf(id) : lines'[i] = lines[i]
  <2>1. CASE ~torn
    <3>1. /\ DOMAIN lines' = 1 .. n + 1 /\ Len(lines') = n + 1
          /\ \A i \in 1 .. n : lines'[i] = lines[i]
          /\ lines'[n + 1] = line
      BY <1>1, <2>1 DEF Appends
    <3>2. LinesOf(id) \subseteq 1 .. n /\ n + 1 \notin LinesOf(id)'
      BY <1>1, <2>1, <3>1 DEF LinesOf
    <3>3. \A i \in 1 .. n : i \in LinesOf(id)' <=> i \in LinesOf(id)
      BY <1>1, <3>1 DEF LinesOf
    <3>4. LinesOf(id)' \subseteq 1 .. n + 1
      BY <3>1 DEF LinesOf
    <3>5. 1 .. n + 1 = (1 .. n) \cup {n + 1}
      BY <1>1
    <3> QED
      BY <3>1, <3>2, <3>3, <3>4, <3>5
  <2>2. CASE torn /\ n = 0
    <3>1. Front(lines) = <<>>
      BY <1>1, <2>2 DEF Front
    <3>2. lines' = <<Malformed>>
      BY <2>2, <3>1 DEF Appends
    <3>3. LinesOf(id)' = {} /\ LinesOf(id) = {}
      BY <1>1, <2>2, <3>2 DEF LinesOf
    <3> QED
      BY <3>3
  <2>3. CASE torn /\ n # 0
    <3> DEFINE front == Front(lines)
    <3>1. front \in Seq(Lines) /\ Len(front) = n - 1 /\ \A i \in 1 .. n - 1 : front[i] = lines[i]
      <4>1. 1 \in Int /\ n - 1 \in Int /\ \A i \in 1 .. n - 1 : lines[i] \in Lines
        BY <1>1
      <4> QED
        BY <1>1, <2>3, <4>1, SubSeqProperties DEF Front
    <3>2. lines' = Append(front, Malformed)
      BY <2>3 DEF Appends
    <3> HIDE DEF front
    <3>3. /\ DOMAIN lines' = 1 .. n /\ Len(lines') = n
          /\ \A i \in 1 .. n - 1 : lines'[i] = lines[i]
          /\ lines'[n] = Malformed
      <4>1. n - 1 \in Nat /\ (n - 1) + 1 = n /\ Malformed \in Lines
        BY <1>1, <2>3 DEF Lines
      <4>2. /\ Append(front, Malformed) \in Seq(Lines) /\ Len(Append(front, Malformed)) = n
            /\ \A i \in 1 .. n - 1 : Append(front, Malformed)[i] = front[i]
            /\ Append(front, Malformed)[n] = Malformed
        BY <3>1, <4>1, AppendProperties
      <4> QED
        BY <3>1, <3>2, <4>2
    <3>4. LinesOf(id) \subseteq 1 .. n /\ n \notin LinesOf(id) /\ n \notin LinesOf(id)'
      BY <1>1, <2>3, <3>3 DEF LinesOf
    <3>5. \A i \in 1 .. n - 1 : i \in LinesOf(id)' <=> i \in LinesOf(id)
      BY <1>1, <3>3 DEF LinesOf
    <3>6. LinesOf(id)' \subseteq 1 .. n
      BY <3>3 DEF LinesOf
    <3>7. 1 .. n = (1 .. n - 1) \cup {n}
      BY <1>1, <2>3
    <3> HIDE DEF n
    <3>8. LinesOf(id)' = LinesOf(id) /\ LinesOf(id) \subseteq 1 .. n - 1
      BY <3>4, <3>5, <3>6, <3>7, SMTT(60)
    <3>9. \A i \in LinesOf(id) : lines'[i] = lines[i]
      BY <3>3, <3>8
    <3>10. Len(lines') \notin LinesOf(id)'
      BY <3>3, <3>4
    <3> QED
      BY <3>8, <3>9, <3>10
  <2> QED
    BY <2>1, <2>2, <2>3
<1>3. /\ Loaded[id] = IF LinesOf(id) = {} THEN None ELSE lines[LastOf(LinesOf(id))].doc
      /\ LinesOf(id) # {} => LastOf(LinesOf(id)) \in LinesOf(id)
  BY LoadedIs
<1>4. Loaded'[id] = IF LinesOf(id)' = {} THEN None ELSE lines'[LastOf(LinesOf(id)')].doc
  BY DEF Loaded, LastOf
<1> QED
  BY <1>2, <1>3, <1>4

\* The ids whose metadata must come back from the file.
Promised(id) == synced[id] # None \/ (up /\ acked[id] # None)

\* A line without a newline is none of them.
LastIsNobodys == torn => TornAppends /\ \A id \in Ids : Promised(id) => Len(lines) \notin LinesOf(id)

Flushed == /\ Unread # {} => TornAppends /\ ~torn
           /\ \A i, j \in Unread : i = j
           /\ ~dirty => \A id \in Ids : Loaded[id] = metadata[id]

\* The file has the metadata of every document a sync has covered, also between
\* processes, and of every add that succeeded but one.
Kept == /\ LastIsNobodys
        /\ \A id \in Ids \ updated : synced[id] # None => Loaded[id] = synced[id]
        /\ up => /\ \A id \in Ids \ updated : acked[id] # None => metadata[id] = acked[id]
                 /\ \A id \in Ids : synced[id] # None => acked[id] = synced[id]
                 /\ Flushed

RewritesWhole == ~WriteFaults /\ ~TornRewrites /\ ~SaveFaults

LEMMA KeptInit == Init => Kept
<1> SUFFICES ASSUME Init PROVE Kept
  OBVIOUS
<1>1. \A id \in Ids : LinesOf(id) = {}
  BY DEF Init, MetaInit, LinesOf
<1>2. \A id \in Ids : Loaded[id] = None
  BY <1>1 DEF Loaded
<1>3. Unread = {}
  BY DEF Init, Nothing, Unread
<1> QED
  BY <1>2, <1>3 DEF Init, MetaInit, Nothing, Kept, LastIsNobodys, Flushed

\* A step that leaves the file as it is and makes no new promise.
LEMMA KeptSame ==
  ASSUME Kept, lines' = lines, torn' = torn, up' => up, updated \subseteq updated',
         \A id \in Ids : acked'[id] \in {None, acked[id]} /\ synced'[id] \in {None, synced[id]},
         \A id \in Ids : synced'[id] # None => acked'[id] = acked[id],
         up' => \A id \in Ids \ updated' : acked'[id] # None => metadata'[id] = metadata[id],
         up' => dirty' \/ (dirty' = dirty /\ metadata' = metadata)
  PROVE  Kept'
<1>1. \A id \in Ids : Loaded'[id] = Loaded[id] /\ LinesOf(id)' = LinesOf(id)
  BY DEF Loaded, LinesOf
<1>2. Unread' \subseteq Unread
  BY <1>1 DEF Unread
<1>3. \A id \in Ids : Promised(id)' => Promised(id)
  BY DEF Promised
<1>4. LastIsNobodys'
  BY <1>1, <1>3 DEF Kept, LastIsNobodys
<1>5. \A id \in Ids \ updated' : synced'[id] # None => Loaded'[id] = synced'[id]
  BY <1>1 DEF Kept
<1>6. ASSUME up' PROVE Flushed'
  BY <1>1, <1>2, <1>6 DEF Kept, Flushed
<1>7. ASSUME up'
      PROVE  /\ \A id \in Ids \ updated' : acked'[id] # None => metadata'[id] = acked'[id]
             /\ \A id \in Ids : synced'[id] # None => acked'[id] = synced'[id]
  BY <1>7 DEF Kept
<1> QED
  BY <1>4, <1>5, <1>6, <1>7 DEF Kept

LEMMA KeptAddStored ==
  ASSUME RewritesWhole, IInv, IInv', Kept, NEW doc \in Docs, up, nextId \in Ids, up' = up,
         synced' = synced, updated' = updated, AddStored(doc)
  PROVE  Kept'
<1>1. Documented /\ Documented' /\ Typed /\ Covered
  BY DEF IInv, RewritesWhole
<1>2. acked[nextId] = None /\ synced[nextId] = None
  BY <1>1 DEF AddStored, Taken, Covered, Has
<1>3. CASE AddMetadata(nextId, doc, "ok") /\ acked' = [acked EXCEPT ![nextId] = doc]
  <2> DEFINE short == Abridged[doc]
             line == AppendedLine(nextId, doc)
  <2>1. /\ Appends(line) /\ torn' = FALSE /\ dirty' = TRUE
        /\ metadata' = [metadata EXCEPT ![nextId] = doc]
    BY <1>3 DEF AddMetadata, AppendToFile, RewritesWhole
  <2>2. short \in Docs /\ line = Line(nextId, short) /\ line \in Lines /\ line.id = nextId
    BY AppendedIsLine DEF AppendedLine, Line, Lines
  <2>3. /\ acked'[nextId] = doc /\ \A d \in Ids : d # nextId => acked'[d] = acked[d]
        /\ metadata'[nextId] = doc /\ \A d \in Ids : d # nextId => metadata'[d] = metadata[d]
    BY <1>1, <1>3, <2>1 DEF Documented, Typed, Documents
  <2>4. ~torn => Loaded'[nextId] = Abridged[doc]
    <3> SUFFICES ASSUME ~torn PROVE Loaded'[nextId] = short
      OBVIOUS
    <3>1. lines' = Append(lines, Line(nextId, short))
      BY <2>1, <2>2 DEF Appends
    <3> HIDE DEF short
    <3> QED
      BY <1>1, <2>2, <3>1, LoadsAppended
  <2> HIDE DEF short, line
  <2>5. \A d \in Ids : d # nextId /\ Promised(d) => Loaded'[d] = Loaded[d]
    BY <1>1, <2>1, <2>2, LoadsBeside DEF Kept, LastIsNobodys
  <2>6. \A d \in Ids \ updated : synced[d] # None => Loaded'[d] = synced[d]
    BY <1>2, <2>5 DEF Kept, Promised
  <2>7. \A d \in Ids : d # nextId => (d \in Unread' <=> d \in Unread)
    BY <2>3, <2>5 DEF Unread, Promised
  <2>8. ~torn => nextId \notin Unread'
    BY <2>3, <2>4 DEF Unread
  <2>9. Unread \subseteq Ids /\ Unread' \subseteq Ids /\ nextId \notin Unread
    BY <1>2 DEF Unread
  <2>10. Flushed'
    <3>1. CASE torn
      <4>1. Unread = {} /\ TornAppends
        BY <3>1 DEF Kept, Flushed, LastIsNobodys
      <4>2. Unread' \subseteq {nextId}
        BY <2>7, <2>9, <4>1
      <4> QED
        BY <2>1, <4>1, <4>2 DEF Flushed
    <3>2. CASE ~torn
      <4>1. Unread' = Unread
        BY <2>7, <2>8, <2>9, <3>2
      <4> QED
        BY <2>1, <4>1 DEF Kept, Flushed
    <3> QED
      BY <3>1, <3>2
  <2>11. /\ \A id \in Ids \ updated : acked'[id] # None => metadata'[id] = acked'[id]
         /\ \A id \in Ids : synced[id] # None => acked'[id] = synced[id]
    BY <1>2, <2>3 DEF Kept
  <2> QED
    BY <2>1, <2>6, <2>10, <2>11 DEF Kept, LastIsNobodys
<1>4. CASE AddMetadata(nextId, doc, "IoError") /\ acked' = acked
  <2>1. /\ lines' = lines /\ torn' = torn /\ dirty' = TRUE
        /\ metadata' = [metadata EXCEPT ![nextId] = doc]
    BY <1>4 DEF AddMetadata, AppendToFile, RewritesWhole
  <2>2. \A id \in Ids : acked[id] # None => metadata'[id] = metadata[id]
    BY <1>1, <1>2, <2>1 DEF Documented, Documents
  <2> QED
    BY <1>4, <2>1, <2>2, KeptSame
<1> QED
  BY <1>3, <1>4 DEF AddStored

LEMMA KeptAddVector ==
  ASSUME RewritesWhole, IInv, IInv', Kept, NEW doc \in Docs, AddVector(doc)
  PROVE  Kept'
<1>1. up /\ up' = up /\ nextId \in Ids /\ synced' = synced /\ updated' = updated
  BY DEF AddVector
<1>2. CASE AddRefused \/ AddUnstored(doc)
  <2>1. lines' = lines /\ torn' = torn /\ acked' = acked /\ metadata' = metadata /\ dirty' = dirty
    BY <1>2 DEF AddRefused, AddUnstored, metaVars
  <2> QED
    BY <1>1, <2>1, KeptSame
<1>3. CASE AddStored(doc)
  BY <1>1, <1>3, KeptAddStored
<1> QED
  BY <1>2, <1>3 DEF AddVector

LEMMA KeptRemoveVector ==
  ASSUME IInv, Kept, NEW id \in Ids, RemoveVector(id)
  PROVE  Kept'
<1>1. /\ up /\ up' = up /\ lines' = lines /\ torn' = torn /\ dirty' = TRUE /\ updated' = updated
      /\ metadata' = [metadata EXCEPT ![id] = None]
      /\ acked' = [acked EXCEPT ![id] = None] /\ synced' = [synced EXCEPT ![id] = None]
  BY DEF RemoveVector, RemoveMetadata
<1>2. /\ acked'[id] = None /\ \A d \in Ids : d # id => acked'[d] = acked[d]
      /\ synced'[id] = None /\ \A d \in Ids : d # id => synced'[d] = synced[d]
      /\ \A d \in Ids : d # id => metadata'[d] = metadata[d]
  BY <1>1 DEF IInv, Documented, Typed, Documents
<1>3. /\ \A d \in Ids : acked'[d] \in {None, acked[d]} /\ synced'[d] \in {None, synced[d]}
      /\ \A d \in Ids : synced'[d] # None => acked'[d] = acked[d]
      /\ \A d \in Ids \ updated : acked'[d] # None => metadata'[d] = metadata[d]
  BY <1>2
<1> QED
  BY <1>1, <1>3, KeptSame

LEMMA KeptUpdate ==
  ASSUME IInv, Kept, NEW id \in Ids, NEW doc \in Docs, Update(id, doc)
  PROVE  Kept'
<1>1. /\ up /\ up' = up /\ lines' = lines /\ torn' = torn /\ acked' = acked /\ synced' = synced
      /\ dirty' = TRUE /\ updated' = updated \cup {id}
      /\ metadata' = [metadata EXCEPT ![id] = doc]
  BY DEF Update, UpdateMetadata
<1>2. \A d \in Ids \ updated' : metadata'[d] = metadata[d]
  BY <1>1 DEF IInv, Documented, Documents
<1> QED
  BY <1>1, <1>2, KeptSame

\* A rewrite of the whole file, or none if the file says it all.
LEMMA KeptRewritten ==
  ASSUME Documented, Documented', Kept, up, updated' = updated, acked' = acked,
         synced' \in {acked, synced}, up' => metadata' = metadata,
         \/ ~dirty /\ lines' = lines /\ torn' = torn
         \/ dirty /\ lines' = SetToSeq(Entries(Ids)) /\ torn' = FALSE
  PROVE  Kept'
<1>1. \A id \in Ids : Loaded'[id] = metadata[id]
  <2>1. CASE ~dirty /\ lines' = lines
    <3>1. \A id \in Ids : Loaded'[id] = Loaded[id]
      BY <2>1 DEF Loaded, LinesOf
    <3> QED
      BY <2>1, <3>1 DEF Kept, Flushed
  <2>2. CASE lines' = SetToSeq(Entries(Ids))
    BY <2>2, LoadsRewritten
  <2> QED
    BY <2>1, <2>2
<1>2. \A id \in Ids : synced'[id] # None => acked[id] = synced'[id]
  BY DEF Kept
<1>3. \A id \in Ids \ updated : acked[id] # None => Loaded'[id] = acked[id]
  BY <1>1 DEF Kept
<1>4. \A id \in Ids \ updated' : synced'[id] # None => Loaded'[id] = synced'[id]
  BY <1>2, <1>3
<1>5. LastIsNobodys'
  <2>1. CASE lines' = lines /\ torn' = torn
    <3>1. \A id \in Ids : LinesOf(id)' = LinesOf(id)
      BY <2>1 DEF LinesOf
    <3>2. \A id \in Ids : Promised(id)' => Promised(id)
      BY DEF Promised
    <3> QED
      BY <2>1, <3>1, <3>2 DEF Kept, LastIsNobodys
  <2>2. CASE torn' = FALSE
    BY <2>2 DEF LastIsNobodys
  <2> QED
    BY <2>1, <2>2
<1>6. Unread' = {}
  BY <1>3 DEF Unread
<1>7. ASSUME up' PROVE Flushed'
  BY <1>1, <1>6, <1>7 DEF Flushed
<1>8. ASSUME up' PROVE \A id \in Ids \ updated : acked[id] # None => metadata'[id] = acked[id]
  BY <1>8 DEF Kept
<1> QED
  BY <1>2, <1>4, <1>5, <1>7, <1>8 DEF Kept

LEMMA KeptSync ==
  ASSUME RewritesWhole, IInv, IInv', Kept, Sync \/ SyncRefused
  PROVE  Kept'
<1>1. Documented /\ Documented'
  BY DEF IInv
<1>2. /\ up /\ up' = up /\ acked' = acked /\ synced' \in {acked, synced} /\ updated' = updated
      /\ \/ synced' = synced /\ UNCHANGED metaVars
         \/ SyncMetadata
  BY DEF Sync, SyncRefused, SyncMetadataInPart, SyncMetadataRefused, RewritesWhole, history, SaveIndexRefused
<1>3. CASE synced' = synced /\ UNCHANGED metaVars
  BY <1>2, <1>3, KeptSame DEF metaVars
<1>4. CASE SyncMetadata
  <2>1. /\ metadata' = metadata
        /\ \/ ~dirty /\ lines' = lines /\ torn' = torn
           \/ dirty /\ lines' = SetToSeq(Entries(Ids)) /\ torn' = FALSE
    BY <1>4 DEF SyncMetadata
  <2> QED
    BY <1>1, <1>2, <2>1, KeptRewritten
<1> QED
  BY <1>2, <1>3, <1>4

LEMMA KeptClose ==
  ASSUME RewritesWhole, IInv, IInv', Kept, Close
  PROVE  Kept'
<1>1. Documented /\ Documented'
  BY DEF IInv
<1>2. /\ up /\ up' = FALSE /\ synced' \in {acked, synced} /\ acked' = acked /\ updated' = updated
      /\ \/ ~dirty /\ lines' = lines /\ torn' = torn
         \/ dirty /\ lines' = SetToSeq(Entries(Ids)) /\ torn' = FALSE
  BY DEF Close, Gone, LastRewrite, SaveIndexRefused, RewritesWhole
<1> QED
  BY <1>1, <1>2, KeptRewritten

LEMMA KeptCrash ==
  ASSUME RewritesWhole, Kept, Crash \/ CrashDuringSync
  PROVE  Kept'
<1>1. up' = FALSE /\ acked' = acked /\ synced' = synced /\ updated' = updated
  BY DEF Crash, CrashDuringSync, Gone, history
<1>2. lines' = lines /\ torn' = torn
  BY DEF Crash, CrashDuringSync, DiesRewriting, RewritesWhole
<1>3. \A id \in Ids : synced'[id] # None => acked'[id] = acked[id]
  BY <1>1
<1> QED
  BY <1>1, <1>2, <1>3, KeptSame

LEMMA KeptCrashInAdd ==
  ASSUME RewritesWhole, IInv, IInv', Kept, NEW doc \in Docs, CrashInAdd(doc)
  PROVE  Kept'
<1> DEFINE line == AppendedLine(nextId, doc)
<1>1. /\ up /\ up' = FALSE /\ acked' = acked /\ synced' = synced /\ updated' = updated
      /\ nextId \in Ids /\ nextId \notin indexed /\ TornAppends /\ CutShort(line)
  BY DEF CrashInAdd, DiesAppending, Gone, history, Taken
<1>2. Documented /\ Documented' /\ Covered
  BY DEF IInv, RewritesWhole
<1>3. synced[nextId] = None
  BY <1>1, <1>2 DEF Covered, Has
<1>4. line \in Lines /\ line.id = nextId /\ Malformed \in Lines
  BY <1>1, AppendedIsLine DEF AppendedLine, Line, Lines
<1> HIDE DEF line
<1>5. CASE lines' = lines /\ torn' = torn
  <2>1. \A id \in Ids : synced'[id] # None => acked'[id] = acked[id]
    BY <1>1
  <2> QED
    BY <1>1, <1>5, <2>1, KeptSame
<1>6. ASSUME NEW cut \in {line, Malformed}, Appends(cut), torn' = TRUE
      PROVE  Kept'
  <2>1. \A id \in Ids : synced[id] # None => Loaded'[id] = Loaded[id] /\ Len(lines') \notin LinesOf(id)'
    BY <1>2, <1>3, <1>4, <1>6, LoadsBeside DEF Kept, LastIsNobodys, Promised
  <2>2. LastIsNobodys'
    BY <1>1, <2>1 DEF LastIsNobodys, Promised
  <2> QED
    BY <1>1, <2>1, <2>2 DEF Kept
<1> QED
  BY <1>1, <1>5, <1>6 DEF CutShort

LEMMA KeptOpen ==
  ASSUME Kept, Open
  PROVE  Kept'
<1>1. /\ acked' = synced /\ synced' = synced /\ metadata' = Loaded /\ lines' = lines /\ torn' = torn
      /\ updated' = updated
  BY DEF Open, LoadMetadata
<1>2. \A id \in Ids : Loaded'[id] = Loaded[id] /\ LinesOf(id)' = LinesOf(id)
  BY <1>1 DEF Loaded, LinesOf
<1>3. \A id \in Ids \ updated : synced[id] # None => Loaded[id] = synced[id]
  BY DEF Kept
<1>4. Unread' = {}
  BY <1>1, <1>2, <1>3 DEF Unread
<1>5. \A id \in Ids : Promised(id)' => Promised(id)
  BY <1>1 DEF Promised
<1>6. LastIsNobodys'
  BY <1>1, <1>2, <1>5 DEF Kept, LastIsNobodys
<1>7. Flushed'
  BY <1>1, <1>2, <1>4 DEF Flushed
<1> QED
  BY <1>1, <1>2, <1>3, <1>6, <1>7 DEF Kept

LEMMA KeptNext ==
  ASSUME RewritesWhole, IInv, IInv', Kept, [Next]_vars
  PROVE  Kept'
<1>1. ASSUME UNCHANGED vars PROVE Kept'
  <2>1. \A id \in Ids : synced'[id] # None => acked'[id] = acked[id]
    BY <1>1 DEF vars, history
  <2> QED
    BY <1>1, <2>1, KeptSame DEF vars, metaVars, history
<1> QED
  BY <1>1, KeptAddVector, KeptRemoveVector, KeptUpdate, KeptSync, KeptClose, KeptCrash, KeptCrashInAdd,
     KeptOpen DEF Next

LEMMA KeptIsEnough ==
  ASSUME Kept, Documented
  PROVE  SyncedMetadataSurvives /\ MetadataFlushed
<1>1. SyncedMetadataSurvives
  BY DEF Kept, SyncedMetadataSurvives
<1>2. ASSUME up, ~dirty PROVE Loaded = metadata
  <2>1. \A id \in Ids : Loaded[id] = metadata[id]
    BY <1>2 DEF Kept, Flushed
  <2>2. Loaded = [id \in Ids |-> Loaded[id]] /\ metadata = [id \in Ids |-> metadata[id]]
    BY DEF Loaded, Documented, Documents
  <2> QED
    BY <2>1, <2>2
<1>3. MetadataFlushed
  BY <1>2 DEF Kept, Flushed, MetadataFlushed
<1> QED
  BY <1>1, <1>3

\* Where no rewrite of the metadata file fails or is cut short, and the index
\* file is written whole, what a sync has covered is in the file and in every
\* later process with every field until it is updated or removed; what was
\* added since is in the file without the fields an append leaves out, all but
\* the first add after a death inside an append; and the file says what the map
\* says when nothing is dirty.  Processes may die anywhere else, and the vector
\* store may fail at will.
THEOREM MetadataSurvival ==
  ASSUME RewritesWhole
  PROVE  Spec => [](SyncedMetadataSurvives /\ MetadataFlushed)
<1>1. Init => IInv /\ Kept
  BY InitIInv, KeptInit
<1>2. (IInv /\ Kept) /\ [Next]_vars => (IInv /\ Kept)'
  BY NextIInv, StutterIInv, KeptNext
<1>3. IInv /\ Kept => SyncedMetadataSurvives /\ MetadataFlushed
  BY KeptIsEnough DEF IInv
<1> QED
  BY <1>1, <1>2, <1>3, PTL DEF Spec

\* So it is in the run, in the instance "kept".
THEOREM KeptSurvival ==
  ASSUME RewritesWhole
  PROVE  MCSpec => []MetadataKept
<1> DEFINE Inv == instance = "kept" => IInv /\ Kept
<1>1. MCInit => Inv
  BY InitIInv, KeptInit DEF MCInit
<1>2. Inv /\ [MCNext]_<<vars, instance>> => Inv'
  <2> SUFFICES ASSUME Inv, [MCNext]_<<vars, instance>>, instance' = "kept"
               PROVE  (IInv /\ Kept)'
    OBVIOUS
  <2>1. instance = "kept" /\ [Next]_vars
    BY DEF MCNext
  <2> QED
    BY <2>1, NextIInv, StutterIInv, KeptNext
<1>3. Inv => MetadataKept
  <2>1. IInv => TypeOK
    BY DEF IInv, Documented, Typed, TypeOK, Lines
  <2> QED
    BY <2>1, KeptIsEnough DEF MetadataKept, IInv
<1> QED
  BY <1>1, <1>2, <1>3, PTL DEF MCSpec
==============================================================================
