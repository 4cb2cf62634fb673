---------------------------- MODULE MongoRepository ----------------------------
(***************************************************************************)
(* MongoRepository (mongo_repository.cpp): the collection of results.  A   *)
(* method runs under the mutex of its caller and is a single step.         *)
(***************************************************************************)
EXTENDS Integers, FiniteSets

VARIABLES
    documents,
    lost          \* history: ids of results that were not inserted

mongoVars == <<documents, lost>>

MongoInit == documents = {} /\ lost = {}

StoredIds == {doc.id : doc \in documents}

\* Mutant: a result of the same id is replaced.
ReplaceResult(doc) ==
    \/ /\ documents' = {x \in documents : x.id # doc.id} \cup {doc}
       /\ UNCHANGED lost
    \/ /\ lost' = lost \cup {doc.id}
       /\ UNCHANGED documents

\* The document is inserted, or its id is taken; or the insertion fails, as it always
\* does when the constructor found no server.  The caller is told nothing in any case.
saveResult(doc) ==
    \/ /\ documents' = IF doc.id \in StoredIds THEN documents ELSE documents \cup {doc}
       /\ UNCHANGED lost
    \/ /\ lost' = lost \cup {doc.id}
       /\ UNCHANGED documents
=============================================================================
