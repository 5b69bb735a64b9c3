------------------------------ MODULE MongoUsers ------------------------------
(***************************************************************************)
(* The user directory in MongoDB: POST /mongo/users looks a login up and   *)
(* inserts a document if there is none, in two round trips; nothing makes  *)
(* logins unique in the collection.  GET /mongo/users reads by login or by *)
(* a mask of the name.  No handler changes or removes a document.          *)
(***************************************************************************)
EXTENDS Naturals, Sequences, FiniteSets

CONSTANTS Login,
          Task,           \* tasks that serve POST requests
          Mask,           \* the masks clients ask for
          NameMatches,    \* logins of the users whose name has the mask
          InitialUsers,   \* logins of the documents data.js loads
          MaxDocuments,   \* bound of the model: documents and inserts under way
          MaxTimeouts     \* bound of the model: inserts given up on the way

VARIABLES users,          \* the collection, in the order of insertion
          request,        \* the POST each task is serving
          late,           \* inserts MongoDB may still carry out
          timeouts,
          known           \* history: logins some answer said to exist

mongoVars == <<users, request, late, timeouts, known>>

ASSUME MongoAssumption ==
  /\ InitialUsers \in Seq(Login)
  /\ \A i, j \in DOMAIN InitialUsers : InitialUsers[i] = InitialUsers[j] => i = j
  /\ NameMatches \in [Mask -> SUBSET Login]
  /\ MaxDocuments \in Nat
  /\ MaxTimeouts \in Nat
  /\ IsFiniteSet(Task)
  /\ Task # {}

-----------------------------------------------------------------------------
(***************************************************************************)
(* State                                                                   *)
(***************************************************************************)

\* seen: how many documents there were when FindOne ran (history).
Document == [login : Login, seen : Nat]

Idle == [pc |-> "idle"]
Inserting == [pc : {"insert"}, doc : Document]

\* An insert under way when its handler gave up; nr tells equal ones apart.
Late == [doc : Document, nr : Nat]

Docs(l) == {i \in DOMAIN users : users[i].login = l}

Pending == {t \in Task : request[t].pc = "insert"}

MongoInit ==
  /\ users = [i \in DOMAIN InitialUsers |->
                [login |-> InitialUsers[i], seen |-> 0]]
  /\ request = [t \in Task |-> Idle]
  /\ late = {}
  /\ timeouts = 0
  /\ known = {}

-----------------------------------------------------------------------------
(***************************************************************************)
(* POST /mongo/users                                                       *)
(***************************************************************************)

\* The model's bound on the length of the collection.
MayInsert ==
  Len(users) + Cardinality(Pending) + Cardinality(late) < MaxDocuments

\* Without the look-up.
FindNone_NoLookup(t, l) ==
  /\ request[t].pc = "idle"
  /\ MayInsert
  /\ request' = [request EXCEPT ![t] =
       [pc |-> "insert", doc |-> [login |-> l, seen |-> Len(users)]]]
  /\ UNCHANGED <<users, late, timeouts, known>>

\* FindOne finds nothing.
FindNone(t, l) ==
  /\ request[t].pc = "idle"
  /\ Docs(l) = {}
  /\ MayInsert
  /\ request' = [request EXCEPT ![t] =
       [pc |-> "insert", doc |-> [login |-> l, seen |-> Len(users)]]]
  /\ UNCHANGED <<users, late, timeouts, known>>

\* FindOne finds a document: 409.
FindExisting(t, l) ==
  /\ request[t].pc = "idle"
  /\ Docs(l) # {}
  /\ known' = known \cup {l}
  /\ UNCHANGED <<users, request, late, timeouts>>

\* The task goes on with the same request.
InsertOne_Again(t) ==
  /\ request[t].pc = "insert"
  /\ Len(users) < MaxDocuments
  /\ users' = Append(users, request[t].doc)
  /\ known' = known \cup {request[t].doc.login}
  /\ UNCHANGED <<request, late, timeouts>>

\* InsertOne and the answer 201.
InsertOne(t) ==
  /\ request[t].pc = "insert"
  /\ users' = Append(users, request[t].doc)
  /\ request' = [request EXCEPT ![t] = Idle]
  /\ known' = known \cup {request[t].doc.login}
  /\ UNCHANGED <<late, timeouts>>

\* The exception is swallowed: 201 all the same.
InsertFails_Ignored(t) ==
  /\ request[t].pc = "insert"
  /\ request' = [request EXCEPT ![t] = Idle]
  /\ known' = known \cup {request[t].doc.login}
  /\ UNCHANGED <<users, late, timeouts>>

\* The collection's validator or the connection refuses the document: 500.
InsertFails(t) ==
  /\ request[t].pc = "insert"
  /\ request' = [request EXCEPT ![t] = Idle]
  /\ UNCHANGED <<users, late, timeouts, known>>

\* The insert is sent and its answer does not come: 500, or the process dies.
InsertTimesOut(t) ==
  /\ request[t].pc = "insert"
  /\ timeouts < MaxTimeouts
  /\ timeouts' = timeouts + 1
  /\ late' = late \cup {[doc |-> request[t].doc, nr |-> timeouts]}
  /\ request' = [request EXCEPT ![t] = Idle]
  /\ UNCHANGED <<users, known>>

\* MongoDB carries out an insert nobody waits for.
ArrivesLate(m) ==
  /\ users' = Append(users, m.doc)
  /\ late' = late \ {m}
  /\ UNCHANGED <<request, timeouts, known>>

\* It never arrives.
IsLost(m) ==
  /\ late' = late \ {m}
  /\ UNCHANGED <<users, request, timeouts, known>>

-----------------------------------------------------------------------------
(***************************************************************************)
(* GET /mongo/users                                                        *)
(***************************************************************************)

\* FindOne of one login, Find of the logins whose names have the mask.
Query == {{l} : l \in Login} \cup {NameMatches[m] : m \in Mask}

Get(q) ==
  /\ known' = known \cup {l \in q : Docs(l) # {}}
  /\ UNCHANGED <<users, request, late, timeouts>>

MongoNext ==
  \/ \E t \in Task :
       \/ \E l \in Login : FindNone(t, l) \/ FindExisting(t, l)
       \/ InsertOne(t)
       \/ InsertFails(t)
       \/ InsertTimesOut(t)
  \/ \E m \in late : ArrivesLate(m) \/ IsLost(m)
  \/ \E q \in Query : Get(q)

MongoSpec == MongoInit /\ [][MongoNext]_mongoVars

-----------------------------------------------------------------------------
(***************************************************************************)
(* Properties                                                              *)
(***************************************************************************)

\* The document is not among those its request has seen.
Unseen(doc) ==
  /\ doc.seen <= Len(users)
  /\ \A i \in 1 .. doc.seen : users[i].login # doc.login

\* Documents, requests and inserts under way have their shapes, and an insert is
\* under way only for a login its look-up did not find.
MongoTypeOK ==
  /\ users \in Seq(Document)
  /\ request \in [Task -> {Idle} \cup Inserting]
  /\ late \subseteq Late
  /\ timeouts \in 0 .. MaxTimeouts
  /\ known \subseteq Login
  /\ \A i \in DOMAIN users : users[i].seen < i
  /\ \A t \in Pending : Unseen(request[t].doc)
  /\ \A m \in late : Unseen(m.doc) /\ m.nr < timeouts

\* Two documents of one login exist only by the race of look-up and insert: the
\* one inserted second was looked up before the first was there.  So a POST that
\* is repeated after it was answered 201 or 409 adds nothing; after a 500 it may,
\* because the first insert can still be on its way.
DuplicatesOnlyByRace ==
  \A i, j \in DOMAIN users :
    i < j /\ users[i].login = users[j].login => users[j].seen < i

\* However long the service runs, a login has at most one document for each task
\* that serves at the same time, and one for each insert that was given up.
DuplicatesAreBounded ==
  \A l \in Login : Cardinality(Docs(l)) <= Cardinality(Task) + timeouts

\* A login that was answered 201, 409 or in a GET is in the collection; no later
\* GET answers 404 for it and no later POST inserts it.
KnownIsStored ==
  \A l \in known : Docs(l) # {}
=============================================================================
