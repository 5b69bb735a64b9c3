--------------------------- MODULE MongoUsersProofs ---------------------------
(***************************************************************************)
(* Theorems about MongoUsers for any logins, tasks and loaded documents,   *)
(* and any bounds.                                                         *)
(***************************************************************************)
EXTENDS MongoUsers, FiniteSetTheorems, TLAPS

-----------------------------------------------------------------------------
(***************************************************************************)
(* Types and order.  An insert under way has a login its request did not   *)
(* see; the documents only grow at the end, so it stays unseen, and when   *)
(* it is carried out every document of its login is behind what was seen.  *)
(***************************************************************************)
OrderInv == MongoTypeOK /\ DuplicatesOnlyByRace /\ KnownIsStored

\* The collection with one more document at its end.
LEMMA DocumentAdded ==
  ASSUME MongoTypeOK, NEW d \in Document, users' = Append(users, d)
  PROVE  /\ users' \in Seq(Document)
         /\ Len(users) \in Nat /\ Len(users') = Len(users) + 1
         /\ DOMAIN users = 1 .. Len(users)
         /\ DOMAIN users' = 1 .. (Len(users) + 1)
         /\ \A i \in 1 .. Len(users) : users'[i] = users[i]
         /\ users'[Len(users) + 1] = d
BY DEF MongoTypeOK

\* What was unseen stays so.
LEMMA StaysUnseen ==
  ASSUME MongoTypeOK, NEW d \in Document, users' = Append(users, d),
         NEW e \in Document, Unseen(e)
  PROVE  Unseen(e)'
<1>1. e.seen \in Nat
  BY DEF Document
<1>2. \A i \in 1 .. e.seen : i \in 1 .. Len(users)
  BY <1>1, DocumentAdded DEF Unseen
<1> QED BY <1>1, <1>2, DocumentAdded DEF Unseen

\* An insert that is carried out.
LEMMA AddKeepsOrder ==
  ASSUME OrderInv, NEW d \in Document, Unseen(d), users' = Append(users, d),
         NEW L \in SUBSET {d.login}, known' = known \cup L,
         request' \in [Task -> {Idle} \cup Inserting],
         \A t \in Task : request'[t] = request[t] \/ request'[t] = Idle,
         late' \subseteq late, timeouts' = timeouts
  PROVE  OrderInv'
<1> DEFINE n == Len(users) + 1
<1>1. /\ users' \in Seq(Document)
      /\ Len(users) \in Nat /\ Len(users') = n
      /\ DOMAIN users = 1 .. Len(users)
      /\ DOMAIN users' = 1 .. n
      /\ \A i \in 1 .. Len(users) : users'[i] = users[i]
      /\ users'[n] = d
  BY DocumentAdded DEF OrderInv
<1>2. d.login \in Login /\ d.seen \in Nat /\ d.seen < n
  BY <1>1 DEF Document, Unseen
<1>3. \A i \in 1 .. n : i # n => i \in 1 .. Len(users)
  BY <1>1
<1> HIDE DEF n
<1>4. \A e \in Document : Unseen(e) =>
        /\ e.seen <= Len(users')
        /\ \A i \in 1 .. e.seen : users'[i].login # e.login
  BY StaysUnseen DEF OrderInv, Unseen
<1>5. Idle.pc = "idle"
  BY DEF Idle
<1>6. MongoTypeOK'
  <2>1. \A i \in DOMAIN users' : users'[i].seen < i
    BY <1>1, <1>2, <1>3 DEF OrderInv, MongoTypeOK
  <2>2. \A t \in Pending' : t \in Pending /\ request'[t] = request[t]
    BY <1>5 DEF Pending
  <2>3. \A t \in Pending : request[t].doc \in Document
    BY <1>5 DEF OrderInv, MongoTypeOK, Pending, Inserting
  <2>4. \A t \in Pending' :
          /\ request'[t].doc.seen <= Len(users')
          /\ \A i \in 1 .. request'[t].doc.seen :
               users'[i].login # request'[t].doc.login
    BY <1>4, <2>2, <2>3 DEF OrderInv, MongoTypeOK
  <2>5. \A m \in late : m.doc \in Document
    BY DEF OrderInv, MongoTypeOK, Late
  <2>6. \A m \in late' :
          /\ m.doc.seen <= Len(users')
          /\ \A i \in 1 .. m.doc.seen : users'[i].login # m.doc.login
          /\ m.nr < timeouts
    BY <1>4, <2>5 DEF OrderInv, MongoTypeOK
  <2>7. known' \subseteq Login /\ late' \subseteq Late /\ timeouts' \in 0 .. MaxTimeouts
    BY <1>2 DEF OrderInv, MongoTypeOK
  <2> QED BY <1>1, <2>1, <2>4, <2>6, <2>7 DEF MongoTypeOK, Unseen
<1>7. DuplicatesOnlyByRace'
  <2> SUFFICES ASSUME NEW i \in 1 .. n, NEW j \in 1 .. n, i < j,
                      users'[i].login = users'[j].login
               PROVE  users'[j].seen < i
    BY <1>1 DEF DuplicatesOnlyByRace
  <2>1. i \in 1 .. Len(users) /\ i # n
    BY <1>1, <1>3 DEF n
  <2>2. CASE j = n
    <3>1. users[i].login = d.login
      BY <1>1, <2>1, <2>2
    <3>2. i \notin 1 .. d.seen
      BY <3>1 DEF Unseen
    <3> QED BY <1>1, <1>2, <2>1, <2>2, <3>2
  <2>3. CASE j # n
    <3>1. j \in 1 .. Len(users)
      BY <1>3, <2>3
    <3> QED BY <1>1, <2>1, <3>1 DEF OrderInv, DuplicatesOnlyByRace
  <2> QED BY <2>2, <2>3
<1>8. KnownIsStored'
  <2>1. n \in 1 .. n
    BY <1>1 DEF n
  <2>2. \A i \in 1 .. Len(users) : i \in 1 .. n
    BY <1>1 DEF n
  <2>3. \A l \in known : Docs(l)' # {}
    BY <1>1, <2>2 DEF OrderInv, KnownIsStored, Docs
  <2>4. \A l \in L : Docs(l)' # {}
    BY <1>1, <2>1 DEF Docs
  <2> QED BY <2>3, <2>4 DEF KnownIsStored, Docs
<1> QED BY <1>6, <1>7, <1>8 DEF OrderInv

\* Every other step leaves the collection alone.
LEMMA OthersKeepOrder ==
  ASSUME OrderInv, UNCHANGED users,
         request' \in [Task -> {Idle} \cup Inserting],
         \A t \in Pending' : Unseen(request'[t].doc),
         late' \subseteq Late, timeouts' \in 0 .. MaxTimeouts,
         \A m \in late' : Unseen(m.doc) /\ m.nr < timeouts',
         known' \subseteq Login, \A l \in known' \ known : Docs(l) # {}
  PROVE  OrderInv'
<1>1. MongoTypeOK' /\ DuplicatesOnlyByRace'
  BY DEF OrderInv, MongoTypeOK, DuplicatesOnlyByRace, Unseen
<1>2. KnownIsStored'
  BY DEF OrderInv, KnownIsStored, Docs
<1> QED BY <1>1, <1>2 DEF OrderInv

LEMMA OrderInit == MongoInit => OrderInv
<1> SUFFICES ASSUME MongoInit PROVE OrderInv
  OBVIOUS
<1> USE MongoAssumption
<1>1. /\ InitialUsers \in Seq(Login)
      /\ users = [i \in 1 .. Len(InitialUsers) |->
                    [login |-> InitialUsers[i], seen |-> 0]]
      /\ Len(InitialUsers) \in Nat
  BY DEF MongoInit
<1>2. \A i \in 1 .. Len(InitialUsers) :
        [login |-> InitialUsers[i], seen |-> 0] \in Document
  BY <1>1 DEF Document
<1>3. /\ users \in Seq(Document)
      /\ DOMAIN users = 1 .. Len(InitialUsers)
      /\ \A i \in DOMAIN users : users[i].seen = 0 /\ i > 0
  BY <1>1, <1>2
<1>4. Pending = {} /\ request \in [Task -> {Idle} \cup Inserting]
  BY DEF MongoInit, Pending, Idle
<1>5. MongoTypeOK
  BY <1>3, <1>4 DEF MongoTypeOK, MongoInit
<1>6. DuplicatesOnlyByRace /\ KnownIsStored
  BY <1>3 DEF DuplicatesOnlyByRace, KnownIsStored, MongoInit
<1> QED BY <1>5, <1>6 DEF OrderInv

\* A look-up that finds nothing leaves a request whose document is unseen; one
\* insert that fails or is given up changes hands or vanishes.
LEMMA OrderStep == OrderInv /\ [MongoNext]_mongoVars => OrderInv'
<1> SUFFICES ASSUME OrderInv, [MongoNext]_mongoVars
             PROVE  OrderInv'
  OBVIOUS
<1>i. Idle.pc = "idle"
  BY DEF Idle
<1>t. /\ users \in Seq(Document) /\ Len(users) \in Nat
      /\ DOMAIN users = 1 .. Len(users)
      /\ request \in [Task -> {Idle} \cup Inserting]
      /\ \A t \in Pending : request[t].doc \in Document /\ Unseen(request[t].doc)
      /\ late \subseteq Late /\ timeouts \in 0 .. MaxTimeouts
      /\ \A m \in late : Unseen(m.doc) /\ m.nr < timeouts
      /\ known \subseteq Login
  BY <1>i DEF OrderInv, MongoTypeOK, Pending, Inserting
\* Requests that end.
<1>e. ASSUME NEW t \in Task, request' = [request EXCEPT ![t] = Idle]
      PROVE  /\ request' \in [Task -> {Idle} \cup Inserting]
             /\ \A s \in Task : request'[s] = request[s] \/ request'[s] = Idle
             /\ \A s \in Pending' : s \in Pending /\ request'[s] = request[s]
  BY <1>i, <1>t, <1>e DEF Pending
<1>1. ASSUME NEW t \in Task, NEW l \in Login, FindNone(t, l)
      PROVE  OrderInv'
  <2> DEFINE d == [login |-> l, seen |-> Len(users)]
             r == [pc |-> "insert", doc |-> d]
  <2>1. d \in Document /\ r \in Inserting /\ r.doc = d
    BY <1>t DEF Document, Inserting
  <2>2. Unseen(d)
    BY <1>1, <1>t DEF FindNone, Docs, Unseen
  <2>3. request' = [request EXCEPT ![t] = r] /\ UNCHANGED <<users, late, timeouts, known>>
    BY <1>1 DEF FindNone
  <2> HIDE DEF d, r
  <2>4. /\ request' \in [Task -> {Idle} \cup Inserting]
        /\ \A s \in Task : request'[s] = IF s = t THEN r ELSE request[s]
    BY <1>t, <2>1, <2>3
  <2>5. \A s \in Pending' : Unseen(request'[s].doc)
    <3> SUFFICES ASSUME NEW s \in Pending'
                 PROVE  Unseen(request'[s].doc)
      OBVIOUS
    <3>1. CASE s = t
      BY <2>1, <2>2, <2>4, <3>1 DEF Pending
    <3>2. CASE s # t
      <4>1. s \in Pending /\ request'[s] = request[s]
        BY <2>4, <3>2 DEF Pending
      <4> QED BY <1>t, <4>1
    <3> QED BY <3>1, <3>2
  <2> QED BY <1>t, <2>3, <2>4, <2>5, OthersKeepOrder
<1>2. ASSUME NEW t \in Task, NEW l \in Login, FindExisting(t, l)
      PROVE  OrderInv'
  <2>1. /\ known' = known \cup {l} /\ Docs(l) # {}
        /\ UNCHANGED <<users, request, late, timeouts>>
    BY <1>2 DEF FindExisting
  <2>2. Pending' = Pending
    BY <2>1 DEF Pending
  <2> QED BY <1>t, <2>1, <2>2, OthersKeepOrder
<1>3. ASSUME NEW t \in Task, InsertOne(t)
      PROVE  OrderInv'
  <2> DEFINE d == request[t].doc
  <2>1. t \in Pending /\ d \in Document /\ Unseen(d)
    BY <1>3, <1>t DEF InsertOne, Pending
  <2>2. /\ users' = Append(users, d) /\ request' = [request EXCEPT ![t] = Idle]
        /\ known' = known \cup {d.login} /\ UNCHANGED <<late, timeouts>>
    BY <1>3 DEF InsertOne
  <2> HIDE DEF d
  <2> QED BY <1>e, <2>1, <2>2, AddKeepsOrder
<1>4. ASSUME NEW t \in Task, InsertFails(t)
      PROVE  OrderInv'
  <2>1. request' = [request EXCEPT ![t] = Idle] /\ UNCHANGED <<users, late, timeouts, known>>
    BY <1>4 DEF InsertFails
  <2> QED BY <1>e, <1>t, <2>1, OthersKeepOrder
<1>5. ASSUME NEW t \in Task, InsertTimesOut(t)
      PROVE  OrderInv'
  <2> DEFINE m == [doc |-> request[t].doc, nr |-> timeouts]
  <2>1. /\ request' = [request EXCEPT ![t] = Idle] /\ UNCHANGED <<users, known>>
        /\ late' = late \cup {m} /\ timeouts < MaxTimeouts /\ timeouts' = timeouts + 1
    BY <1>5 DEF InsertTimesOut
  <2>2. m \in Late /\ Unseen(m.doc) /\ m.nr = timeouts
    <3>1. t \in Pending
      BY <1>5 DEF InsertTimesOut, Pending
    <3> QED BY <1>t, <3>1 DEF Late
  <2> HIDE DEF m
  <2>3. timeouts' \in 0 .. MaxTimeouts
    BY <1>t, <2>1, MongoAssumption
  <2>4. \A w \in late' : Unseen(w.doc) /\ w.nr < timeouts'
    BY <1>t, <2>1, <2>2, MongoAssumption DEF Late
  <2> QED BY <1>e, <1>t, <2>1, <2>2, <2>3, <2>4, OthersKeepOrder
<1>6. ASSUME NEW m \in late, ArrivesLate(m)
      PROVE  OrderInv'
  <2>1. m.doc \in Document /\ Unseen(m.doc)
    BY <1>t DEF Late
  <2>2. /\ users' = Append(users, m.doc) /\ late' \subseteq late
        /\ UNCHANGED <<request, timeouts, known>>
    BY <1>6 DEF ArrivesLate
  <2>3. known' = known \cup {}
    BY <2>2
  <2> QED BY <1>t, <2>1, <2>2, <2>3, AddKeepsOrder
<1>7. ASSUME NEW m \in late, IsLost(m)
      PROVE  OrderInv'
  <2>1. late' \subseteq late /\ UNCHANGED <<users, request, timeouts, known>>
    BY <1>7 DEF IsLost
  <2>2. Pending' = Pending
    BY <2>1 DEF Pending
  <2> QED BY <1>t, <2>1, <2>2, OthersKeepOrder
<1>8. ASSUME NEW q \in Query, Get(q)
      PROVE  OrderInv'
  <2>1. q \subseteq Login
    BY MongoAssumption DEF Query
  <2>2. /\ known' = known \cup {l \in q : Docs(l) # {}}
        /\ UNCHANGED <<users, request, late, timeouts>>
    BY <1>8 DEF Get
  <2>3. Pending' = Pending
    BY <2>2 DEF Pending
  <2> QED BY <1>t, <2>1, <2>2, <2>3, OthersKeepOrder
<1>9. CASE UNCHANGED mongoVars
  <2>1. Pending' = Pending
    BY <1>9 DEF mongoVars, Pending
  <2> QED BY <1>9, <1>t, <2>1, OthersKeepOrder DEF mongoVars
<1> QED BY <1>1, <1>2, <1>3, <1>4, <1>5, <1>6, <1>7, <1>8, <1>9 DEF MongoNext

\* Types and order hold in every reachable state.
THEOREM OrderInvariant == MongoSpec => []OrderInv
BY OrderInit, OrderStep, PTL DEF MongoSpec

\* Documents and requests keep the shapes of the handler, and an insert is under
\* way only for a login its look-up did not find (mongo_users_create.cpp:96).
THEOREM MongoTypeCorrect == MongoSpec => []MongoTypeOK
<1>1. OrderInv => MongoTypeOK BY DEF OrderInv
<1> QED BY <1>1, OrderInvariant, PTL

\* A second document of a login comes only from a look-up that was before the
\* first document (FindOne and InsertOne are two round trips).
THEOREM DuplicatesNeedARace == MongoSpec => []DuplicatesOnlyByRace
<1>1. OrderInv => DuplicatesOnlyByRace BY DEF OrderInv
<1> QED BY <1>1, OrderInvariant, PTL

\* What was answered 201, 409 or 200 is in the collection for good.
THEOREM AnswersAreTrue == MongoSpec => []KnownIsStored
<1>1. OrderInv => KnownIsStored BY DEF OrderInv
<1> QED BY <1>1, OrderInvariant, PTL

-----------------------------------------------------------------------------
(***************************************************************************)
(* The number of documents of a login.  A document, an insert under way    *)
(* and a given-up one each count once; a look-up adds to the count only    *)
(* while there is no document, so it stops at one for each task, and each  *)
(* insert given up allows one more.                                        *)
(***************************************************************************)
PendingFor(l) == {t \in Pending : request[t].doc.login = l}
LateFor(l) == {m \in late : m.doc.login = l}

Budget(l) ==
  Cardinality(Docs(l)) + Cardinality(PendingFor(l)) + Cardinality(LateFor(l))
    <= Cardinality(Task) + timeouts

BudgetInv ==
  /\ IsFiniteSet(late) /\ Cardinality(late) <= timeouts
  /\ \A l \in Login : Budget(l)

\* The three sets are finite, and two of them have bounds of their own.
LEMMA FiniteParts ==
  ASSUME MongoTypeOK, IsFiniteSet(late), NEW l \in Login
  PROVE  /\ IsFiniteSet(Docs(l)) /\ Cardinality(Docs(l)) \in Nat
         /\ IsFiniteSet(PendingFor(l)) /\ Cardinality(PendingFor(l)) \in Nat
         /\ Cardinality(PendingFor(l)) <= Cardinality(Task)
         /\ IsFiniteSet(LateFor(l)) /\ Cardinality(LateFor(l)) \in Nat
         /\ Cardinality(LateFor(l)) <= Cardinality(late)
         /\ Cardinality(Task) \in Nat /\ Cardinality(late) \in Nat
<1>1. IsFiniteSet(1 .. Len(users)) /\ Docs(l) \subseteq 1 .. Len(users)
  BY FS_Interval DEF Docs, MongoTypeOK
<1>2. PendingFor(l) \subseteq Task /\ LateFor(l) \subseteq late
  BY DEF PendingFor, Pending, LateFor
<1>3. IsFiniteSet(Docs(l)) /\ Cardinality(Docs(l)) \in Nat
  BY <1>1, FS_Subset, FS_CardinalityType
<1>4. /\ IsFiniteSet(PendingFor(l)) /\ Cardinality(PendingFor(l)) <= Cardinality(Task)
      /\ IsFiniteSet(LateFor(l)) /\ Cardinality(LateFor(l)) <= Cardinality(late)
  BY <1>2, FS_Subset, MongoAssumption
<1> QED BY <1>3, <1>4, FS_CardinalityType, MongoAssumption

LEMMA BudgetInit == MongoInit => BudgetInv
<1> SUFFICES ASSUME MongoInit PROVE BudgetInv
  OBVIOUS
<1>1. MongoTypeOK
  BY OrderInit DEF OrderInv
<1>2. IsFiniteSet(late) /\ Cardinality(late) = 0 /\ timeouts = 0
  BY FS_EmptySet DEF MongoInit
<1>3. Cardinality(Task) \in Nat /\ Cardinality(Task) >= 1
  <2>1. Cardinality(Task) \in Nat /\ Cardinality(Task) # 0
    BY MongoAssumption, FS_CardinalityType, FS_EmptySet
  <2> QED BY <2>1
<1>4. ASSUME NEW l \in Login PROVE Budget(l)
  <2>1. PendingFor(l) = {} /\ LateFor(l) = {}
    BY DEF MongoInit, PendingFor, Pending, LateFor, Idle
  <2>2. Cardinality(PendingFor(l)) = 0 /\ Cardinality(LateFor(l)) = 0
    BY <2>1, FS_EmptySet
  <2>3. Cardinality(Docs(l)) <= 1
    <3>1. \A i, j \in Docs(l) : i = j
      BY MongoAssumption DEF MongoInit, Docs
    <3>2. CASE Docs(l) = {}
      BY <3>2, FS_EmptySet
    <3>3. CASE Docs(l) # {}
      <4>1. PICK i \in Docs(l) : TRUE
        BY <3>3
      <4>2. Docs(l) = {i}
        BY <3>1, <4>1
      <4>3. Cardinality({i}) = 1
        BY FS_Singleton
      <4> QED BY <4>2, <4>3
    <3> QED BY <3>2, <3>3
  <2>4. Cardinality(Docs(l)) \in Nat
    BY <1>1, <1>2, FiniteParts
  <2> QED BY <1>2, <1>3, <2>2, <2>3, <2>4 DEF Budget
<1> QED BY <1>2, <1>4 DEF BudgetInv

\* A document more: its login counts one more, the others as before.
LEMMA DocumentCounted ==
  ASSUME MongoTypeOK, NEW d \in Document, users' = Append(users, d), NEW l \in Login
  PROVE  IF l = d.login
           THEN Cardinality(Docs(l)') = Cardinality(Docs(l)) + 1
           ELSE Docs(l)' = Docs(l)
<1> DEFINE n == Len(users) + 1
<1>1. /\ Len(users) \in Nat
      /\ DOMAIN users = 1 .. Len(users)
      /\ DOMAIN users' = 1 .. n
      /\ \A i \in 1 .. Len(users) : users'[i] = users[i]
      /\ users'[n] = d
  BY DocumentAdded
<1>2. n \in 1 .. n /\ n \notin 1 .. Len(users)
  BY <1>1
<1>3. 1 .. n = 1 .. Len(users) \cup {n}
  BY <1>1
<1> HIDE DEF n
<1>4. Docs(l)' = Docs(l) \cup (IF l = d.login THEN {n} ELSE {})
  BY <1>1, <1>3 DEF Docs
<1>5. IsFiniteSet(Docs(l)) /\ n \notin Docs(l)
  <2>1. Docs(l) \subseteq 1 .. Len(users)
    BY <1>1 DEF Docs
  <2>2. IsFiniteSet(1 .. Len(users))
    BY <1>1, FS_Interval
  <2>3. IsFiniteSet(Docs(l))
    BY <2>1, <2>2, FS_Subset
  <2> QED BY <1>2, <2>1, <2>3
<1>6. CASE l = d.login
  BY <1>4, <1>5, <1>6, FS_AddElement
<1>7. CASE l # d.login
  BY <1>4, <1>7
<1> QED BY <1>6, <1>7

\* A request that ends counts no longer.
LEMMA RequestUncounted ==
  ASSUME MongoTypeOK, NEW t \in Pending, request' = [request EXCEPT ![t] = Idle],
         NEW l \in Login
  PROVE  IF l = request[t].doc.login
           THEN Cardinality(PendingFor(l)') = Cardinality(PendingFor(l)) - 1
           ELSE PendingFor(l)' = PendingFor(l)
<1>1. t \in Task /\ request \in [Task -> {Idle} \cup Inserting] /\ Idle.pc = "idle"
  BY DEF Pending, MongoTypeOK, Idle
<1>2. PendingFor(l)' = PendingFor(l) \ {t}
  <2>1. \A s \in Task : request'[s] = IF s = t THEN Idle ELSE request[s]
    BY <1>1
  <2> QED BY <1>1, <2>1 DEF PendingFor, Pending
<1>3. IsFiniteSet(PendingFor(l))
  <2>1. PendingFor(l) \subseteq Task BY DEF PendingFor, Pending
  <2> QED BY <2>1, MongoAssumption, FS_Subset
<1>4. CASE l = request[t].doc.login
  <2>1. t \in PendingFor(l) BY <1>4 DEF PendingFor
  <2> QED BY <1>2, <1>3, <1>4, <2>1, FS_RemoveElement
<1>5. CASE l # request[t].doc.login
  <2>1. t \notin PendingFor(l) BY <1>5 DEF PendingFor
  <2> QED BY <1>2, <1>5, <2>1
<1> QED BY <1>4, <1>5

\* A late insert that arrives or is lost counts no longer.
LEMMA LateUncounted ==
  ASSUME IsFiniteSet(late), NEW m \in late, late' = late \ {m}, NEW l \in Login
  PROVE  /\ IsFiniteSet(late') /\ Cardinality(late') <= Cardinality(late)
         /\ IF l = m.doc.login
              THEN Cardinality(LateFor(l)') = Cardinality(LateFor(l)) - 1
              ELSE LateFor(l)' = LateFor(l)
<1>1. IsFiniteSet(late') /\ Cardinality(late') <= Cardinality(late)
  BY FS_Subset
<1>2. LateFor(l)' = LateFor(l) \ {m}
  BY DEF LateFor
<1>3. IsFiniteSet(LateFor(l))
  BY FS_Subset DEF LateFor
<1>4. CASE l = m.doc.login
  <2>1. m \in LateFor(l) BY <1>4 DEF LateFor
  <2> QED BY <1>1, <1>2, <1>3, <1>4, <2>1, FS_RemoveElement
<1>5. CASE l # m.doc.login
  <2>1. m \notin LateFor(l) BY <1>5 DEF LateFor
  <2> QED BY <1>1, <1>2, <1>5, <2>1
<1> QED BY <1>4, <1>5

LEMMA BudgetStep ==
  OrderInv /\ OrderInv' /\ BudgetInv /\ [MongoNext]_mongoVars => BudgetInv'
<1> SUFFICES ASSUME OrderInv, OrderInv', BudgetInv, [MongoNext]_mongoVars
             PROVE  BudgetInv'
  OBVIOUS
<1>t. /\ MongoTypeOK /\ MongoTypeOK' /\ IsFiniteSet(late)
      /\ Cardinality(late) <= timeouts /\ timeouts \in Nat
      /\ \A l \in Login : Budget(l)
  BY MongoAssumption DEF OrderInv, BudgetInv, MongoTypeOK
<1>f. \A l \in Login :
        /\ Cardinality(Docs(l)) \in Nat
        /\ Cardinality(PendingFor(l)) \in Nat
        /\ Cardinality(PendingFor(l)) <= Cardinality(Task)
        /\ Cardinality(LateFor(l)) \in Nat
        /\ Cardinality(LateFor(l)) <= Cardinality(late)
        /\ Cardinality(Task) \in Nat /\ Cardinality(late) \in Nat
  BY <1>t, FiniteParts
<1>1. ASSUME NEW t \in Task, NEW l \in Login, FindNone(t, l)
      PROVE  BudgetInv'
  <2>1. /\ Docs(l) = {} /\ request[t].pc = "idle" /\ UNCHANGED <<users, late, timeouts>>
        /\ request' = [request EXCEPT ![t] =
             [pc |-> "insert", doc |-> [login |-> l, seen |-> Len(users)]]]
    BY <1>1 DEF FindNone
  <2>2. ASSUME NEW k \in Login
        PROVE  /\ Docs(k)' = Docs(k) /\ LateFor(k)' = LateFor(k)
               /\ k # l => PendingFor(k)' = PendingFor(k)
    <3>1. \A s \in Task : s # t => request'[s] = request[s]
      BY <1>t, <2>1 DEF MongoTypeOK
    <3>2. t \notin Pending /\ request'[t].doc.login = l
      BY <1>t, <2>1 DEF MongoTypeOK, Pending
    <3> QED BY <2>1, <3>1, <3>2 DEF Docs, LateFor, PendingFor, Pending
  <2>3. ASSUME NEW k \in Login PROVE Budget(k)'
    <3>1. CASE k = l
      <4>1. PendingFor(l)' \subseteq Task
        BY DEF PendingFor, Pending
      <4>2. /\ Cardinality(PendingFor(l)') \in Nat
            /\ Cardinality(PendingFor(l)') <= Cardinality(Task)
        BY <4>1, MongoAssumption, FS_Subset, FS_CardinalityType
      <4>3. Cardinality(Docs(l)) = 0
        BY <2>1, FS_EmptySet
      <4>4. Cardinality(Docs(l)') = 0 /\ Cardinality(LateFor(l)') <= timeouts
        BY <1>t, <1>f, <2>2, <4>3
      <4> QED BY <1>t, <1>f, <2>1, <2>2, <3>1, <4>2, <4>4 DEF Budget
    <3>2. CASE k # l
      BY <1>t, <2>1, <2>2, <3>2 DEF Budget
    <3> QED BY <3>1, <3>2
  <2> QED BY <1>t, <2>1, <2>3 DEF BudgetInv
<1>2. ASSUME NEW t \in Task, InsertOne(t)
      PROVE  BudgetInv'
  <2> DEFINE d == request[t].doc
  <2>1. t \in Pending /\ d \in Document
    BY <1>2, <1>t DEF InsertOne, Pending, MongoTypeOK, Inserting, Idle
  <2>2. /\ users' = Append(users, d) /\ request' = [request EXCEPT ![t] = Idle]
        /\ UNCHANGED <<late, timeouts>>
    BY <1>2 DEF InsertOne
  <2>3. ASSUME NEW l \in Login PROVE Budget(l)'
    <3>1. IF l = d.login
            THEN Cardinality(Docs(l)') = Cardinality(Docs(l)) + 1
            ELSE Docs(l)' = Docs(l)
      BY <1>t, <2>1, <2>2, DocumentCounted
    <3>2. IF l = d.login
            THEN Cardinality(PendingFor(l)') = Cardinality(PendingFor(l)) - 1
            ELSE PendingFor(l)' = PendingFor(l)
      BY <1>t, <2>1, <2>2, RequestUncounted
    <3>3. LateFor(l)' = LateFor(l)
      BY <2>2 DEF LateFor
    <3> HIDE DEF d
    <3> QED BY <1>t, <1>f, <2>2, <3>1, <3>2, <3>3 DEF Budget
  <2> QED BY <1>t, <2>2, <2>3 DEF BudgetInv
<1>3. ASSUME NEW t \in Task, InsertFails(t)
      PROVE  BudgetInv'
  <2>1. /\ t \in Pending /\ request' = [request EXCEPT ![t] = Idle]
        /\ UNCHANGED <<users, late, timeouts>>
    BY <1>3 DEF InsertFails, Pending
  <2>2. ASSUME NEW l \in Login PROVE Budget(l)'
    <3>1. \/ Cardinality(PendingFor(l)') = Cardinality(PendingFor(l)) - 1
          \/ PendingFor(l)' = PendingFor(l)
      BY <1>t, <2>1, RequestUncounted
    <3>2. Docs(l)' = Docs(l) /\ LateFor(l)' = LateFor(l)
      BY <2>1 DEF Docs, LateFor
    <3> QED BY <1>t, <1>f, <2>1, <3>1, <3>2 DEF Budget
  <2> QED BY <1>t, <2>1, <2>2 DEF BudgetInv
<1>4. ASSUME NEW t \in Task, InsertTimesOut(t)
      PROVE  BudgetInv'
  <2> DEFINE m == [doc |-> request[t].doc, nr |-> timeouts]
  <2>1. /\ t \in Pending /\ request' = [request EXCEPT ![t] = Idle]
        /\ UNCHANGED users /\ late' = late \cup {m} /\ timeouts' = timeouts + 1
    BY <1>4 DEF InsertTimesOut, Pending
  <2>2. m.doc = request[t].doc /\ m.nr = timeouts
    OBVIOUS
  <2> HIDE DEF m
  <2>3. m \notin late
    BY <1>t, <2>2 DEF MongoTypeOK, Late
  <2>4. IsFiniteSet(late') /\ Cardinality(late') = Cardinality(late) + 1
    BY <1>t, <2>1, <2>3, FS_AddElement
  <2>5. ASSUME NEW l \in Login PROVE Budget(l)'
    <3>1. IF l = m.doc.login
            THEN Cardinality(PendingFor(l)') = Cardinality(PendingFor(l)) - 1
            ELSE PendingFor(l)' = PendingFor(l)
      BY <1>t, <2>1, <2>2, RequestUncounted
    <3>2. Docs(l)' = Docs(l)
      BY <2>1 DEF Docs
    <3>3. LateFor(l)' = LateFor(l) \cup (IF l = m.doc.login THEN {m} ELSE {})
      BY <2>1 DEF LateFor
    <3>4. IF l = m.doc.login
            THEN Cardinality(LateFor(l)') = Cardinality(LateFor(l)) + 1
            ELSE LateFor(l)' = LateFor(l)
      <4>1. m \notin LateFor(l) /\ IsFiniteSet(LateFor(l))
        BY <1>t, <2>3, FS_Subset DEF LateFor
      <4> QED BY <3>3, <4>1, FS_AddElement
    <3> QED BY <1>t, <1>f, <2>1, <3>1, <3>2, <3>4 DEF Budget
  <2> QED BY <1>f, <1>t, <2>1, <2>4, <2>5, FS_CardinalityType DEF BudgetInv
<1>5. ASSUME NEW m \in late, ArrivesLate(m)
      PROVE  BudgetInv'
  <2>1. /\ users' = Append(users, m.doc) /\ late' = late \ {m}
        /\ UNCHANGED <<request, timeouts>>
    BY <1>5 DEF ArrivesLate
  <2>2. m.doc \in Document /\ m.doc.login \in Login
    BY <1>t DEF MongoTypeOK, Late, Document
  <2>3. IsFiniteSet(late') /\ Cardinality(late') <= Cardinality(late)
    BY <1>t, <2>1, <2>2, LateUncounted
  <2>4. ASSUME NEW l \in Login PROVE Budget(l)'
    <3>1. IF l = m.doc.login
            THEN Cardinality(Docs(l)') = Cardinality(Docs(l)) + 1
            ELSE Docs(l)' = Docs(l)
      BY <1>t, <2>1, <2>2, DocumentCounted
    <3>2. IF l = m.doc.login
            THEN Cardinality(LateFor(l)') = Cardinality(LateFor(l)) - 1
            ELSE LateFor(l)' = LateFor(l)
      BY <1>t, <2>1, LateUncounted
    <3>3. PendingFor(l)' = PendingFor(l)
      BY <2>1 DEF PendingFor, Pending
    <3> QED BY <1>t, <1>f, <2>1, <3>1, <3>2, <3>3 DEF Budget
  <2>5. Cardinality(late') <= timeouts'
    <3>1. Cardinality(late') \in Nat /\ Cardinality(late) \in Nat
      BY <1>t, <2>3, FS_CardinalityType
    <3> QED BY <1>t, <2>1, <2>3, <3>1
  <2> QED BY <2>3, <2>4, <2>5 DEF BudgetInv
<1>6. ASSUME NEW m \in late, IsLost(m)
      PROVE  BudgetInv'
  <2>1. late' = late \ {m} /\ UNCHANGED <<users, request, timeouts>>
    BY <1>6 DEF IsLost
  <2>2. IsFiniteSet(late') /\ Cardinality(late') <= Cardinality(late)
    BY <1>t, <2>1, FS_Subset
  <2>3. ASSUME NEW l \in Login PROVE Budget(l)'
    <3>1. \/ Cardinality(LateFor(l)') = Cardinality(LateFor(l)) - 1
          \/ LateFor(l)' = LateFor(l)
      BY <1>t, <2>1, LateUncounted
    <3>2. Docs(l)' = Docs(l) /\ PendingFor(l)' = PendingFor(l)
      BY <2>1 DEF Docs, PendingFor, Pending
    <3> QED BY <1>t, <1>f, <2>1, <3>1, <3>2 DEF Budget
  <2>4. Cardinality(late') <= timeouts'
    <3>1. Cardinality(late') \in Nat /\ Cardinality(late) \in Nat
      BY <1>t, <2>2, FS_CardinalityType
    <3> QED BY <1>t, <2>1, <2>2, <3>1
  <2> QED BY <2>2, <2>3, <2>4 DEF BudgetInv
<1>7. CASE UNCHANGED <<users, request, late, timeouts>>
  BY <1>7, <1>t DEF BudgetInv, Budget, Docs, PendingFor, Pending, LateFor
<1> QED BY <1>1, <1>2, <1>3, <1>4, <1>5, <1>6, <1>7
        DEF MongoNext, mongoVars, FindExisting, Get

\* A login never has more documents than tasks serve at once, and one for each
\* insert given up, however many POSTs there are (mongo_users_create.cpp:96).
THEOREM DuplicatesHaveABound == MongoSpec => []DuplicatesAreBounded
<1>1. MongoSpec => []BudgetInv
  BY BudgetInit, BudgetStep, OrderInvariant, PTL DEF MongoSpec
<1>2. OrderInv /\ BudgetInv => DuplicatesAreBounded
  <2> SUFFICES ASSUME OrderInv, BudgetInv, NEW l \in Login
               PROVE  Cardinality(Docs(l)) <= Cardinality(Task) + timeouts
    BY DEF DuplicatesAreBounded
  <2>1. /\ Cardinality(Docs(l)) \in Nat /\ Cardinality(PendingFor(l)) \in Nat
        /\ Cardinality(LateFor(l)) \in Nat /\ Cardinality(Task) \in Nat
    BY FiniteParts DEF OrderInv, BudgetInv
  <2>2. timeouts \in Nat
    BY MongoAssumption DEF OrderInv, MongoTypeOK
  <2> QED BY <2>1, <2>2 DEF BudgetInv, Budget
<1> QED BY <1>1, <1>2, OrderInvariant, PTL
=============================================================================
