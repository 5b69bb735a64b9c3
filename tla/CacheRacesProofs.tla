---------------------------- MODULE CacheRacesProofs ----------------------------
(***************************************************************************)
(* What may be out of date in the ResponseCache, for any tables, keys and  *)
(* number of requests.                                                     *)
(***************************************************************************)
EXTENDS CacheRaces, TaxiStorageProofs

-----------------------------------------------------------------------------
(***************************************************************************)
(* Answers                                                                 *)
(***************************************************************************)

\* The four kinds of keys, told apart by what they begin with.
LEMMA KeyKinds ==
  ASSUME NEW k \in Key
  PROVE  /\ \/ k[1] = "users:login:" /\ k[2] \in Login
            \/ k[1] = "users:name_mask:" /\ k[2] \in Mask
            \/ k[1] = "rides:history:" /\ k[2] \in UserId
            \/ k[1] = "rides:active"
         /\ k \in UsersPrefix <=> k[1] \in {"users:login:", "users:name_mask:"}
BY DEF Key, UsersPrefix, RidesPrefix, LoginKey, MaskKey, HistoryKey, ActiveKey

\* What a SELECT for a key returns are rows of the table the key is about.
LEMMA ViewHasRows ==
  ASSUME TypeOK, NEW k \in Key
  PROVE  CurrentView(k) \in Body(k)
<1>1. \A S \in SUBSET UserId : UserRows(users, S) \in SUBSET (UserId \X Login)
  BY DEF UserRows, TypeOK, User
<1>2. \A S \in SUBSET RideId : RideRows(rides, S) \in SUBSET (RideId \X Ride)
  BY DEF RideRows, TypeOK
<1>3. CASE k[1] = "users:login:"
  <2>1. CurrentView(k) = UserRows(users, {u \in UserId : users[u] = k[2]})
    BY <1>3 DEF CurrentView, View
  <2> QED BY <1>1, <1>3, <2>1, KeyKinds DEF Body
<1>4. CASE k[1] = "users:name_mask:"
  <2>1. CurrentView(k) = UserRows(users, NameMatches[k[2]])
    BY <1>4 DEF CurrentView, View
  <2>2. NameMatches[k[2]] \in SUBSET UserId
    BY <1>4, KeyKinds, ServiceAssumption
  <2> QED BY <1>1, <1>4, <2>1, <2>2, KeyKinds DEF Body
<1>5. CASE k[1] = "rides:history:"
  <2>1. CurrentView(k) = RideRows(rides, {r \in RideId : rides[r].passenger = k[2]})
    BY <1>5 DEF CurrentView, View
  <2> QED BY <1>2, <1>5, <2>1, KeyKinds DEF Body
<1>6. CASE k[1] = "rides:active"
  <2>1. CurrentView(k) =
          RideRows(rides, {r \in RideId : rides[r].status \in {"searching", "accepted"}})
    BY <1>6 DEF CurrentView, View
  <2> QED BY <1>2, <1>6, <2>1, KeyKinds DEF Body
<1> QED BY <1>3, <1>4, <1>5, <1>6, KeyKinds

\* The answer to a key of users depends on their table alone, any other on rides.
LEMMA ViewDependsOnTable ==
  ASSUME NEW k \in Key,
         IF k \in UsersPrefix THEN users' = users ELSE rides' = rides
  PROVE  CurrentView(k)' = CurrentView(k)
<1>1. CASE k[1] = "users:login:"
  BY <1>1, KeyKinds DEF CurrentView, View
<1>2. CASE k[1] = "users:name_mask:"
  BY <1>2, KeyKinds DEF CurrentView, View
<1>3. CASE k[1] = "rides:history:"
  BY <1>3, KeyKinds DEF CurrentView, View
<1>4. CASE k[1] = "rides:active"
  BY <1>4, KeyKinds DEF CurrentView, View
<1> QED BY <1>1, <1>2, <1>3, <1>4, KeyKinds

\* A user that is found by login is found the same way for ever: logins are
\* unique and no call changes a user.
LEMMA LoginViewStays ==
  ASSUME TypeOK, [Next]_vars, NEW l \in Login, CurrentView(LoginKey(l)) # {}
  PROVE  CurrentView(LoginKey(l))' = CurrentView(LoginKey(l))
<1> DEFINE Found(us) == {u \in UserId : us[u] = l}
<1>1. \A us, rs : View(LoginKey(l), us, rs) = UserRows(us, Found(us))
  BY DEF View, LoginKey
<1>2. Found(users) # {}
  BY <1>1 DEF CurrentView, UserRows
<1>3. CASE users' = users
  BY <1>1, <1>3 DEF CurrentView
<1>4. ASSUME NEW v \in UserId, NEW m \in Login, CreateUser(v, m)
      PROVE  CurrentView(LoginKey(l))' = CurrentView(LoginKey(l))
  <2>1. m # l /\ users[v] = Nil /\ Nil # l
    BY <1>2, <1>4, StorageAssumption
    DEF CreateUser, Registered, InitialTablesWellFormed
  <2>2. \A u \in UserId : users'[u] = IF u = v THEN m ELSE users[u]
    BY <1>4 DEF CreateUser, TypeOK
  <2>3. Found(users') = Found(users)
    BY <2>1, <2>2
  <2>4. UserRows(users', Found(users)) = UserRows(users, Found(users))
    BY <2>1, <2>2 DEF UserRows
  <2> QED BY <1>1, <2>3, <2>4 DEF CurrentView
<1> QED
  BY <1>3, <1>4
  DEF Next, vars, CreateDriver, CreateRide, AcceptRide, CompleteRide

-----------------------------------------------------------------------------
(***************************************************************************)
(* Types.  A request has a body only between Read and Fill.                *)
(***************************************************************************)

Prefix == {UsersPrefix, DriversPrefix, RidesPrefix}

Request ==
  [pc     : {"idle", "read", "fill", "invalidate"},
   key    : Key,
   body   : (SUBSET (UserId \X Login)) \cup (SUBSET (RideId \X Ride)),
   prefix : Prefix]

WellFormed(q) ==
  /\ q \in Request
  /\ q.body \in Body(q.key)
  /\ q.pc # "fill" => q.body = {}

RequestsWellFormed ==
  request \in [Task -> Request] /\ \A t \in Task : WellFormed(request[t])

CacheWellFormed ==
  DOMAIN cache \subseteq Key /\ \A k \in DOMAIN cache : cache[k] \in Body(k)

TypeInv == TypeOK /\ CacheWellFormed /\ RequestsWellFormed

\* The invariant contains what the runs check.
LEMMA TypeInvGivesTypes == TypeInv => ServiceTypeOK
BY DEF TypeInv, CacheWellFormed, RequestsWellFormed, WellFormed, Request,
       Prefix, ServiceTypeOK

\* A task starts, and ends every request, without a body.
LEMMA NoRequestWellFormed == WellFormed(NoRequest)
<1>1. ActiveKey \in Key
  BY DEF Key, RidesPrefix
<1>2. {} \in Body(ActiveKey)
  BY DEF Body
<1>3. {} = DriversPrefix
  BY DEF DriversPrefix
<1>4. NoRequest \in Request
  BY <1>1, <1>3 DEF NoRequest, Request, Prefix
<1> QED BY <1>2, <1>4 DEF WellFormed, NoRequest

\* Every action of the service changes the tables by a call of the storage.
LEMMA TablesByStorage == [RaceNext]_raceVars => [Next]_vars
<1> SUFFICES ASSUME [RaceNext]_raceVars PROVE [Next]_vars
  OBVIOUS
<1>1. ASSUME NEW t \in Task,
             \/ NoteFill(t) \/ NoteInvalidate(t) \/ Read(t) \/ ReadFails(t)
             \/ \E k \in Polled : Miss(t, k)
      PROVE  UNCHANGED vars
  BY <1>1 DEF NoteFill, Fill, NoteInvalidate, Invalidate, Read, ReadFails, Miss
<1>2. ASSUME NEW t \in Task,
             \/ UsersCreate(t) \/ DriversCreate(t) \/ RidesCreate(t)
             \/ RidesAccept(t) \/ RidesComplete(t)
      PROVE  Next
  BY <1>2 DEF UsersCreate, DriversCreate, RidesCreate, RidesAccept,
              RidesComplete, Next
<1>3. ASSUME NEW k \in Key, NoteExpire(k) PROVE UNCHANGED vars
  BY <1>3 DEF NoteExpire, Expire
<1>4. CASE NoteUnacknowledged
  BY <1>4 DEF NoteUnacknowledged, ChangeUnacknowledged
<1>5. CASE NoteRestart
  BY <1>5 DEF NoteRestart, Restart
<1>6. CASE UNCHANGED raceVars
  BY <1>6 DEF raceVars, serviceVars
<1> QED BY <1>1, <1>2, <1>3, <1>4, <1>5, <1>6 DEF RaceNext, NoteNothing

\* A request goes on, or ends, with a well-formed one.
LEMMA RequestGoesOn ==
  ASSUME RequestsWellFormed, NEW t \in Task, NEW q,
         WellFormed(q), request' = [request EXCEPT ![t] = q]
  PROVE  RequestsWellFormed'
<1>1. \A s \in Task : request'[s] = IF s = t THEN q ELSE request[s]
  BY DEF RequestsWellFormed
<1>2. request' \in [Task -> Request]
  BY DEF RequestsWellFormed, WellFormed
<1> QED BY <1>1, <1>2 DEF RequestsWellFormed, WellFormed, Body

\* Read takes rows of the key's table, Fill puts them under that key.
LEMMA TypeStep == TypeInv /\ [RaceNext]_raceVars => TypeInv'
<1> SUFFICES ASSUME TypeInv, [RaceNext]_raceVars PROVE TypeInv'
  OBVIOUS
<1>t. TypeOK'
  BY TablesByStorage, NextTypeOK DEF TypeInv
<1>r. request \in [Task -> Request] /\ \A t \in Task : WellFormed(request[t])
  BY DEF TypeInv, RequestsWellFormed
<1>e. ASSUME NEW t \in Task, End(t) PROVE RequestsWellFormed'
  BY <1>e, NoRequestWellFormed, RequestGoesOn DEF End, TypeInv
<1>c. cache' = cache => CacheWellFormed'
  BY DEF TypeInv, CacheWellFormed, Body
<1>1. ASSUME NEW t \in Task, NEW k \in Polled, Miss(t, k) PROVE TypeInv'
  <2> DEFINE q == [request[t] EXCEPT !.pc = "read", !.key = k]
  <2>1. request' = [request EXCEPT ![t] = q] /\ k \in Key
    BY <1>1, <1>r, ServiceAssumption DEF Miss
  <2>2. WellFormed(q)
    BY <1>1, <1>r, <2>1 DEF Miss, WellFormed, Request, Body
  <2> QED BY <1>1, <1>t, <1>c, <2>1, <2>2, RequestGoesOn DEF Miss, TypeInv
<1>2. ASSUME NEW t \in Task, Read(t) PROVE TypeInv'
  <2> DEFINE q == [request[t] EXCEPT !.pc = "fill", !.body = CurrentView(request[t].key)]
  <2>1. \/ End(t)
        \/ request' = [request EXCEPT ![t] = q]
    BY <1>2, <1>r DEF Read
  <2>2. request[t].key \in Key
    BY <1>r DEF Request
  <2>3. CurrentView(request[t].key) \in Body(request[t].key)
    BY <2>2, ViewHasRows DEF TypeInv
  <2>4. ASSUME NEW b \in Body(request[t].key)
        PROVE  WellFormed([request[t] EXCEPT !.pc = "fill", !.body = b])
    <3>1. b \in (SUBSET (UserId \X Login)) \cup (SUBSET (RideId \X Ride))
      BY DEF Body
    <3> QED BY <1>r, <2>2, <3>1 DEF WellFormed, Request
  <2>5. WellFormed(q)
    BY <2>3, <2>4
  <2> QED BY <1>2, <1>t, <1>c, <1>e, <2>1, <2>5, RequestGoesOn DEF Read, TypeInv
<1>3. ASSUME NEW t \in Task, Fill(t) PROVE TypeInv'
  <2>1. request[t].key \in Key /\ request[t].body \in Body(request[t].key)
    BY <1>r DEF WellFormed, Request
  <2>2. CacheWellFormed'
    BY <1>3, <2>1 DEF Fill, TypeInv, CacheWellFormed, Body
  <2> QED BY <1>3, <1>t, <1>e, <2>2 DEF Fill, TypeInv
<1>4. ASSUME NEW t \in Task, NEW P \in Prefix, Owes(t, P) PROVE TypeInv'
  <2> DEFINE q == [request[t] EXCEPT !.pc = "invalidate", !.prefix = P]
  <2>1. request' = [request EXCEPT ![t] = q]
    BY <1>4, <1>r DEF Owes
  <2>2. WellFormed(q)
    BY <1>4, <1>r DEF Owes, WellFormed, Request, Body
  <2> QED BY <1>4, <1>t, <1>c, <2>1, <2>2, RequestGoesOn DEF Owes, TypeInv
<1>5. ASSUME NEW t \in Task, Invalidate(t) PROVE TypeInv'
  <2>1. CacheWellFormed'
    BY <1>5 DEF Invalidate, TypeInv, CacheWellFormed, Body
  <2> QED BY <1>5, <1>t, <1>e, <2>1 DEF Invalidate, TypeInv
<1>6. ASSUME NEW k \in Key, Expire(k) PROVE TypeInv'
  <2>1. CacheWellFormed'
    BY <1>6 DEF Expire, TypeInv, CacheWellFormed, Body
  <2>2. RequestsWellFormed'
    BY <1>6, <1>r DEF Expire, RequestsWellFormed, WellFormed, Body
  <2> QED BY <1>t, <2>1, <2>2 DEF TypeInv
<1>7. CASE Restart
  <2>1. RequestsWellFormed' /\ CacheWellFormed'
    BY <1>7, NoRequestWellFormed
    DEF Restart, RequestsWellFormed, CacheWellFormed, WellFormed, Body
  <2> QED BY <1>t, <2>1 DEF TypeInv
<1>8. CASE UNCHANGED <<cache, request>>
  <2>1. RequestsWellFormed'
    BY <1>8, <1>r DEF RequestsWellFormed, WellFormed, Body
  <2> QED BY <1>8, <1>t, <1>c, <2>1 DEF TypeInv
<1>9. ASSUME NEW t \in Task, ReadFails(t) PROVE TypeInv'
  BY <1>9, <1>t, <1>c, <1>e DEF ReadFails, TypeInv
<1>10. NoteUnacknowledged \/ UNCHANGED raceVars => UNCHANGED <<cache, request>>
  BY DEF NoteUnacknowledged, ChangeUnacknowledged, raceVars, serviceVars
<1>11. ASSUME NoteNothing PROVE TypeInv'
  BY <1>1, <1>2, <1>4, <1>9, <1>11
  DEF NoteNothing, UsersCreate, DriversCreate, RidesCreate, RidesAccept,
      RidesComplete, Prefix
<1> QED
  BY <1>3, <1>5, <1>6, <1>7, <1>8, <1>10, <1>11
  DEF RaceNext, NoteFill, NoteInvalidate, NoteExpire, NoteRestart

-----------------------------------------------------------------------------
(***************************************************************************)
(* Races.  Neither half of RaceInv is inductive alone: an entry is as good *)
(* as the body its reader held, and a body that is old while its clearing  *)
(* is on the way is marked when that clearing comes first.                 *)
(***************************************************************************)

RaceInv == StaleOnlyByRace /\ FillsAreCurrent

\* A request that clears nothing may go on; what is on the way stays so.
LEMMA PendingStays ==
  ASSUME TypeInv, NEW t \in Task, request[t].pc # "invalidate", NEW q,
         request' = [request EXCEPT ![t] = q], NEW k, Pending(k)
  PROVE  Pending(k)'
<1>1. PICK s \in Task : request[s].pc = "invalidate" /\ k \in request[s].prefix
  BY DEF Pending
<1>2. request'[s] = request[s]
  BY <1>1 DEF TypeInv, RequestsWellFormed
<1> QED BY <1>1, <1>2 DEF Pending

\* Only the clearing of k takes k off the list.
LEMMA PendingUntilCleared ==
  ASSUME TypeInv, NEW t \in Task, Invalidate(t),
         NEW k, k \notin request[t].prefix, Pending(k)
  PROVE  Pending(k)'
<1>1. PICK s \in Task : request[s].pc = "invalidate" /\ k \in request[s].prefix
  BY DEF Pending
<1>2. request'[s] = request[s]
  BY <1>1 DEF Invalidate, End, TypeInv, RequestsWellFormed
<1> QED BY <1>1, <1>2 DEF Pending

\* Fill passes the account of its reader on to the entry.
LEMMA FillKeepsRaces ==
  ASSUME TypeInv, RaceInv, NEW t \in Task, NoteFill(t)
  PROVE  RaceInv'
<1> DEFINE key == request[t].key
<1>1. UNCHANGED vars /\ request[t].pc = "fill" /\ key \in Key
  BY DEF NoteFill, Fill, TypeInv, RequestsWellFormed, Request
<1>2. \A k \in Key : CurrentView(k)' = CurrentView(k)
  BY <1>1, ViewDependsOnTable DEF vars
<1>3. \A k \in Key : Pending(k) => Pending(k)'
  BY <1>1, PendingStays DEF NoteFill, Fill, End
<1>4. StaleOnlyByRace'
  <2> SUFFICES ASSUME NEW k \in Key, Stale(k)', ~Pending(k)'
               PROVE  k \in suspect'
    BY DEF StaleOnlyByRace
  <2>1. CASE k = key
    <3>1. cache'[k] = request[t].body
      BY <2>1 DEF NoteFill, Fill
    <3>2. t \in overtaken
      BY <1>1, <1>2, <1>3, <2>1, <3>1 DEF Stale, RaceInv, FillsAreCurrent
    <3> QED BY <2>1, <3>2 DEF NoteFill
  <2>2. CASE k # key
    <3>1. k \in DOMAIN cache /\ cache'[k] = cache[k]
      BY <2>2 DEF NoteFill, Fill, Stale
    <3>2. k \in suspect
      BY <1>2, <1>3, <3>1 DEF Stale, RaceInv, StaleOnlyByRace
    <3> QED BY <2>2, <3>2 DEF NoteFill
  <2> QED BY <2>1, <2>2
<1>5. FillsAreCurrent'
  <2> SUFFICES ASSUME NEW s \in Task, request'[s].pc = "fill", s \notin overtaken',
                      NEW k, k = request'[s].key, ~Pending(k)'
               PROVE  request'[s].body = CurrentView(k)'
    BY DEF FillsAreCurrent, Pending, CurrentView
  <2>1. s # t /\ request'[s] = request[s] /\ k \in Key
    BY DEF NoteFill, Fill, End, NoRequest, TypeInv, RequestsWellFormed, Request
  <2>2. s \notin overtaken
    BY <2>1 DEF NoteFill
  <2>3. request[s].body = CurrentView(k)
    BY <1>3, <2>1, <2>2 DEF RaceInv, FillsAreCurrent
  <2> QED BY <1>2, <2>1, <2>3
<1> QED BY <1>4, <1>5 DEF RaceInv

\* A step of one request that leaves the cache alone: what it has just read is
\* current, and what it has just changed is to be cleared.
LEMMA RequestKeepsRaces ==
  ASSUME TypeInv, RaceInv, NEW t \in Task, request[t].pc # "invalidate", NEW q,
         request' = [request EXCEPT ![t] = q],
         UNCHANGED <<cache, overtaken, suspect>>,
         q.pc = "fill" => UNCHANGED vars /\ q.body = CurrentView(q.key),
         \A k \in Key : \/ CurrentView(k)' = CurrentView(k)
                        \/ q.pc = "invalidate" /\ k \in q.prefix
  PROVE  RaceInv'
<1>1. request'[t] = q /\ \A s \in Task \ {t} : request'[s] = request[s]
  BY DEF TypeInv, RequestsWellFormed
<1>2. \A k \in Key : ~Pending(k)' =>
        ~Pending(k) /\ CurrentView(k)' = CurrentView(k)
  BY <1>1, PendingStays DEF Pending
<1>3. StaleOnlyByRace'
  BY <1>2 DEF RaceInv, StaleOnlyByRace, Stale
<1>4. FillsAreCurrent'
  <2> SUFFICES ASSUME NEW s \in Task, request'[s].pc = "fill", s \notin overtaken',
                      NEW k, k = request'[s].key, ~Pending(k)'
               PROVE  request'[s].body = CurrentView(k)'
    BY DEF FillsAreCurrent, Pending, CurrentView
  <2>1. CASE s = t
    BY <1>1, <2>1 DEF CurrentView, vars
  <2>2. CASE s # t
    <3>1. request'[s] = request[s] /\ k \in Key /\ s \notin overtaken
      BY <1>1, <2>2 DEF TypeInv, RequestsWellFormed, Request
    <3> QED BY <1>2, <3>1 DEF RaceInv, FillsAreCurrent
  <2> QED BY <2>1, <2>2
<1> QED BY <1>3, <1>4 DEF RaceInv

\* InvalidatePrefix removes the entries of the prefix; readers that hold an
\* older answer are marked.
LEMMA InvalidateKeepsRaces ==
  ASSUME TypeInv, RaceInv, NEW t \in Task, NoteInvalidate(t)
  PROVE  RaceInv'
<1> DEFINE P == request[t].prefix
<1>1. UNCHANGED vars /\ request[t].pc = "invalidate" /\ Invalidate(t)
  BY DEF NoteInvalidate, Invalidate
<1>2. \A k \in Key : CurrentView(k)' = CurrentView(k)
  BY <1>1, ViewDependsOnTable DEF vars
<1>3. \A k \in Key : k \notin P /\ Pending(k) => Pending(k)'
  BY <1>1, PendingUntilCleared
<1>4. StaleOnlyByRace'
  <2> SUFFICES ASSUME NEW k \in Key, Stale(k)', ~Pending(k)'
               PROVE  k \in suspect'
    BY DEF StaleOnlyByRace
  <2>1. k \notin P /\ k \in DOMAIN cache /\ cache'[k] = cache[k]
    BY <1>1 DEF Invalidate, Stale
  <2>2. k \in suspect
    BY <1>2, <1>3, <2>1 DEF Stale, RaceInv, StaleOnlyByRace
  <2> QED BY <2>1, <2>2 DEF NoteInvalidate
<1>5. FillsAreCurrent'
  <2> SUFFICES ASSUME NEW s \in Task, request'[s].pc = "fill", s \notin overtaken',
                      NEW k, k = request'[s].key, ~Pending(k)'
               PROVE  request'[s].body = CurrentView(k)'
    BY DEF FillsAreCurrent, Pending, CurrentView
  <2>1. s # t /\ request'[s] = request[s] /\ k \in Key
    BY <1>1 DEF Invalidate, End, NoRequest, TypeInv, RequestsWellFormed, Request
  <2>2. s \notin overtaken /\ k \notin P
    BY <2>1 DEF NoteInvalidate, Overtake, Filling
  <2>3. request[s].body = CurrentView(k)
    BY <1>3, <2>1, <2>2 DEF RaceInv, FillsAreCurrent
  <2> QED BY <1>2, <2>1, <2>3
<1> QED BY <1>4, <1>5 DEF RaceInv

\* A change that is not acknowledged marks every entry and reader it makes old.
LEMMA UnacknowledgedKeepsRaces ==
  ASSUME TypeInv, RaceInv, NoteUnacknowledged
  PROVE  RaceInv'
<1>1. PICK P \in {UsersPrefix, DriversPrefix, RidesPrefix} :
        /\ UNCHANGED <<cache, request>>
        /\ users' # users <=> P = UsersPrefix
        /\ rides' # rides <=> P = RidesPrefix
        /\ Overtake(P)
        /\ suspect' = suspect \cup (P \cap DOMAIN cache)
  BY DEF NoteUnacknowledged, ChangeUnacknowledged
<1>2. \A k \in Key \ P : CurrentView(k)' = CurrentView(k)
  BY <1>1, ViewDependsOnTable DEF Key
<1>3. \A k : Pending(k)' <=> Pending(k)
  BY <1>1 DEF Pending
<1>4. StaleOnlyByRace'
  BY <1>1, <1>2, <1>3 DEF RaceInv, StaleOnlyByRace, Stale
<1>5. FillsAreCurrent'
  <2> SUFFICES ASSUME NEW s \in Task, request'[s].pc = "fill", s \notin overtaken',
                      NEW k, k = request'[s].key, ~Pending(k)'
               PROVE  request'[s].body = CurrentView(k)'
    BY DEF FillsAreCurrent, Pending, CurrentView
  <2>1. request'[s] = request[s] /\ k \in Key
    BY <1>1 DEF TypeInv, RequestsWellFormed, Request
  <2>2. s \notin overtaken /\ k \notin P
    BY <1>1, <2>1 DEF Overtake, Filling
  <2>3. request[s].body = CurrentView(k)
    BY <1>3, <2>1, <2>2 DEF RaceInv, FillsAreCurrent
  <2> QED BY <1>2, <2>1, <2>2, <2>3
<1> QED BY <1>4, <1>5 DEF RaceInv

\* Every step of the service keeps the account of what is out of date and why.
LEMMA RaceStep == TypeInv /\ RaceInv /\ [RaceNext]_raceVars => RaceInv'
<1> SUFFICES ASSUME TypeInv, RaceInv, [RaceNext]_raceVars PROVE RaceInv'
  OBVIOUS
<1>r. request \in [Task -> Request]
  BY DEF TypeInv, RequestsWellFormed
<1>v. UNCHANGED vars => \A k \in Key : CurrentView(k)' = CurrentView(k)
  BY ViewDependsOnTable DEF vars
<1>1. ASSUME NEW t \in Task, UNCHANGED <<overtaken, suspect>>,
             Miss(t, request'[t].key) \/ Read(t) \/ ReadFails(t)
      PROVE  RaceInv'
  <2>1. PICK q : q = request'[t]
    OBVIOUS
  <2>2. request' = [request EXCEPT ![t] = q]
    BY <1>1, <1>r, <2>1 DEF Miss, Read, ReadFails, End
  <2>3. q.pc = "fill" => q.body = CurrentView(q.key)
    BY <1>1, <1>r, <2>1 DEF Miss, Read, ReadFails, End, NoRequest, Request
  <2> QED
    BY <1>1, <1>v, <2>2, <2>3, RequestKeepsRaces DEF Miss, Read, ReadFails
<1>2. ASSUME NEW t \in Task, NEW P \in Prefix, Owes(t, P),
             UNCHANGED <<overtaken, suspect>>,
             \A k \in Key \ P : CurrentView(k)' = CurrentView(k)
      PROVE  RaceInv'
  <2>1. PICK q : q = [request[t] EXCEPT !.pc = "invalidate", !.prefix = P]
    OBVIOUS
  <2>2. request' = [request EXCEPT ![t] = q]
    BY <1>2, <1>r, <2>1 DEF Owes
  <2>3. q.pc = "invalidate" /\ q.prefix = P
    BY <1>r, <2>1 DEF Request
  <2> QED
    BY <1>2, <2>2, <2>3, RequestKeepsRaces DEF Owes
<1>3. ASSUME NEW t \in Task, UsersCreate(t), UNCHANGED <<overtaken, suspect>>
      PROVE  RaceInv'
  <2>1. Owes(t, UsersPrefix) /\ rides' = rides
    BY <1>3 DEF UsersCreate, CreateUser
  <2> QED BY <1>2, <1>3, <2>1, ViewDependsOnTable DEF Prefix
<1>4. ASSUME NEW t \in Task, DriversCreate(t), UNCHANGED <<overtaken, suspect>>
      PROVE  RaceInv'
  <2>1. Owes(t, DriversPrefix) /\ users' = users /\ rides' = rides
    BY <1>4 DEF DriversCreate, CreateDriver
  <2> QED BY <1>2, <1>4, <2>1, ViewDependsOnTable DEF Prefix
<1>5. ASSUME NEW t \in Task, RidesCreate(t) \/ RidesAccept(t) \/ RidesComplete(t),
             UNCHANGED <<overtaken, suspect>>
      PROVE  RaceInv'
  <2>1. Owes(t, RidesPrefix) /\ users' = users
    BY <1>5 DEF RidesCreate, RidesAccept, RidesComplete, CreateRide, AcceptRide,
                CompleteRide
  <2>2. \A k \in Key \ RidesPrefix : CurrentView(k)' = CurrentView(k)
    BY <2>1, ViewDependsOnTable DEF Key
  <2> QED BY <1>2, <1>5, <2>1, <2>2 DEF Prefix
<1>6. ASSUME NEW k \in Key, NoteExpire(k) PROVE RaceInv'
  <2>1. /\ UNCHANGED <<vars, request, overtaken>>
        /\ \A j : Stale(j)' => j # k /\ Stale(j)
    BY <1>6 DEF NoteExpire, Expire, Stale, CurrentView, vars
  <2>2. \A j : Pending(j)' <=> Pending(j)
    BY <2>1 DEF Pending
  <2>3. StaleOnlyByRace'
    BY <1>6, <2>1, <2>2 DEF NoteExpire, RaceInv, StaleOnlyByRace
  <2>4. FillsAreCurrent'
    BY <2>1 DEF RaceInv, FillsAreCurrent, Pending, CurrentView, vars
  <2> QED BY <2>3, <2>4 DEF RaceInv
<1>7. CASE NoteRestart
  BY <1>7 DEF NoteRestart, Restart, NoRequest, RaceInv, StaleOnlyByRace,
              FillsAreCurrent, Stale
<1>8. CASE UNCHANGED raceVars
  BY <1>8 DEF raceVars, serviceVars, vars, RaceInv, StaleOnlyByRace,
              FillsAreCurrent, Stale, Pending, CurrentView
<1>9. CASE NoteNothing
  <2>1. ASSUME NEW t \in Task, NEW k \in Polled, Miss(t, k)
        PROVE  k = request'[t].key
    BY <1>r, <2>1 DEF Miss, Request
  <2> QED BY <1>1, <1>3, <1>4, <1>5, <1>9, <2>1 DEF NoteNothing
<1> QED
  BY <1>6, <1>7, <1>8, <1>9, FillKeepsRaces, InvalidateKeepsRaces,
     UnacknowledgedKeepsRaces
  DEF RaceNext

\* The service starts with an empty cache and no requests.
LEMMA RaceStart == RaceInit => TypeInv /\ RaceInv
<1> SUFFICES ASSUME RaceInit PROVE TypeInv /\ RaceInv
  OBVIOUS
<1>1. TypeOK
  BY StorageAssumption DEF RaceInit, ServiceInit, Init, TypeOK,
     InitialTablesWellFormed
<1>2. CacheWellFormed /\ RequestsWellFormed
  BY NoRequestWellFormed
  DEF RaceInit, ServiceInit, CacheWellFormed, RequestsWellFormed, WellFormed
<1>3. RaceInv
  BY DEF RaceInit, ServiceInit, RaceInv, StaleOnlyByRace, FillsAreCurrent,
     Stale, NoRequest
<1> QED BY <1>1, <1>2, <1>3 DEF TypeInv

\* Types and causes hold in every reachable state of the handlers and the cache.
THEOREM RaceInvariant == RaceSpec => [](TypeInv /\ RaceInv)
BY RaceStart, TypeStep, RaceStep, PTL DEF RaceSpec

\* Requests, keys and bodies keep their shapes through every handler and failure.
THEOREM ServiceTypeCorrect == RaceSpec => []ServiceTypeOK
BY RaceInvariant, TypeInvGivesTypes, PTL

\* An entry is out of date only while its invalidation is on the way, or by an
\* overtaken reader, or by a change the service was not told of (ResponseCache).
THEOREM StaleEntriesHaveACause == RaceSpec => []StaleOnlyByRace
<1>1. RaceInv => StaleOnlyByRace BY DEF RaceInv
<1> QED BY <1>1, RaceInvariant, PTL

\* A reader no clearing overtook is about to fill in the current rows, or a
\* clearing is on the way (the GET handlers between SELECT and Set).
THEOREM ReadersAreCurrent == RaceSpec => []FillsAreCurrent
<1>1. RaceInv => FillsAreCurrent BY DEF RaceInv
<1> QED BY <1>1, RaceInvariant, PTL

-----------------------------------------------------------------------------
(***************************************************************************)
(* Logins.  404 is not cached, so what is read or cached for a login is    *)
(* the user that has it, and that stays so.                                *)
(***************************************************************************)

IsFound(l, body) == body # {} /\ body = CurrentView(LoginKey(l))

LoginsAreFound ==
  \A l \in Login :
    /\ LoginKey(l) \in DOMAIN cache => IsFound(l, cache[LoginKey(l)])
    /\ \A t \in Task : request[t].pc = "fill" /\ request[t].key = LoginKey(l) =>
                         IsFound(l, request[t].body)

\* Every step of the service keeps what is known of logins.
LEMMA LoginStep ==
  TypeInv /\ LoginsAreFound /\ [RaceNext]_raceVars => LoginsAreFound'
<1> SUFFICES ASSUME TypeInv, LoginsAreFound, [RaceNext]_raceVars, NEW l \in Login
             PROVE  /\ LoginKey(l) \in DOMAIN cache' =>
                         IsFound(l, cache[LoginKey(l)])'
                    /\ \A t \in Task : \A body :
                         request'[t].pc = "fill" /\ request'[t].key = LoginKey(l)
                           /\ request'[t].body = body => IsFound(l, body)'
  BY DEF LoginsAreFound, IsFound, CurrentView
<1> DEFINE key == LoginKey(l)
<1>r. request \in [Task -> Request]
  BY DEF TypeInv, RequestsWellFormed
<1>1. \A body : IsFound(l, body) => IsFound(l, body)'
  BY TablesByStorage, LoginViewStays DEF IsFound, TypeInv
<1>2. \A body : key \in DOMAIN cache /\ body = cache[key] => IsFound(l, body)'
  BY <1>1 DEF LoginsAreFound
<1>3. \A t \in Task : \A body :
        request[t].pc = "fill" /\ request[t].key = key /\ request[t].body = body
          => IsFound(l, body)'
  BY <1>1 DEF LoginsAreFound
<1> DEFINE CacheGood ==
             LoginKey(l) \in DOMAIN cache' => IsFound(l, cache[LoginKey(l)])'
           RequestsGood ==
             \A t \in Task : \A body :
               request'[t].pc = "fill" /\ request'[t].key = LoginKey(l)
                 /\ request'[t].body = body => IsFound(l, body)'
<1>4. ASSUME key \in DOMAIN cache' => key \in DOMAIN cache /\ cache'[key] = cache[key]
      PROVE  CacheGood
  BY <1>2, <1>4 DEF IsFound, CurrentView
<1>5. ASSUME NEW t \in Task, NEW q, request' = [request EXCEPT ![t] = q],
             q.pc = "fill" /\ q.key = key => IsFound(l, q.body)
      PROVE  RequestsGood
  <2> SUFFICES ASSUME NEW s \in Task, NEW body, request'[s].pc = "fill",
                      request'[s].key = key, request'[s].body = body
               PROVE  IsFound(l, body)'
    OBVIOUS
  <2>1. CASE s = t
    BY <1>1, <1>5, <1>r, <2>1
  <2>2. CASE s # t
    BY <1>3, <1>5, <1>r, <2>2
  <2> QED BY <2>1, <2>2
<1>6. ASSUME NEW t \in Task, End(t) PROVE RequestsGood
  BY <1>5, <1>6 DEF End, NoRequest
<1>7. ASSUME NEW t \in Task, NEW P, Owes(t, P) PROVE CacheGood /\ RequestsGood
  <2>1. PICK q : q = [request[t] EXCEPT !.pc = "invalidate", !.prefix = P]
    OBVIOUS
  <2>2. request' = [request EXCEPT ![t] = q] /\ q.pc # "fill"
    BY <1>7, <1>r, <2>1 DEF Owes, Request
  <2> QED BY <1>4, <1>5, <1>7, <2>2 DEF Owes
<1>8. ASSUME NEW t \in Task, NEW k \in Polled, Miss(t, k)
      PROVE  CacheGood /\ RequestsGood
  <2>1. PICK q : q = [request[t] EXCEPT !.pc = "read", !.key = k]
    OBVIOUS
  <2>2. request' = [request EXCEPT ![t] = q] /\ q.pc # "fill"
    BY <1>8, <1>r, <2>1 DEF Miss, Request
  <2> QED BY <1>4, <1>5, <1>8, <2>2 DEF Miss
<1>9. ASSUME NEW t \in Task, Read(t) PROVE CacheGood /\ RequestsGood
  <2>1. CASE End(t)
    BY <1>4, <1>6, <1>9, <2>1 DEF Read
  <2>2. CASE ~End(t)
    <3>1. PICK q : q = [request[t] EXCEPT !.pc = "fill",
                                          !.body = CurrentView(request[t].key)]
      OBVIOUS
    <3>2. /\ request' = [request EXCEPT ![t] = q]
          /\ q.key = request[t].key /\ q.body = CurrentView(request[t].key)
          /\ request[t].key = key => CurrentView(request[t].key) # {}
      BY <1>9, <1>r, <2>2, <3>1 DEF Read, Request
    <3>3. q.key = key => IsFound(l, q.body)
      BY <3>2 DEF IsFound
    <3> QED BY <1>4, <1>5, <1>9, <3>2, <3>3 DEF Read
  <2> QED BY <2>1, <2>2
<1>10. ASSUME NEW t \in Task, Fill(t) PROVE CacheGood /\ RequestsGood
  <2>1. CASE request[t].key = key
    <3>1. PICK body : body = request[t].body
      OBVIOUS
    <3>2. cache'[key] = body /\ IsFound(l, body)'
      BY <1>3, <1>10, <2>1, <3>1 DEF Fill
    <3>3. CacheGood
      BY <3>2 DEF IsFound, CurrentView
    <3> QED BY <1>6, <1>10, <3>3 DEF Fill
  <2>2. CASE request[t].key # key
    BY <1>4, <1>6, <1>10, <2>2 DEF Fill
  <2> QED BY <2>1, <2>2
<1>11. ASSUME NEW t \in Task, Invalidate(t) \/ ReadFails(t)
       PROVE  CacheGood /\ RequestsGood
  BY <1>4, <1>6, <1>11 DEF Invalidate, ReadFails
<1>12. ASSUME NEW k \in Key, Expire(k) PROVE CacheGood /\ RequestsGood
  BY <1>3, <1>4, <1>12 DEF Expire
<1>13. CASE Restart
  BY <1>4, <1>13 DEF Restart, NoRequest
<1>14. CASE UNCHANGED <<cache, request>>
  BY <1>3, <1>4, <1>14
<1>15. NoteUnacknowledged \/ UNCHANGED raceVars => UNCHANGED <<cache, request>>
  BY DEF NoteUnacknowledged, ChangeUnacknowledged, raceVars, serviceVars
<1>16. NoteNothing => CacheGood /\ RequestsGood
  BY <1>7, <1>8, <1>9, <1>11
  DEF NoteNothing, UsersCreate, DriversCreate, RidesCreate, RidesAccept,
      RidesComplete
<1> QED
  BY <1>10, <1>11, <1>12, <1>13, <1>14, <1>15, <1>16
  DEF RaceNext, NoteFill, NoteInvalidate, NoteExpire, NoteRestart

\* Whatever races or fails, no entry of the ResponseCache for a login is ever out
\* of date (users_get.cpp does not cache a 404, and no call changes a user).
THEOREM LoginsStayCurrent == RaceSpec => []LoginEntriesAreCurrent
<1>1. RaceInit => LoginsAreFound
  BY DEF RaceInit, ServiceInit, LoginsAreFound, NoRequest
<1>2. RaceSpec => []LoginsAreFound
  BY <1>1, LoginStep, RaceInvariant, PTL DEF RaceSpec
<1>3. LoginsAreFound => LoginEntriesAreCurrent
  BY DEF LoginsAreFound, IsFound, LoginEntriesAreCurrent, Stale
<1> QED BY <1>2, <1>3, PTL
=============================================================================
