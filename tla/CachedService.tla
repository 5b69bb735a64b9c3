----------------------------- MODULE CachedService -----------------------------
(***************************************************************************)
(* The HTTP handlers of src/src/handlers over the tables and over the      *)
(* ResponseCache of src/src/performance/simple_performance.hpp.            *)
(*                                                                         *)
(* A GET looks its key up, and on a miss reads the tables and fills the    *)
(* entry; a POST or PATCH changes the tables, and then invalidates a       *)
(* prefix of the keys.  Each of these is one step and other requests run   *)
(* in between: the cache's mutex covers one call of the cache, no more.    *)
(*                                                                         *)
(* A storage call that changes the tables is the atomic call of            *)
(* TaxiStorage (RideTransactions shows why it may be).  Requests that end  *)
(* with 400, 401, 404, 409 or 429 before a change do nothing here.  The    *)
(* reads ask for a replica (kSlave); the one host of docker-compose.yaml   *)
(* is the master, so they see every commit.                                *)
(*                                                                         *)
(* The body of an answer is the set of rows it lists.  The time to live of *)
(* an entry is not counted: an entry may expire at any moment.  That also  *)
(* covers Get reading the clock before it waits for the mutex.             *)
(***************************************************************************)
EXTENDS TaxiStorage

CONSTANTS Task,          \* requests the service works on at the same time
          Mask,          \* values of name_mask
          NameMatches,   \* NameMatches[m]: users whose full name matches m
          Polled         \* the keys that clients ask for

VARIABLES cache,         \* the live entries: a function from keys to bodies
          request        \* request[t]: where request t is

serviceVars == <<vars, cache, request>>

LoginKey(l) == <<"users:login:", l>>
MaskKey(m) == <<"users:name_mask:", m>>
HistoryKey(u) == <<"rides:history:", u>>
ActiveKey == <<"rides:active">>

UsersPrefix == {LoginKey(l) : l \in Login} \cup {MaskKey(m) : m \in Mask}
DriversPrefix == {}       \* no handler caches drivers
RidesPrefix == {HistoryKey(u) : u \in UserId} \cup {ActiveKey}

Key == UsersPrefix \cup RidesPrefix

ASSUME ServiceAssumption ==
  /\ NameMatches \in [Mask -> SUBSET UserId]
  /\ Polled \subseteq Key

\* The rows that kSelectUserByLogin, kFindUsersByMask, kSelectRidesByUserId and
\* kSelectActiveRides return for a key.
UserRows(us, S) == {<<u, us[u]>> : u \in {v \in S : us[v] # Nil}}
RideRows(rs, S) == {<<r, rs[r]>> : r \in S}

View(k, us, rs) ==
  CASE k[1] = "users:login:" ->
         UserRows(us, {u \in UserId : us[u] = k[2]})
    [] k[1] = "users:name_mask:" ->
         UserRows(us, NameMatches[k[2]])
    [] k[1] = "rides:history:" ->
         RideRows(rs, {r \in RideId : rs[r].passenger = k[2]})
    [] OTHER ->
         RideRows(rs, {r \in RideId : rs[r].status \in {"searching", "accepted"}})

CurrentView(k) == View(k, users, rides)

(***************************************************************************)
(* pc names the next step of a request: read the tables, fill the entry    *)
(* with the body it read, or invalidate a prefix.                          *)
(***************************************************************************)
NoRequest == [pc |-> "idle", key |-> ActiveKey, body |-> {}, prefix |-> {}]

End(t) == request' = [request EXCEPT ![t] = NoRequest]

ServiceInit ==
  /\ Init
  /\ cache = [k \in {} |-> {}]
  /\ request = [t \in Task |-> NoRequest]

-----------------------------------------------------------------------------
(* GET /users and GET /rides *)

\* Get returns nullopt.  A hit is the answer and changes nothing.
Miss(t, k) ==
  /\ request[t].pc = "idle"
  /\ k \notin DOMAIN cache
  /\ request' = [request EXCEPT ![t].pc = "read", ![t].key = k]
  /\ UNCHANGED <<vars, cache>>

\* The empty answer for an unknown login is cached like any other.
Read_CachesNotFound(t) ==
  /\ request[t].pc = "read"
  /\ request' = [request EXCEPT ![t].pc = "fill",
                                ![t].body = CurrentView(request[t].key)]
  /\ UNCHANGED <<vars, cache>>

\* The SELECT.  A login that nobody has is answered with 404 and not cached.
Read(t) ==
  LET body == CurrentView(request[t].key) IN
  /\ request[t].pc = "read"
  /\ \/ /\ request[t].key \in {LoginKey(l) : l \in Login}
        /\ body = {}
        /\ End(t)
     \/ /\ request[t].key \notin {LoginKey(l) : l \in Login} \/ body # {}
        /\ request' = [request EXCEPT ![t].pc = "fill", ![t].body = body]
  /\ UNCHANGED <<vars, cache>>

\* Every body is stored under the key of the active rides.
Fill_OneKey(t) ==
  /\ request[t].pc = "fill"
  /\ cache' = [k \in DOMAIN cache \cup {ActiveKey} |->
                 IF k = ActiveKey THEN request[t].body ELSE cache[k]]
  /\ End(t)
  /\ UNCHANGED vars

\* Set, and the answer with X-Cache: MISS.
Fill(t) ==
  /\ request[t].pc = "fill"
  /\ cache' = [k \in DOMAIN cache \cup {request[t].key} |->
                 IF k = request[t].key THEN request[t].body ELSE cache[k]]
  /\ End(t)
  /\ UNCHANGED vars

\* Get does not test expires_at.
Expire_Never(k) ==
  /\ k \notin Key
  /\ UNCHANGED serviceVars

\* The time to live of an entry has passed: the next Get will erase it.
Expire(k) ==
  /\ k \in DOMAIN cache
  /\ cache' = [j \in DOMAIN cache \ {k} |-> cache[j]]
  /\ UNCHANGED <<vars, request>>

-----------------------------------------------------------------------------
(* POST and PATCH: the storage call has succeeded, prefix is not yet cleared *)

Owes(t, prefix) ==
  /\ request[t].pc = "idle"
  /\ request' = [request EXCEPT ![t].pc = "invalidate", ![t].prefix = prefix]
  /\ UNCHANGED cache

UsersCreate(t) ==
  /\ Owes(t, UsersPrefix)
  /\ \E u \in UserId, l \in Login : CreateUser(u, l)

DriversCreate(t) ==
  /\ Owes(t, DriversPrefix)
  /\ \E d \in DriverId, u \in UserId, c \in Car, l \in License :
        CreateDriver(d, u, c, l)

RidesCreate(t) ==
  /\ Owes(t, RidesPrefix)
  /\ \E r \in RideId, u \in UserId : CreateRide(r, u)

\* The handler clears the prefix of another table; or none at all.
RidesAccept_WrongPrefix(t) ==
  /\ Owes(t, DriversPrefix)
  /\ \E r \in RideId, d \in DriverId : AcceptRide(r, d)

RidesAccept_NoInvalidation(t) ==
  /\ request[t].pc = "idle"
  /\ \E r \in RideId, d \in DriverId : AcceptRide(r, d)
  /\ UNCHANGED <<cache, request>>

RidesAccept(t) ==
  /\ Owes(t, RidesPrefix)
  /\ \E r \in RideId, d \in DriverId : AcceptRide(r, d)

RidesComplete(t) ==
  /\ Owes(t, RidesPrefix)
  /\ \E r \in RideId : CompleteRide(r)

\* InvalidatePrefix, and the answer 200 or 201.
Invalidate(t) ==
  /\ request[t].pc = "invalidate"
  /\ cache' = [k \in DOMAIN cache \ request[t].prefix |-> cache[k]]
  /\ End(t)
  /\ UNCHANGED vars

-----------------------------------------------------------------------------
(* What may fail *)

\* The change is committed but its acknowledgement is lost: the storage call
\* throws, the answer is 500 and nothing is invalidated.
ChangeUnacknowledged ==
  /\ Next
  /\ UNCHANGED <<cache, request>>

\* The SELECT throws.
ReadFails(t) ==
  /\ request[t].pc = "read"
  /\ End(t)
  /\ UNCHANGED <<vars, cache>>

\* The process starts anew: the tables stay, the cache and the requests go.
Restart ==
  /\ cache' = [k \in {} |-> {}]
  /\ request' = [t \in Task |-> NoRequest]
  /\ UNCHANGED vars

-----------------------------------------------------------------------------

Serve ==
  \/ \E t \in Task :
       \/ \E k \in Polled : Miss(t, k)
       \/ Read(t)
       \/ Fill(t)
       \/ UsersCreate(t)
       \/ DriversCreate(t)
       \/ RidesCreate(t)
       \/ RidesAccept(t)
       \/ RidesComplete(t)
       \/ Invalidate(t)
  \/ \E k \in Key : Expire(k)

Fail ==
  \/ ChangeUnacknowledged
  \/ \E t \in Task : ReadFails(t)
  \/ Restart

ServiceSpec == ServiceInit /\ [][Serve \/ Fail]_serviceVars

\* As long as nothing fails.
ReliableSpec == ServiceInit /\ [][Serve]_serviceVars

-----------------------------------------------------------------------------
(***************************************************************************)
(* Properties                                                              *)
(***************************************************************************)

Body(k) ==
  IF k \in UsersPrefix THEN SUBSET (UserId \X Login)
                       ELSE SUBSET (RideId \X Ride)

\* Live entries and requests name keys the handlers build, and every body, read
\* or cached, lists rows of the table its key is about.
ServiceTypeOK ==
  /\ TypeOK
  /\ DOMAIN cache \subseteq Key
  /\ \A k \in DOMAIN cache : cache[k] \in Body(k)
  /\ DOMAIN request = Task
  /\ \A t \in Task :
       /\ request[t].pc \in {"idle", "read", "fill", "invalidate"}
       /\ request[t].key \in Key
       /\ request[t].body \in Body(request[t].key)
       /\ request[t].prefix \in {UsersPrefix, DriversPrefix, RidesPrefix}

Stale(k) == k \in DOMAIN cache /\ cache[k] # CurrentView(k)

\* A change of k's prefix is committed and its invalidation is on the way.
Pending(k) ==
  \E t \in Task : request[t].pc = "invalidate" /\ k \in request[t].prefix

\* An existing user is found by login from the moment it exists, and what is
\* found is right: login entries are never stale, whatever races or fails,
\* because 404 is not cached and no handler changes a user.
LoginEntriesAreCurrent ==
  \A l \in Login : ~Stale(LoginKey(l))

\* Once the tables no longer change, old answers run out for good, though
\* a slow reader may still fill in an old body and an invalidation may be lost.
OldAnswersRunOut ==
  \A k \in Key : (<>[][FALSE]_vars) => <>[]~Stale(k)

\* performance_design.md:40 says that after a ride is created, accepted or
\* completed the old cache can no longer be considered up to date, and line 63
\* that a GET is answered from the cache only if the entry is up to date.
ClearedMeansCurrent == \A k \in Key : Stale(k) => Pending(k)
=============================================================================
