------------------------------ MODULE AuthTokens ------------------------------
(***************************************************************************)
(* Logins and bearer tokens: TaxiStorage::Login and IsTokenValid with      *)
(* their mutex, the handler POST /auth/login, and AuthMiddleware in front  *)
(* of every handler.  Tokens live in the memory of the process; users live *)
(* in PostgreSQL and outlast it.  A text of the form token-<user>-<number> *)
(* is the pair of the two numbers: ids of users are positive, so no two    *)
(* pairs have the same text.                                               *)
(***************************************************************************)
EXTENDS Integers, FiniteSets

CONSTANTS UserId,
          Task,           \* tasks that serve requests
          Nil,            \* no user, or no Authorization: Bearer header
          MaxInt,         \* the largest int: 2^31 - 1 in the code
          MaxLogins,      \* bound of the model: logins of one run
          MaxRestarts     \* bound of the model: restarts of the process

VARIABLES registered,     \* table users
          next_token_id,  \* TaxiStorage::next_token_id_
          tokens,         \* TaxiStorage::tokens_
          request,        \* what each task serves
          run,            \* history: the number of the process
          issued          \* history: the logins that got a token, by process

authVars == <<registered, next_token_id, tokens, request, run, issued>>

ASSUME AuthAssumption ==
  /\ MaxInt \in Nat \ {0}
  /\ MaxLogins \in Nat
  /\ MaxRestarts \in Nat
  /\ Nil \notin UserId

-----------------------------------------------------------------------------
(***************************************************************************)
(* Tokens                                                                  *)
(***************************************************************************)

Int32 == (-MaxInt - 1) .. MaxInt

\* ++ on an int; past the largest one the compiled code wraps around.
Succ(n) == IF n = MaxInt THEN -MaxInt - 1 ELSE n + 1

Token == UserId \X Int32

\* The number alone.
MakeToken_NoUser(u, n) == <<CHOOSE v \in UserId : TRUE, n>>

MakeToken(u, n) == <<u, n>>

\* A login is told apart by its place among the logins of its process.
Login == [run : Nat, place : Nat, user : UserId, token : Token]

LoginsOf(n) == {h \in issued : h.run = n}

\* The bound of the model on the logins of a process.
MayLogIn ==
  Cardinality(LoginsOf(run)) + Cardinality({t \in Task : request[t].pc = "login"})
    < MaxLogins

-----------------------------------------------------------------------------
(***************************************************************************)
(* Requests                                                                *)
(***************************************************************************)

Path == {"public", "protected"}

\* /ping, /users, /auth/login, /mongo/users and /tests/...
IsPublicRequest(path) == path = "public"

Idle == [pc |-> "idle", user |-> Nil, path |-> "public", header |-> Nil]

Request ==
  [pc : {"idle", "login", "handler"}, user : UserId \cup {Nil},
   path : Path, header : Token \cup {Nil}]

AuthInit ==
  /\ registered = {}
  /\ next_token_id = 1
  /\ tokens = [t \in {} |-> Nil]
  /\ request = [t \in Task |-> Idle]
  /\ run = 0
  /\ issued = {}

CreateUser(u) ==
  /\ u \notin registered
  /\ registered' = registered \cup {u}
  /\ UNCHANGED <<next_token_id, tokens, request, run, issued>>

\* The user is not looked for.
FindLogin_AnyUser(t, u) ==
  /\ request[t].pc = "idle"
  /\ MayLogIn
  /\ request' = [request EXCEPT ![t] = [Idle EXCEPT !.pc = "login", !.user = u]]
  /\ UNCHANGED <<registered, next_token_id, tokens, run, issued>>

\* Login up to the mutex, with the right password; any other login is answered
\* 401 and changes nothing.
FindLogin(t, u) ==
  /\ request[t].pc = "idle"
  /\ u \in registered
  /\ MayLogIn
  /\ request' = [request EXCEPT ![t] = [Idle EXCEPT !.pc = "login", !.user = u]]
  /\ UNCHANGED <<registered, next_token_id, tokens, run, issued>>

\* next_token_id_ without the increment.
IssueToken_SameId(t) ==
  LET u == request[t].user
      token == MakeToken(u, next_token_id)
      logins == Cardinality(LoginsOf(run))
  IN  /\ request[t].pc = "login"
      /\ tokens' = [x \in DOMAIN tokens \cup {token} |->
                      IF x = token THEN u ELSE tokens[x]]
      /\ issued' = issued \cup
           {[run |-> run, place |-> logins, user |-> u, token |-> token]}
      /\ request' = [request EXCEPT ![t] = Idle]
      /\ UNCHANGED <<registered, next_token_id, run>>

\* Login under token_mutex_, and the answer.
IssueToken(t) ==
  LET u == request[t].user
      token == MakeToken(u, next_token_id)
      logins == Cardinality(LoginsOf(run))
  IN  /\ request[t].pc = "login"
      /\ next_token_id' = Succ(next_token_id)
      /\ tokens' = [x \in DOMAIN tokens \cup {token} |->
                      IF x = token THEN u ELSE tokens[x]]
      /\ issued' = issued \cup
           {[run |-> run, place |-> logins, user |-> u, token |-> token]}
      /\ request' = [request EXCEPT ![t] = Idle]
      /\ UNCHANGED <<registered, run>>

IsTokenValid(token) == token \in DOMAIN tokens

\* The middleware lets a request through.  Its header may be of any kind, a
\* token of an earlier process included; what it refuses changes nothing.
HandleRequest(t, path, header) ==
  /\ request[t].pc = "idle"
  /\ \/ IsPublicRequest(path)
     \/ header # Nil /\ IsTokenValid(header)
  /\ request' =
       [request EXCEPT ![t] =
          [Idle EXCEPT !.pc = "handler", !.path = path, !.header = header]]
  /\ UNCHANGED <<registered, next_token_id, tokens, run, issued>>

\* The handler answers.
Answer(t) ==
  /\ request[t].pc = "handler"
  /\ request' = [request EXCEPT ![t] = Idle]
  /\ UNCHANGED <<registered, next_token_id, tokens, run, issued>>

\* tokens_ is loaded again, next_token_id_ is not.
Restart_KeepsTokens ==
  /\ run < MaxRestarts
  /\ run' = run + 1
  /\ next_token_id' = 1
  /\ request' = [t \in Task |-> Idle]
  /\ UNCHANGED <<registered, tokens, issued>>

\* A new process with a new TaxiStorage.
Restart ==
  /\ run < MaxRestarts
  /\ run' = run + 1
  /\ next_token_id' = 1
  /\ tokens' = [t \in {} |-> Nil]
  /\ request' = [t \in Task |-> Idle]
  /\ UNCHANGED <<registered, issued>>

AuthNext ==
  \/ \E u \in UserId : CreateUser(u)
  \/ \E t \in Task :
       \/ \E u \in UserId : FindLogin(t, u)
       \/ IssueToken(t)
       \/ \E path \in Path, header \in Token \cup {Nil} :
            HandleRequest(t, path, header)
       \/ Answer(t)
  \/ Restart

AuthSpec == AuthInit /\ [][AuthNext]_authVars

-----------------------------------------------------------------------------
(***************************************************************************)
(* Properties                                                              *)
(***************************************************************************)

\* The counter stays an int, tokens name registered users, and the history
\* lists logins of this process and earlier ones.
AuthTypeOK ==
  /\ registered \subseteq UserId
  /\ next_token_id \in Int32
  /\ DOMAIN tokens \subseteq Token
  /\ \A x \in DOMAIN tokens : tokens[x] \in registered
  /\ request \in [Task -> Request]
  /\ \A t \in Task : request[t].pc = "login" => request[t].user \in registered
  /\ run \in 0 .. MaxRestarts
  /\ issued \subseteq Login
  /\ \A h \in issued : h.run <= run

\* A request that reaches a handler behind the middleware bears a token some
\* login of the running process was given: a token of an earlier process is
\* good again only once this one has issued it to a user anew.
AcceptedFromThisProcess ==
  \A t \in Task :
    request[t].pc = "handler" /\ request[t].path = "protected" =>
      \E h \in LoginsOf(run) : h.token = request[t].header

\* Numbers start over with the process and wrap around, so a text may be issued
\* many times; but whenever a token a client was given is accepted, be it
\* processes later, it stands for the user that client logged in as.
TokenIdentifiesUser ==
  \A h \in issued : IsTokenValid(h.token) => tokens[h.token] = h.user

\* As many logins as there are ints get tokens of their own: no two logins of a
\* process, concurrent or not, share a token before the counter has come round.
EveryLoginHasItsToken ==
  LET logins == Cardinality(LoginsOf(run))
  IN  logins <= 2 * (MaxInt + 1) => Cardinality(DOMAIN tokens) = logins
=============================================================================
