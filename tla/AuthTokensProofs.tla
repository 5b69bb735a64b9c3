--------------------------- MODULE AuthTokensProofs ---------------------------
(***************************************************************************)
(* Theorems about AuthTokens for any users, tasks and width of int, and    *)
(* any number of logins and restarts.                                      *)
(***************************************************************************)
EXTENDS AuthTokens, FiniteSetTheorems, TLAPS

(***************************************************************************)
(* The inductive invariant: tokens carry the user they stand for, each was *)
(* issued by this process, and its logins are numbered one by one.         *)
(***************************************************************************)
TokensCarryUsers ==
  /\ \A x \in DOMAIN tokens : tokens[x] = x[1]
  /\ \A h \in issued : h.token[1] = h.user

TokensAreIssued ==
  \A x \in DOMAIN tokens : \E h \in issued : h.run = run /\ h.token = x

LoginsAreNumbered ==
  /\ IsFiniteSet(issued)
  /\ \A h \in LoginsOf(run) : h.place < Cardinality(LoginsOf(run))

AuthInv ==
  /\ AuthTypeOK
  /\ TokensCarryUsers
  /\ TokensAreIssued
  /\ AcceptedFromThisProcess
  /\ LoginsAreNumbered

LEMMA InvInit == AuthInit => AuthInv
<1> SUFFICES ASSUME AuthInit PROVE AuthInv
  OBVIOUS
<1> USE AuthAssumption DEF AuthInit, Idle
<1>1. AuthTypeOK
  BY DEF AuthTypeOK, Int32, Request, Path
<1>2. TokensCarryUsers /\ TokensAreIssued /\ AcceptedFromThisProcess
  BY DEF TokensCarryUsers, TokensAreIssued, AcceptedFromThisProcess
<1>3. LoginsAreNumbered
  BY FS_EmptySet DEF LoginsAreNumbered, LoginsOf
<1> QED BY <1>1, <1>2, <1>3 DEF AuthInv

\* What a login adds to the logins of the process.
LEMMA LoginAdded ==
  ASSUME AuthInv, NEW t \in Task, IssueToken(t)
  PROVE  LET k == Cardinality(LoginsOf(run))
             u == request[t].user
             h == [run |-> run, place |-> k, user |-> u,
                   token |-> MakeToken(u, next_token_id)]
         IN  /\ k \in Nat /\ u \in registered
             /\ h \in Login /\ h \notin issued
             /\ issued' = issued \cup {h}
             /\ LoginsOf(run)' = LoginsOf(run) \cup {h}
             /\ Cardinality(LoginsOf(run)') = k + 1
<1> DEFINE k == Cardinality(LoginsOf(run))
           u == request[t].user
           h == [run |-> run, place |-> k, user |-> u,
                 token |-> MakeToken(u, next_token_id)]
<1> USE AuthAssumption DEF AuthInv
<1>1. IsFiniteSet(LoginsOf(run))
  <2>1. LoginsOf(run) \subseteq issued BY DEF LoginsOf
  <2> QED BY <2>1, FS_Subset DEF LoginsAreNumbered
<1>2. k \in Nat
  BY <1>1, FS_CardinalityType
<1>3. u \in registered /\ u \in UserId /\ run \in Nat /\ next_token_id \in Int32
  BY DEF IssueToken, AuthTypeOK
<1>4. h \in Login
  BY <1>2, <1>3 DEF Login, Token, MakeToken
<1>5. h \notin issued
  <2>1. ASSUME h \in issued PROVE FALSE
    <3>1. h \in LoginsOf(run) BY <2>1 DEF LoginsOf
    <3>2. h.place < k BY <3>1 DEF LoginsAreNumbered
    <3> QED BY <3>2, <1>2
  <2> QED BY <2>1
<1>6. issued' = issued \cup {h} /\ run' = run
  BY DEF IssueToken
<1>7. LoginsOf(run)' = LoginsOf(run) \cup {h}
  BY <1>6 DEF LoginsOf
<1>8. h \notin LoginsOf(run)
  BY <1>5 DEF LoginsOf
<1>9. Cardinality(LoginsOf(run)') = k + 1
  BY <1>1, <1>7, <1>8, FS_AddElement
<1> QED BY <1>2, <1>3, <1>4, <1>5, <1>6, <1>7, <1>9

\* A login keeps the invariant: its token carries its user.
LEMMA IssueKeepsInv ==
  ASSUME AuthInv, NEW t \in Task, IssueToken(t)
  PROVE  AuthInv'
<1> DEFINE k == Cardinality(LoginsOf(run))
           u == request[t].user
           x == MakeToken(u, next_token_id)
           h == [run |-> run, place |-> k, user |-> u, token |-> x]
<1>1. /\ k \in Nat /\ u \in registered
      /\ h \in Login /\ h \notin issued
      /\ issued' = issued \cup {h}
      /\ LoginsOf(run)' = LoginsOf(run) \cup {h}
      /\ Cardinality(LoginsOf(run)') = k + 1
  BY LoginAdded
<1>2. x = <<u, next_token_id>> /\ x \in Token
  BY <1>1 DEF MakeToken, Token, AuthInv, AuthTypeOK
<1>3. /\ DOMAIN tokens' = DOMAIN tokens \cup {x}
      /\ tokens'[x] = u
      /\ \A y \in DOMAIN tokens : tokens'[y] = IF y = x THEN u ELSE tokens[y]
  BY DEF IssueToken
<1>4. /\ UNCHANGED <<registered, run>>
      /\ request' = [request EXCEPT ![t] = Idle]
      /\ next_token_id' = Succ(next_token_id)
  BY DEF IssueToken
<1>5. h.run = run /\ h.token = x /\ h.user = u /\ h.place = k
  OBVIOUS
<1> HIDE DEF k, u, x, h
<1>6. Idle \in Request /\ Idle.pc = "idle"
  BY DEF Idle, Request, Path
<1>7. Succ(next_token_id) \in Int32
  BY AuthAssumption DEF AuthInv, AuthTypeOK, Succ, Int32
<1>8. AuthTypeOK'
  <2>1. request' \in [Task -> Request]
    BY <1>4, <1>6 DEF AuthInv, AuthTypeOK
  <2>2. \A s \in Task : request'[s].pc = "login" => request'[s].user \in registered
    BY <1>4, <1>6 DEF AuthInv, AuthTypeOK
  <2>3. \A y \in DOMAIN tokens' : tokens'[y] \in registered
    BY <1>1, <1>3 DEF AuthInv, AuthTypeOK
  <2>4. run \in Int /\ \A g \in issued' : g.run <= run
    BY <1>1, <1>5 DEF AuthInv, AuthTypeOK
  <2> QED BY <1>1, <1>2, <1>3, <1>4, <1>7, <2>1, <2>2, <2>3, <2>4
          DEF AuthInv, AuthTypeOK
<1>9. TokensCarryUsers'
  BY <1>1, <1>2, <1>3, <1>5 DEF AuthInv, TokensCarryUsers
<1>10. TokensAreIssued'
  BY <1>1, <1>3, <1>4, <1>5 DEF AuthInv, TokensAreIssued
<1>11. AcceptedFromThisProcess'
  <2>1. \A s \in Task : request'[s].pc = "handler" => request'[s] = request[s]
    BY <1>4, <1>6 DEF AuthInv, AuthTypeOK
  <2> QED BY <1>1, <1>4, <2>1 DEF AuthInv, AcceptedFromThisProcess
<1>12. LoginsAreNumbered'
  <2>1. IsFiniteSet(issued')
    BY <1>1, FS_AddElement DEF AuthInv, LoginsAreNumbered
  <2>2. \A g \in LoginsOf(run) : g.place \in Nat /\ g.place < k
    BY DEF AuthInv, AuthTypeOK, LoginsAreNumbered, LoginsOf, Login, k
  <2>3. \A g \in LoginsOf(run) \cup {h} : g.place < k + 1
    BY <1>1, <1>5, <2>2
  <2> QED BY <1>1, <2>1, <2>3 DEF LoginsAreNumbered
<1> QED BY <1>8, <1>9, <1>10, <1>11, <1>12 DEF AuthInv

\* Every other step leaves the tokens alone, or starts over without any.
LEMMA InvStep == AuthInv /\ [AuthNext]_authVars => AuthInv'
<1> SUFFICES ASSUME AuthInv, [AuthNext]_authVars
             PROVE  AuthInv'
  OBVIOUS
<1> USE AuthAssumption
<1>i. Idle \in Request /\ Idle.pc = "idle"
  BY DEF Idle, Request, Path
\* Steps that touch neither tokens nor logins: only registered and request count.
<1>0. ASSUME UNCHANGED <<next_token_id, tokens, run, issued>>,
             registered \subseteq registered', registered' \subseteq UserId,
             request' \in [Task -> Request],
             \A t \in Task :
               \/ request'[t] = request[t]
               \/ request'[t].pc = "idle"
               \/ request'[t].pc = "login" /\ request'[t].user \in registered
               \/ /\ request'[t].pc = "handler"
                  /\ request'[t].path = "protected" =>
                       request'[t].header \in DOMAIN tokens
      PROVE  AuthInv'
  <2>1. AuthTypeOK'
    BY <1>0 DEF AuthInv, AuthTypeOK
  <2>2. TokensCarryUsers' /\ TokensAreIssued' /\ LoginsAreNumbered'
    BY <1>0 DEF AuthInv, TokensCarryUsers, TokensAreIssued, LoginsAreNumbered, LoginsOf
  <2>3. AcceptedFromThisProcess'
    <3> SUFFICES ASSUME NEW t \in Task, request'[t].pc = "handler",
                        request'[t].path = "protected"
                 PROVE  \E h \in LoginsOf(run) : h.token = request'[t].header
      BY <1>0 DEF AcceptedFromThisProcess, LoginsOf
    <3>1. CASE request'[t] = request[t]
      BY <3>1 DEF AuthInv, AcceptedFromThisProcess
    <3>2. CASE request'[t].header \in DOMAIN tokens
      BY <3>2 DEF AuthInv, TokensAreIssued, LoginsOf
    <3> QED BY <1>0, <3>1, <3>2
  <2> QED BY <2>1, <2>2, <2>3 DEF AuthInv
<1>1. ASSUME NEW u \in UserId, CreateUser(u) PROVE AuthInv'
  <2>1. request \in [Task -> Request] /\ registered \subseteq UserId
    BY DEF AuthInv, AuthTypeOK
  <2> QED BY <1>0, <1>1, <2>1 DEF CreateUser
<1>2. ASSUME NEW t \in Task, NEW u \in UserId, FindLogin(t, u) PROVE AuthInv'
  <2> DEFINE r == [Idle EXCEPT !.pc = "login", !.user = u]
  <2>1. r \in Request /\ r.pc = "login" /\ r.user = u
    BY DEF Idle, Request, Path
  <2>2. request \in [Task -> Request] /\ registered \subseteq UserId
    BY DEF AuthInv, AuthTypeOK
  <2>3. request' = [request EXCEPT ![t] = r]
    BY <1>2 DEF FindLogin
  <2> HIDE DEF r
  <2>4. /\ request' \in [Task -> Request]
        /\ \A s \in Task : request'[s] = IF s = t THEN r ELSE request[s]
    BY <2>1, <2>2, <2>3
  <2>5. /\ u \in registered
        /\ UNCHANGED <<registered, next_token_id, tokens, run, issued>>
    BY <1>2 DEF FindLogin
  <2> QED BY <1>0, <2>1, <2>2, <2>4, <2>5
<1>3. ASSUME NEW t \in Task, IssueToken(t) PROVE AuthInv'
  BY <1>3, IssueKeepsInv
<1>4. ASSUME NEW t \in Task, NEW path \in Path, NEW header \in Token \cup {Nil},
             HandleRequest(t, path, header)
      PROVE  AuthInv'
  <2> DEFINE r == [Idle EXCEPT !.pc = "handler", !.path = path, !.header = header]
  <2>1. r \in Request /\ r.pc = "handler" /\ r.path = path /\ r.header = header
    BY DEF Idle, Request, Path
  <2>2. request \in [Task -> Request] /\ registered \subseteq UserId
    BY DEF AuthInv, AuthTypeOK
  <2>3. request' = [request EXCEPT ![t] = r]
    BY <1>4 DEF HandleRequest
  <2>4. path = "protected" => header \in DOMAIN tokens
    BY <1>4 DEF HandleRequest, IsPublicRequest, IsTokenValid
  <2>5. UNCHANGED <<registered, next_token_id, tokens, run, issued>>
    BY <1>4 DEF HandleRequest
  <2> HIDE DEF r
  <2>6. /\ request' \in [Task -> Request]
        /\ \A s \in Task : request'[s] = IF s = t THEN r ELSE request[s]
    BY <2>1, <2>2, <2>3
  <2> QED BY <1>0, <2>1, <2>2, <2>4, <2>5, <2>6
<1>5. ASSUME NEW t \in Task, Answer(t) PROVE AuthInv'
  <2>1. request \in [Task -> Request] /\ registered \subseteq UserId
    BY DEF AuthInv, AuthTypeOK
  <2>2. /\ request' = [request EXCEPT ![t] = Idle]
        /\ UNCHANGED <<registered, next_token_id, tokens, run, issued>>
    BY <1>5 DEF Answer
  <2>3. /\ request' \in [Task -> Request]
        /\ \A s \in Task : request'[s] = IF s = t THEN Idle ELSE request[s]
    BY <1>i, <2>1, <2>2
  <2> QED BY <1>0, <1>i, <2>1, <2>2, <2>3
<1>6. CASE Restart
  <2>1. /\ run \in 0 .. MaxRestarts /\ \A h \in issued : h.run <= run
        /\ issued \subseteq Login /\ registered \subseteq UserId
    BY DEF AuthInv, AuthTypeOK
  <2>2. /\ run < MaxRestarts /\ run' = run + 1 /\ next_token_id' = 1
        /\ DOMAIN tokens' = {} /\ request' = [t \in Task |-> Idle]
        /\ registered' = registered /\ issued' = issued
    BY <1>6 DEF Restart
  <2>3. \A h \in issued : h.run \in Nat /\ h.run <= run'
    BY <2>1, <2>2 DEF Login
  <2>4. request' \in [Task -> Request] /\ \A t \in Task : request'[t].pc = "idle"
    BY <1>i, <2>2
  <2>5. run' \in 0 .. MaxRestarts /\ next_token_id' \in Int32
    BY <2>1, <2>2 DEF Int32
  <2>6. AuthTypeOK'
    BY <2>1, <2>2, <2>3, <2>4, <2>5 DEF AuthTypeOK
  <2>7. LoginsOf(run)' = {}
    BY <2>1, <2>2, <2>3 DEF LoginsOf
  <2>8. TokensCarryUsers' /\ TokensAreIssued' /\ AcceptedFromThisProcess'
    BY <2>2, <2>4 DEF AuthInv, TokensCarryUsers, TokensAreIssued, AcceptedFromThisProcess
  <2>9. LoginsAreNumbered'
    BY <2>2, <2>7 DEF AuthInv, LoginsAreNumbered
  <2> QED BY <2>6, <2>8, <2>9 DEF AuthInv
<1>7. CASE UNCHANGED authVars
  <2>1. request \in [Task -> Request] /\ registered \subseteq UserId
    BY DEF AuthInv, AuthTypeOK
  <2> QED BY <1>0, <1>7, <2>1 DEF authVars
<1> QED BY <1>1, <1>2, <1>3, <1>4, <1>5, <1>6, <1>7 DEF AuthNext

\* The invariant holds in every reachable state.
THEOREM AuthInvariant == AuthSpec => []AuthInv
BY InvInit, InvStep, PTL DEF AuthSpec

\* The counter stays an int, tokens name registered users, requests keep the
\* shapes of the handlers (TaxiStorage::Login, AuthMiddleware).
THEOREM AuthTypeCorrect == AuthSpec => []AuthTypeOK
<1>1. AuthInv => AuthTypeOK BY DEF AuthInv
<1> QED BY <1>1, AuthInvariant, PTL

\* Whatever a client sends, a protected handler runs only with a token that a
\* login of the running process was given (AuthMiddleware::HandleRequest).
THEOREM AcceptedOnlyIfIssued == AuthSpec => []AcceptedFromThisProcess
<1>1. AuthInv => AcceptedFromThisProcess BY DEF AuthInv
<1> QED BY <1>1, AuthInvariant, PTL

\* Over restarts and wrap-around, an accepted token stands for the user it was
\* issued to (MakeToken puts the user's id into it).
THEOREM TokensIdentify == AuthSpec => []TokenIdentifiesUser
<1>1. AuthInv => TokenIdentifiesUser
  BY DEF AuthInv, TokensCarryUsers, TokenIdentifiesUser, IsTokenValid
<1> QED BY <1>1, AuthInvariant, PTL

-----------------------------------------------------------------------------
(***************************************************************************)
(* Why no two logins share a token: up to the 2^w-th login of a process    *)
(* the counter has shown that many different numbers, and every token in   *)
(* the table has one of them.                                              *)
(***************************************************************************)
Ints == 2 * (MaxInt + 1)

\* The number of the login that k others came before, for k up to Ints.
Number(k) == IF k + 1 <= MaxInt THEN k + 1 ELSE k + 1 - Ints

NumbersAreFresh ==
  LET k == Cardinality(LoginsOf(run))
  IN  k <= Ints =>
        /\ next_token_id = Number(k)
        /\ IsFiniteSet(DOMAIN tokens)
        /\ Cardinality(DOMAIN tokens) = k
        /\ \A x \in DOMAIN tokens : \E j \in 0 .. (k - 1) : x[2] = Number(j)

\* A process starts without logins and tokens, at number 1.
LEMMA NumbersStart ==
  ASSUME LoginsOf(run) = {}, DOMAIN tokens = {}, next_token_id = 1
  PROVE  NumbersAreFresh
<1>1. Cardinality({}) = 0 /\ IsFiniteSet({})
  BY FS_EmptySet
<1>2. Number(0) = 1
  BY AuthAssumption DEF Number, Ints
<1> QED BY <1>1, <1>2 DEF NumbersAreFresh

\* A login takes the next number, which no token in the table has.
LEMMA IssueKeepsNumbers ==
  ASSUME AuthInv, NumbersAreFresh, NEW t \in Task, IssueToken(t)
  PROVE  NumbersAreFresh'
<1> DEFINE k == Cardinality(LoginsOf(run))
           x == MakeToken(request[t].user, next_token_id)
<1>1. /\ k \in Nat
      /\ Cardinality(LoginsOf(run)') = k + 1
  BY LoginAdded
<1>2. /\ DOMAIN tokens' = DOMAIN tokens \cup {x}
      /\ x[2] = next_token_id
      /\ next_token_id' = Succ(next_token_id)
  BY DEF IssueToken, MakeToken
<1>3. k <= Ints =>
        /\ next_token_id = Number(k)
        /\ IsFiniteSet(DOMAIN tokens)
        /\ Cardinality(DOMAIN tokens) = k
        /\ \A y \in DOMAIN tokens : \E j \in 0 .. (k - 1) : y[2] = Number(j)
  BY DEF NumbersAreFresh
<1> HIDE DEF k, x
<1>4. SUFFICES ASSUME k + 1 <= Ints
               PROVE  /\ next_token_id' = Number(k + 1)
                      /\ IsFiniteSet(DOMAIN tokens')
                      /\ Cardinality(DOMAIN tokens') = k + 1
                      /\ \A y \in DOMAIN tokens' :
                           \E j \in 0 .. k : y[2] = Number(j)
  <2>1. (k + 1) - 1 = k
    BY <1>1
  <2> QED BY <1>1, <2>1 DEF NumbersAreFresh, Number, Ints
<1>6. k <= Ints
  BY <1>1, <1>4, AuthAssumption DEF Ints
<1>7. Succ(Number(k)) = Number(k + 1)
  BY <1>1, <1>4, AuthAssumption DEF Succ, Number, Ints
<1>8. \A j \in 0 .. (k - 1) : Number(j) # Number(k)
  BY <1>1, <1>4, AuthAssumption DEF Number, Ints
<1>9. x \notin DOMAIN tokens
  BY <1>2, <1>3, <1>6, <1>8
<1>10. IsFiniteSet(DOMAIN tokens') /\ Cardinality(DOMAIN tokens') = k + 1
  BY <1>2, <1>3, <1>6, <1>9, FS_AddElement
<1>11. \A y \in DOMAIN tokens' : \E j \in 0 .. k : y[2] = Number(j)
  <2>1. \A j \in 0 .. (k - 1) : j \in 0 .. k
    BY <1>1
  <2>2. k \in 0 .. k
    BY <1>1
  <2> QED BY <1>2, <1>3, <1>6, <2>1, <2>2
<1> QED BY <1>2, <1>3, <1>6, <1>7, <1>10, <1>11

LEMMA NumbersStep ==
  AuthInv /\ NumbersAreFresh /\ [AuthNext]_authVars => NumbersAreFresh'
<1> SUFFICES ASSUME AuthInv, NumbersAreFresh, [AuthNext]_authVars
             PROVE  NumbersAreFresh'
  OBVIOUS
<1>1. ASSUME NEW t \in Task, IssueToken(t) PROVE NumbersAreFresh'
  BY <1>1, IssueKeepsNumbers
<1>2. CASE Restart
  <2>1. LoginsOf(run)' = {}
    BY <1>2 DEF Restart, LoginsOf, AuthInv, AuthTypeOK, Login
  <2>2. DOMAIN tokens' = {} /\ next_token_id' = 1
    BY <1>2 DEF Restart
  <2>3. Cardinality({}) = 0 /\ IsFiniteSet({})
    BY FS_EmptySet
  <2>4. Number(0) = 1
    BY AuthAssumption DEF Number, Ints
  <2> QED BY <2>1, <2>2, <2>3, <2>4 DEF NumbersAreFresh, Number, Ints
<1>3. CASE UNCHANGED <<next_token_id, tokens, run, issued>>
  BY <1>3 DEF NumbersAreFresh, Number, Ints, LoginsOf
<1> QED BY <1>1, <1>2, <1>3
        DEF AuthNext, authVars, CreateUser, FindLogin, HandleRequest, Answer

\* No two of the first 2^w logins of a process share a token (the counter is
\* read and advanced under token_mutex_).
THEOREM LoginsGetTheirTokens == AuthSpec => []EveryLoginHasItsToken
<1>1. AuthInit => NumbersAreFresh
  <2>1. AuthInit => LoginsOf(run) = {} /\ DOMAIN tokens = {} /\ next_token_id = 1
    BY DEF AuthInit, LoginsOf
  <2> QED BY <2>1, NumbersStart
<1>2. AuthSpec => []NumbersAreFresh
  BY <1>1, NumbersStep, AuthInvariant, PTL DEF AuthSpec
<1>3. NumbersAreFresh => EveryLoginHasItsToken
  BY DEF NumbersAreFresh, EveryLoginHasItsToken, Ints
<1> QED BY <1>2, <1>3, PTL
=============================================================================
