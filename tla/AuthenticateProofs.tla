------------------------- MODULE AuthenticateProofs -------------------------
(***************************************************************************)
(* Proofs about post_handler: a token is only ever signed for the user    *)
(* whose username and password the request carried, for every set of     *)
(* ids, usernames and passwords.                                           *)
(***************************************************************************)
EXTENDS Authenticate, TLAPS

\* The invariant behind TokenOnlyForOwner: the row the query returned is
\* a row of the table with the request's username, and after
\* verify_password the request's password matches that row's hash.
AuthInv ==
    /\ TypeOK
    /\ TokenOnlyForOwner
    /\ stage \in {"fetched", "verified"} =>
           user \in users /\ user.username = request.username
    /\ stage = "verified" => Verify(request.password, user.password)

LEMMA AuthInvInit == Init => AuthInv
<1> SUFFICES ASSUME Init PROVE AuthInv
  OBVIOUS
<1>1. QED
  BY EmptyAssumption DEF Init, AuthInv, TypeOK, TokenOnlyForOwner, Stages,
     NoResponse, Errors, Err, TokenResponses, Token

LEMMA AuthInvStep == AuthInv /\ [Next]_vars => AuthInv'
<1> SUFFICES ASSUME AuthInv, [Next]_vars PROVE AuthInv'
  OBVIOUS
<1> USE DEF AuthInv, TypeOK, Stages
<1>1. CASE Receive
  BY <1>1 DEF Receive, TokenOnlyForOwner, NoResponse
<1>2. CASE RejectEmpty
  BY <1>2 DEF RejectEmpty, TokenOnlyForOwner, Err, Errors
<1>3. CASE GetConnection
  BY <1>3 DEF GetConnection, TokenOnlyForOwner, Err, Errors
<1>4. CASE FetchUser
  <2>1. CASE \E r \in users : r.username = request.username /\ user' = r
                               /\ stage' = "fetched" /\ UNCHANGED response
    <3>1. user' \in users /\ user' \in Rows
      BY <2>1 DEF UsersTables
    <3>2. QED
      BY <1>4, <2>1, <3>1 DEF FetchUser, TokenOnlyForOwner
  <2>2. CASE stage' = "done" /\ response' = Err("WrongCredentials")
             /\ UNCHANGED user
    BY <1>4, <2>2 DEF FetchUser, TokenOnlyForOwner, Err, Errors
  <2>3. QED
    BY <1>4, <2>1, <2>2 DEF FetchUser
<1>5. CASE VerifyPassword
  BY <1>5 DEF VerifyPassword, TokenOnlyForOwner, Err, Errors
<1>6. CASE CreateToken
  <2>1. user \in users /\ user.username = request.username
        /\ Verify(request.password, user.password)
    BY <1>6 DEF CreateToken
  <2>2. user.id \in Ids
    BY <2>1 DEF UsersTables, Rows
  <2>3. TokenOnlyForOwner'
    BY <1>6, <2>1 DEF CreateToken, TokenOnlyForOwner
  <2>4. response' \in {Err(e) : e \in Errors} \cup TokenResponses \cup {NoResponse}
    BY <1>6, <2>2 DEF CreateToken, TokenResponses, Errors
  <2>5. issued' \subseteq [id : Ids, request : [username : Names, password : Passwords]]
    BY <1>6, <2>2 DEF CreateToken
  <2>6. QED
    BY <1>6, <2>3, <2>4, <2>5 DEF CreateToken
<1>7. CASE UNCHANGED vars
  BY <1>7 DEF vars, TokenOnlyForOwner
<1>8. QED
  BY <1>1, <1>2, <1>3, <1>4, <1>5, <1>6, <1>7 DEF Next

\* Every token post_handler signs, in every reachable state and whatever
\* the table, names a user whose username the request gave and whose
\* stored Argon2 hash the request's password verifies against.
THEOREM TokenOwner == Spec => []TokenOnlyForOwner
<1>1. AuthInv => TokenOnlyForOwner
  BY DEF AuthInv
<1>2. QED
  BY AuthInvInit, AuthInvStep, <1>1, PTL DEF Spec

-----------------------------------------------------------------------------
(* LoginOutcome is inductive together with AuthInv.                        *)

LoginInv == AuthInv /\ LoginOutcome

LEMMA LoginInvInit == Init => LoginInv
BY AuthInvInit DEF Init, LoginInv, LoginOutcome

LEMMA LoginInvStep == LoginInv /\ [Next]_vars => LoginInv'
<1> SUFFICES ASSUME LoginInv, [Next]_vars PROVE LoginInv'
  OBVIOUS
<1>1. AuthInv'
  BY AuthInvStep DEF LoginInv
<1> SUFFICES LoginOutcome'
  BY <1>1 DEF LoginInv
<1> USE DEF LoginOutcome
<1>2. CASE Receive
  BY <1>2 DEF Receive
<1>3. CASE RejectEmpty
  BY <1>3 DEF RejectEmpty
<1>4. CASE GetConnection
  BY <1>4 DEF GetConnection, Err
<1>5. CASE FetchUser
  BY <1>5 DEF FetchUser, Err
<1>6. CASE VerifyPassword
  BY <1>6 DEF VerifyPassword, Err
<1>7. CASE CreateToken
  <2>1. user \in users /\ user.username = request.username
        /\ Verify(request.password, user.password)
    BY <1>7 DEF CreateToken, LoginInv, AuthInv
  <2>2. Authentic(request)
    BY <2>1 DEF Authentic
  <2>3. response'.status = "ok" => response'.sub = user.id
    BY <1>7 DEF CreateToken, Token, Err
  <2>4. QED
    BY <1>7, <2>1, <2>2, <2>3 DEF CreateToken, Authentic
<1>8. CASE UNCHANGED vars
  BY <1>8 DEF vars, LoginInv, Authentic
<1>9. QED
  BY <1>2, <1>3, <1>4, <1>5, <1>6, <1>7, <1>8 DEF Next

\* For every table and every credentials, a completed login with
\* non-empty credentials that belong to no user answers WrongCredentials
\* or an internal error (never a distinct answer for an unknown username),
\* and a token answered is for the user the credentials belong to.
THEOREM LoginCorrect == Spec => []LoginOutcome
<1>1. LoginInv => LoginOutcome
  BY DEF LoginInv
<1>2. QED
  BY LoginInvInit, LoginInvStep, <1>1, PTL DEF Spec

\* post_handler only ever answers one of its ApiServerError variants or a
\* token with the 15-minute lifetime for a user id, and every token it
\* records was signed for a user id and a well-formed request.
THEOREM AuthTypeCorrect == Spec => []TypeOK
<1>1. AuthInv => TypeOK
  BY DEF AuthInv
<1>2. QED
  BY AuthInvInit, AuthInvStep, <1>1, PTL DEF Spec

-----------------------------------------------------------------------------
(* Proof that post_handler implements LoginService.  Besides AuthInv, the *)
(* step that answers from a later stage (a failed query or verification, *)
(* the signing) needs to know that the request got past the emptiness     *)
(* check of lines 41-44.                                                  *)

RefInv ==
    /\ AuthInv
    /\ stage \in {"connected", "fetched", "verified"}
         => request.username # Empty /\ request.password # Empty

LEMMA RefInvInit == Init => RefInv
BY AuthInvInit DEF Init, RefInv

LEMMA RefInvStep == RefInv /\ [Next]_vars => RefInv'
<1> SUFFICES ASSUME RefInv, [Next]_vars PROVE RefInv'
  OBVIOUS
<1>1. AuthInv'
  BY AuthInvStep DEF RefInv
<1>2. (stage \in {"connected", "fetched", "verified"}
         => request.username # Empty /\ request.password # Empty)'
  BY DEF RefInv, Next, vars, Receive, RejectEmpty, GetConnection, FetchUser,
         VerifyPassword, CreateToken
<1>3. QED
  BY <1>1, <1>2 DEF RefInv

\* The initial state is LoginService's: no request, no answer, no token.
LEMMA RefInit == Init => LS!Init
BY DEF Init, LS!Init, Busy, NoResponse, LS!Unanswered

\* Every step of post_handler is a step of LoginService or leaves what it
\* sees unchanged.
LEMMA RefStep == RefInv /\ [Next]_vars => [LS!Next]_LS!vars
<1> SUFFICES ASSUME RefInv, [Next]_vars PROVE [LS!Next]_LS!vars
  OBVIOUS
<1> USE DEF LS!vars, Busy
<1>1. Err("MissingCredentials") = LS!Refused("MissingCredentials")
      /\ Err("InternalServerError") = LS!Refused("InternalServerError")
      /\ Err("WrongCredentials") = LS!Refused("WrongCredentials")
      /\ Err("TokenCreation") = LS!Refused("TokenCreation")
  BY DEF Err, LS!Refused
<1>2. CASE Receive
  <2>1. LS!Request
    BY <1>2 DEF Receive, LS!Request, NoResponse, LS!Unanswered
  <2>2. QED
    BY <2>1 DEF LS!Next
<1>3. CASE RejectEmpty
  <2>1. Err("MissingCredentials") \in LS!Answers(request)
    BY <1>3, <1>1 DEF RejectEmpty, LS!Answers
  <2>2. LS!Respond
    BY <1>3, <2>1 DEF RejectEmpty, LS!Respond, Err
  <2>3. QED
    BY <2>2 DEF LS!Next
\* A step that answers a request past the emptiness check with error e.
<1>4. ASSUME NEW e \in {"InternalServerError", "WrongCredentials"},
             stage \in {"received", "connected", "fetched"},
             request.username # Empty, request.password # Empty,
             stage' = "done", response' = Err(e),
             UNCHANGED <<users, request, issued>>
      PROVE  LS!Next
  <2>1. Err(e) \in LS!Answers(request)
    BY <1>4, <1>1 DEF LS!Answers
  <2>2. LS!Respond
    BY <1>4, <2>1 DEF LS!Respond, Err
  <2>3. QED
    BY <2>2 DEF LS!Next
<1>5. CASE GetConnection
  <2>1. CASE stage' = "connected" /\ UNCHANGED response
    BY <1>5, <2>1 DEF GetConnection
  <2>2. CASE stage' = "done" /\ response' = Err("InternalServerError")
    BY <1>5, <2>2, <1>4 DEF GetConnection
  <2>3. QED
    BY <1>5, <2>1, <2>2 DEF GetConnection
<1>6. CASE FetchUser
  <2>1. request.username # Empty /\ request.password # Empty
    BY <1>6 DEF FetchUser, RefInv
  <2>2. CASE stage' = "fetched" /\ UNCHANGED response
    BY <1>6, <2>2 DEF FetchUser
  <2>3. CASE stage' = "done" /\ response' = Err("WrongCredentials")
    BY <1>6, <2>1, <2>3, <1>4 DEF FetchUser
  <2>4. QED
    BY <1>6, <2>2, <2>3 DEF FetchUser
<1>7. CASE VerifyPassword
  <2>1. request.username # Empty /\ request.password # Empty
    BY <1>7 DEF VerifyPassword, RefInv
  <2>2. CASE Verify(request.password, user.password)
    BY <1>7, <2>2 DEF VerifyPassword
  <2>3. CASE ~Verify(request.password, user.password)
    BY <1>7, <2>1, <2>3, <1>4 DEF VerifyPassword
  <2>4. QED
    BY <2>2, <2>3
<1>8. CASE CreateToken
  <2>1. user \in LS!Owners(request)
    BY <1>8 DEF CreateToken, RefInv, AuthInv, LS!Owners
  <2>2. request.username # Empty /\ request.password # Empty
    BY <1>8 DEF CreateToken, RefInv
  <2>3. CASE response' = Token(user.id, TokenLifetime)
             /\ issued' = issued \cup {[id |-> user.id, request |-> request]}
    <3>1. Token(user.id, TokenLifetime) \in LS!Answers(request)
          /\ Token(user.id, TokenLifetime).status = "ok"
          /\ Token(user.id, TokenLifetime).sub = user.id
      BY <2>1, <2>2 DEF LS!Answers, LS!Granted, Token, TokenLifetime
    <3>2. LS!Respond
      BY <1>8, <2>3, <3>1 DEF CreateToken, LS!Respond
    <3>3. QED
      BY <3>2 DEF LS!Next
  <2>4. CASE response' = Err("TokenCreation") /\ UNCHANGED issued
    <3>1. Err("TokenCreation") \in LS!Answers(request)
      BY <2>1, <2>2, <1>1 DEF LS!Answers
    <3>2. LS!Respond
      BY <1>8, <2>4, <3>1 DEF CreateToken, LS!Respond, Err
    <3>3. QED
      BY <3>2 DEF LS!Next
  <2>5. QED
    BY <1>8, <2>3, <2>4 DEF CreateToken
<1>9. CASE UNCHANGED vars
  BY <1>9 DEF vars
<1>10. QED
  BY <1>2, <1>3, <1>5, <1>6, <1>7, <1>8, <1>9 DEF Next

\* For every set of ids, usernames and passwords and every users table,
\* post_handler's steps implement LoginService: each request is answered
\* once, MissingCredentials exactly for empty credentials, a token or a
\* TokenCreation failure only for the credentials of a user of the table
\* (the token for that user), and a token is recorded exactly when it is
\* answered.
THEOREM LoginRefinement == Spec => ImplementsLoginService
<1>1. Spec => []RefInv
  BY RefInvInit, RefInvStep, PTL DEF Spec
<1>2. QED
  BY <1>1, RefInit, RefStep, PTL DEF Spec, ImplementsLoginService, LS!Spec

=============================================================================
