---------------------------- MODULE Authenticate ----------------------------
(***************************************************************************)
(* The operator API's login handler, post_handler of                       *)
(* src/modules/srv-mod-operator-api/src/routes/public/authenticate.rs.     *)
(* A request carries a username and a password; the handler rejects      *)
(* empty credentials, takes a pooled connection, loads the first user with *)
(* that username (any of them: .first() has no ORDER BY), verifies the     *)
(* password against the stored Argon2 hash and signs a JWT for the user's  *)
(* id.  Requests share only the users table, which the handler reads and   *)
(* never writes; the table is any set of rows with distinct ids.           *)
(***************************************************************************)
EXTENDS Naturals, FiniteSets

CONSTANTS
    Ids,        \* user ids (cuid2 strings in the code)
    Names,      \* usernames, the empty one included
    Passwords,  \* passwords, the empty one included
    Empty       \* the empty string

ASSUME EmptyAssumption == Empty \in Names /\ Empty \in Passwords

\* The stored hash of a password; Argon2::verify_password(p, h) holds
\* exactly when h is the hash of p.
Hash(p) == <<"argon2", p>>

Verify(p, h) == h = Hash(p)

\* The users tables the handler can meet: rows with distinct ids, each
\* storing the hash of a password.  Nothing the handler relies on makes
\* usernames unique, so two rows may share one.
Rows == [id : Ids, username : Names \ {Empty}, password : {Hash(p) : p \in Passwords}]

UsersTables ==
    {T \in SUBSET Rows :
        \A r, s \in T : r.id = s.id => r = s}

\* The token lifetime, chrono::Duration::minutes(15), in seconds.
TokenLifetime == 15 * 60

Errors == {"MissingCredentials", "InternalServerError", "WrongCredentials",
           "TokenCreation"}

\* The handler's result: an ApiServerError, or the token response for a
\* user id (the signed token stands for its subject claim).
Err(e) == [status |-> e, expires_in |-> 0, sub |-> "none"]
Token(i, lifetime) == [status |-> "ok", expires_in |-> lifetime, sub |-> i]
NoResponse == [status |-> "none", expires_in |-> 0, sub |-> "none"]

NoUser == [id |-> "none", username |-> Empty, password |-> Hash(Empty)]

VARIABLES
    users,      \* the users table
    request,    \* the credentials of the request being handled
    stage,      \* where post_handler is
    user,       \* the row the query returned
    response,   \* the handler's result: an error or the token's response
    issued      \* every token signed so far: the user id and the request

vars == <<users, request, stage, user, response, issued>>

Stages == {"idle", "received", "connected", "fetched", "verified", "done"}

Init ==
    /\ users \in UsersTables
    /\ request = [username |-> Empty, password |-> Empty]
    /\ stage = "idle"
    /\ user = NoUser
    /\ response = NoResponse
    /\ issued = {}

\* A client posts /authenticate (the body is already parsed by InferBody).
Receive ==
    /\ stage \in {"idle", "done"}
    /\ \E u \in Names, p \in Passwords :
         request' = [username |-> u, password |-> p]
    /\ stage' = "received"
    /\ user' = NoUser
    /\ response' = NoResponse
    /\ UNCHANGED <<users, issued>>

\* Lines 41-44: empty username or password.
RejectEmpty ==
    /\ stage = "received"
    /\ request.username = Empty \/ request.password = Empty
    /\ stage' = "done"
    /\ response' = Err("MissingCredentials")
    /\ UNCHANGED <<users, request, user, issued>>

\* Lines 46-50: state.db_pool.get(); a pool error is an internal error.
GetConnection ==
    /\ stage = "received"
    /\ request.username # Empty /\ request.password # Empty
    /\ \/ stage' = "connected" /\ UNCHANGED response
       \/ stage' = "done" /\ response' = Err("InternalServerError")
    /\ UNCHANGED <<users, request, user, issued>>

\* Mutant: an unknown username answered as missing credentials.
FetchUserMissing ==
    /\ stage = "connected"
    /\ LET found == {r \in users : r.username = request.username}
       IN  \/ \E r \in found :
                /\ user' = r
                /\ stage' = "fetched"
                /\ UNCHANGED response
           \/ /\ stage' = "done"
              /\ response' = IF found = {} THEN Err("MissingCredentials")
                                          ELSE Err("WrongCredentials")
              /\ UNCHANGED user
    /\ UNCHANGED <<users, request, issued>>

\* Lines 52-58: the first user with this username; WrongCredentials when
\* there is none or the query fails, which it may whatever the table.
FetchUser ==
    /\ stage = "connected"
    /\ LET found == {r \in users : r.username = request.username}
       IN  \/ \E r \in found :
                /\ user' = r
                /\ stage' = "fetched"
                /\ UNCHANGED response
           \/ /\ stage' = "done"
              /\ response' = Err("WrongCredentials")
              /\ UNCHANGED user
    /\ UNCHANGED <<users, request, issued>>

\* Mutant: the verification's result is used without its negation.
VerifyPasswordInverted ==
    /\ stage = "fetched"
    /\ IF ~Verify(request.password, user.password)
       THEN stage' = "verified" /\ UNCHANGED response
       ELSE stage' = "done" /\ response' = Err("WrongCredentials")
    /\ UNCHANGED <<users, request, user, issued>>

\* Lines 60-63: Argon2::verify_password against the stored hash.
VerifyPassword ==
    /\ stage = "fetched"
    /\ IF Verify(request.password, user.password)
       THEN stage' = "verified" /\ UNCHANGED response
       ELSE stage' = "done" /\ response' = Err("WrongCredentials")
    /\ UNCHANGED <<users, request, user, issued>>

\* Mutant: expires_in reported in minutes.
CreateTokenMinutes ==
    /\ stage = "verified"
    /\ stage' = "done"
    /\ \/ /\ response' = Token(user.id, 15)
          /\ issued' = issued \cup {[id |-> user.id, request |-> request]}
       \/ /\ response' = Err("TokenCreation")
          /\ UNCHANGED issued
    /\ UNCHANGED <<users, request, user>>

\* Lines 65-82: sign the claims for user.id with a 15-minute lifetime;
\* an encoding error is TokenCreation, success answers the token.
CreateToken ==
    /\ stage = "verified"
    /\ stage' = "done"
    /\ \/ /\ response' = Token(user.id, TokenLifetime)
          /\ issued' = issued \cup {[id |-> user.id, request |-> request]}
       \/ /\ response' = Err("TokenCreation")
          /\ UNCHANGED issued
    /\ UNCHANGED <<users, request, user>>

Next ==
    \/ Receive
    \/ RejectEmpty
    \/ GetConnection
    \/ FetchUser
    \/ VerifyPassword
    \/ CreateToken

Spec == Init /\ [][Next]_vars

-----------------------------------------------------------------------------
(* Properties.                                                             *)

TokenResponses == {Token(i, TokenLifetime) : i \in Ids}

TypeOK ==
    /\ users \in UsersTables
    /\ request \in [username : Names, password : Passwords]
    /\ stage \in Stages
    /\ user \in Rows \cup {NoUser}
    /\ response \in {Err(e) : e \in Errors} \cup TokenResponses \cup {NoResponse}
    /\ issued \subseteq [id : Ids, request : [username : Names, password : Passwords]]

\* The request's credentials are those of a user of the table.
Authentic(req) ==
    \E r \in users : r.username = req.username /\ Verify(req.password, r.password)

\* Every token post_handler ever signed names a user whose username and
\* password the request presented: no token without the password.
TokenOnlyForOwner ==
    \A t \in issued :
        \E r \in users :
            /\ r.id = t.id
            /\ r.username = t.request.username
            /\ Verify(t.request.password, r.password)

\* A completed login with non-empty credentials that are not those of a
\* user is answered WrongCredentials (or an internal error) whether or not
\* the username exists, so the answer does not tell an unknown username
\* from a wrong password; and a token answered is signed for the user the
\* credentials belong to (lines 52-82).
LoginOutcome ==
    (stage = "done" /\ request.username # Empty /\ request.password # Empty)
        => /\ ~Authentic(request)
                => response.status \in {"InternalServerError", "WrongCredentials"}
           /\ response.status = "ok"
                => \E r \in users : /\ r.id = response.sub
                                   /\ r.username = request.username
                                   /\ Verify(request.password, r.password)

-----------------------------------------------------------------------------
(* Refinement: post_handler implements LoginService.  A request is being  *)
(* handled from Receive until the handler returns; the intermediate steps *)
(* of post_handler (a connection taken, a row found, a password verified) *)
(* change nothing LoginService sees.                                      *)

Busy == stage \notin {"idle", "done"}

LS == INSTANCE LoginService WITH busy <- Busy, Tables <- UsersTables

\* Every behaviour of post_handler's steps is a behaviour of LoginService:
\* each request is answered once, with an answer the credentials allow,
\* and a token is recorded exactly when one is answered.
ImplementsLoginService == LS!Spec

=============================================================================
