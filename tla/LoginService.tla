---------------------------- MODULE LoginService ----------------------------
(***************************************************************************)
(* What POST /authenticate promises, one request at a time, as one atomic *)
(* step per request: a request with an empty username or password is     *)
(* refused as MissingCredentials; any other request may fail as an        *)
(* internal error or as WrongCredentials (the pool and the query can fail *)
(* whatever the table); and only a request whose credentials are those of *)
(* a user of the table may be answered a token, for that user, or fail in *)
(* signing it.  A token answered is recorded as issued, and nothing else  *)
(* is.  Authenticate shows post_handler's steps implement this.           *)
(***************************************************************************)
EXTENDS Naturals

CONSTANTS
    Names,          \* usernames a request can carry, the empty one included
    Passwords,      \* passwords a request can carry, the empty one included
    Empty,          \* the empty string
    Tables,         \* the users tables the service can run against
    Verify(_, _)    \* Verify(p, h): the password p matches the stored hash h

VARIABLES
    users,      \* the users table, read and never written
    request,    \* the credentials of the last request
    busy,       \* a request is being handled
    response,   \* the answer to the last request
    issued      \* every token signed: the user id and the request

vars == <<users, request, busy, response, issued>>

Refused(e) == [status |-> e, expires_in |-> 0, sub |-> "none"]
Granted(i) == [status |-> "ok", expires_in |-> 15 * 60, sub |-> i]
Unanswered == [status |-> "none", expires_in |-> 0, sub |-> "none"]

\* The rows the credentials belong to.
Owners(req) ==
    {r \in users : r.username = req.username /\ Verify(req.password, r.password)}

\* The answers the service may give to the credentials req.
Answers(req) ==
    IF req.username = Empty \/ req.password = Empty
    THEN {Refused("MissingCredentials")}
    ELSE {Refused("InternalServerError"), Refused("WrongCredentials")}
         \cup {Refused("TokenCreation") : r \in Owners(req)}
         \cup {Granted(r.id) : r \in Owners(req)}

Init ==
    /\ users \in Tables
    /\ request = [username |-> Empty, password |-> Empty]
    /\ busy = FALSE
    /\ response = Unanswered
    /\ issued = {}

\* A client posts credentials.
Request ==
    /\ ~busy
    /\ \E u \in Names, p \in Passwords :
         request' = [username |-> u, password |-> p]
    /\ busy' = TRUE
    /\ response' = Unanswered
    /\ UNCHANGED <<users, issued>>

\* The request is answered; a token answered is recorded as issued.
Respond ==
    /\ busy
    /\ \E a \in Answers(request) :
         /\ response' = a
         /\ issued' = IF a.status = "ok"
                      THEN issued \cup {[id |-> a.sub, request |-> request]}
                      ELSE issued
    /\ busy' = FALSE
    /\ UNCHANGED <<users, request>>

Next == Request \/ Respond

Spec == Init /\ [][Next]_vars
=============================================================================
