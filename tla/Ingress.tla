------------------------------ MODULE Ingress ------------------------------
(***************************************************************************)
(* The HTTP handler's ingress pipeline: the router picks variant 1 or 2 of *)
(* the heuristic resolver, the resolver recovers the request id, and       *)
(* handle_request dispatches on the configured encryption scheme and       *)
(* encoder (src/modules/srv-mod-handler-http/src/routes/public/            *)
(* heuristic_handler.rs).  Requests share only the read-only configuration *)
(* and nothing of one request outlives its answer, so a behaviour follows  *)
(* one request, from any path a client can send, to its answer.            *)
(***************************************************************************)
EXTENDS HeuristicPath

CONSTANTS
    UriChars,   \* the characters request paths are made of
    MaxUriLen   \* the longest request path (after its leading "/")

ASSUME MaxUriLenAssumption == MaxUriLen \in Nat

Schemes  == {"Plain", "Symmetric", "Asymmetric"}
Encoders == {"None", "Hex", "Base32", "Base64"}

\* The request paths a client can send.
Uris == SeqOf(UriChars, MaxUriLen)

\* The responses: process_body ran, a client error (400 from the
\* resolver, 404 from the router, the decoder's error response), or a
\* panic of the handler task (todo!()), after which the client gets none.
Responses == {"none", "processed", "bad_request", "not_found",
              "decode_error", "panic"}

VARIABLES
    scheme,      \* state.config.security.encryption_scheme
    encoder,     \* state.config.security.encoder
    uri,         \* the request path
    stage,       \* where the request is in the pipeline
    route,       \* the route taken, with its captures
    id,          \* the id the resolver recovered
    response     \* what the client gets

vars == <<scheme, encoder, uri, stage, route, id, response>>

Stages == {"received", "routed", "handling", "done"}

Init ==
    /\ scheme \in Schemes
    /\ encoder \in Encoders
    /\ uri \in Uris
    /\ stage = "received"
    /\ route = [route |-> "none", idPosition |-> <<>>, path |-> <<>>]
    /\ id = <<>>
    /\ response = "none"

\* Mutant: a path no route matches is answered but left in the pipeline.
RouteRequestNoFinish ==
    /\ stage = "received"
    /\ \E r \in Routes(uri) :
         /\ route' = r
         /\ stage' = "routed"
         /\ response' = IF r.route = "not_found" THEN "not_found" ELSE response
    /\ UNCHANGED <<scheme, encoder, uri, id>>

\* The router (route, lines 222-227) matches the path.
RouteRequest ==
    /\ stage = "received"
    /\ \E r \in Routes(uri) :
         /\ route' = r
         /\ IF r.route = "not_found"
            THEN stage' = "done" /\ response' = "not_found"
            ELSE stage' = "routed" /\ UNCHANGED response
    /\ UNCHANGED <<scheme, encoder, uri, id>>

\* heuristic_handler_variant_1 (lines 168-193).
HeuristicVariant1 ==
    /\ stage = "routed"
    /\ route.route = "variant1"
    /\ LET positions == IdPositions(route.idPosition)
       IN  IF positions.ok
           THEN /\ id' = Variant1Id(positions.val, route.path)
                /\ stage' = "handling"
                /\ UNCHANGED response
           ELSE /\ stage' = "done"
                /\ response' = "bad_request"
                /\ UNCHANGED id
    /\ UNCHANGED <<scheme, encoder, uri, route>>

\* heuristic_handler_variant_2 (lines 205-219).
HeuristicVariant2 ==
    /\ stage = "routed"
    /\ route.route = "variant2"
    /\ LET found == Variant2Id(route.path)
       IN  IF found.ok
           THEN /\ id' = found.val
                /\ stage' = "handling"
                /\ UNCHANGED response
           ELSE /\ stage' = "done"
                /\ response' = "bad_request"
                /\ UNCHANGED id
    /\ UNCHANGED <<scheme, encoder, uri, route>>

\* handle_request, EncryptionScheme::Plain (lines 27-45): no encoder
\* passes the body to process_body; an encoder decodes it first, and a
\* body that is not a valid encoding (decode_or_fail_response, outside
\* src/) gets the decoder's error response.
HandlePlain ==
    /\ stage = "handling"
    /\ scheme = "Plain"
    /\ stage' = "done"
    /\ \/ encoder = "None" /\ response' = "processed"
       \/ encoder # "None" /\ response' \in {"processed", "decode_error"}
    /\ UNCHANGED <<scheme, encoder, uri, route, id>>

\* handle_request, EncryptionScheme::Symmetric and ::Asymmetric (lines
\* 48-129): every encoder arm starts with todo!(), which panics.
HandleEncrypted ==
    /\ stage = "handling"
    /\ scheme \in {"Symmetric", "Asymmetric"}
    /\ stage' = "done"
    /\ response' = "panic"
    /\ UNCHANGED <<scheme, encoder, uri, route, id>>

Next ==
    \/ RouteRequest
    \/ HeuristicVariant1
    \/ HeuristicVariant2
    \/ HandlePlain
    \/ HandleEncrypted

Spec == Init /\ [][Next]_vars

-----------------------------------------------------------------------------
(* Properties.                                                             *)

TypeOK ==
    /\ scheme \in Schemes
    /\ encoder \in Encoders
    /\ uri \in Uris
    /\ stage \in Stages
    /\ route.route \in {"none", "variant1", "variant2", "not_found"}
    /\ route.idPosition \in Seq(UriChars)
    /\ route.path \in Seq(UriChars)
    /\ id \in Seq(UriChars)
    /\ response \in Responses
    /\ (stage = "done") <=> (response # "none")

\* The reference for variant 1: the decimal rendering of a position, and
\* a list of positions rendered with one separator between neighbours.
Decimal(n) ==
    LET dec[m \in Nat] ==
          IF m < 10 THEN <<DigitChars[m + 1]>>
          ELSE dec[m \div 10] \o <<DigitChars[(m % 10) + 1]>>
    IN  dec[n]

Rendered(P, S) ==
    FlattenSeq([k \in 1..Len(P) |->
                  Decimal(P[k]) \o (IF k < Len(P) THEN <<S[k]>> ELSE <<>>)])

\* The position lists the reference enumerates: each position names one
\* of the nParts parts or the place just past the last one, and a
\* rendering of at most len characters holds at most (len + 1) \div 2 of
\* them.
RefPositions(nParts, len) == SeqOf(0..nParts, (len + 1) \div 2) \ {<<>>}
RefSeparators(P) == [1..(Len(P) - 1) -> Separators \cap UriChars]

\* Spec 8, variant 1: when id_position is a list of integers joined by
\* allowed separators, the handler (lines 176-190) goes on with the id
\* made of the parts at those positions, in the listed order, a position
\* past the last part contributing the empty string and never an error.
PositionalIdExact ==
    (route.route = "variant1" /\ stage \in {"handling", "done"}) =>
        LET parts == SplitOn(route.path, {"/"})
            Part(p) == IF p < Len(parts) THEN parts[p + 1] ELSE <<>>
        IN  \A P \in RefPositions(Len(parts), Len(route.idPosition)) :
              \A S \in RefSeparators(P) :
                 route.idPosition = Rendered(P, S)
                 => /\ response \in {"none", "processed", "decode_error", "panic"}
                    /\ id = FlattenSeq([k \in 1..Len(P) |-> Part(P[k])])

\* Spec 8, variant 2: the fallback route goes on with the first part of
\* ID length when there is one, and answers BAD_REQUEST only when there is
\* none (lines 212-216).
FallbackFirstMatch ==
    (route.route = "variant2" /\ stage \in {"handling", "done"}) =>
        LET parts == SplitOn(route.path, {"/"})
        IN  IF \E k \in 1..Len(parts) : Len(parts[k]) = IdLen
            THEN /\ response # "bad_request"
                 /\ \E k \in 1..Len(parts) :
                       /\ id = parts[k]
                       /\ Len(id) = IdLen
                       /\ \A j \in 1..(k - 1) : Len(parts[j]) # IdLen
            ELSE response = "bad_request"

\* Spec 4.4: every scheme and encoder combination resolves to exactly one
\* terminal action, processing the body or a typed client error; the
\* Symmetric and Asymmetric arms of handle_request (lines 48-129) are
\* todo!() and panic instead.
EveryCombinationTerminates == response # "panic"

\* Spec 8, variant 2: a path with exactly one part of ID length among
\* decoys yields that part.  The router gives every path with two or more
\* segments to variant 1 (lines 224-225), whose first segment is then
\* parsed as positions, so the decoy in front makes the request a
\* BAD_REQUEST.
FallbackAmongDecoys ==
    LET parts == SplitOn(uri, {"/"})
        idParts == {k \in 1..Len(parts) : Len(parts[k]) = IdLen}
    IN  (Cardinality(idParts) = 1 /\ stage = "done")
            => response # "bad_request"

\* The comment of heuristic_handler_variant_2 (line 211) says the id is
\* the first 32-character segment: whenever the fallback route goes on
\* with an id, that id has IdLen characters.  The code compares
\* part.len(), a byte count, so a shorter part of multi-byte characters
\* passes.
FallbackIdCharacters ==
    (route.route = "variant2" /\ stage \in {"handling", "done"}
                              /\ response # "bad_request")
        => Len(id) = IdLen

=============================================================================
