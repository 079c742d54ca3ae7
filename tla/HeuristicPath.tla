--------------------------- MODULE HeuristicPath ---------------------------
(***************************************************************************)
(* The heuristic path resolver of the HTTP handler                         *)
(* (src/modules/srv-mod-handler-http/src/routes/public/heuristic_handler.rs)*)
(* as operators on strings.  A string is a sequence of one-character       *)
(* strings, so that str::split, usize parsing and byte length are modelled *)
(* by what they do; the alphabet a model uses is a CONSTANT, and so are    *)
(* its characters that take two bytes in UTF-8 (axum's Path extractor     *)
(* percent-decodes, so "%C3%A9" reaches the handler as the one character *)
(* "e-acute" of two bytes).                                                *)
(*                                                                         *)
(* The routes are "/:id_position/*path" (variant 1) and "/*path" (variant  *)
(* 2); Uri below is the request path without its leading "/".              *)
(***************************************************************************)
EXTENDS Naturals, Sequences, SequencesExt

CONSTANTS
    IdLen,      \* the fixed request id length, 32 in the code
    UsizeBits,  \* the width of usize, 64 on the server's targets
    WideChars   \* the characters of the alphabet that are two UTF-8 bytes

ASSUME IdLenAssumption == IdLen \in Nat \ {0}
ASSUME UsizeBitsAssumption == UsizeBits \in Nat \ {0}

\* The separators variant 1 accepts between positions (line 175).
Separators == {",", ";", ":", ".", "-", "_", " ", "|", "$"}

DigitChars == <<"0", "1", "2", "3", "4", "5", "6", "7", "8", "9">>

IsDigit(c) == \E d \in 1..10 : DigitChars[d] = c

DigitValue(c) == (CHOOSE d \in 1..10 : DigitChars[d] = c) - 1

\* str::split with a set of delimiter characters: the pieces between the
\* delimiters, empty ones included, so that n delimiters give n + 1 pieces.
\* split[i] is the list of pieces of the suffix that starts at i.
SplitOn(s, D) ==
    LET split[i \in 1..(Len(s) + 1)] ==
          IF \E k \in i..Len(s) : s[k] \in D
          THEN LET k == CHOOSE k \in i..Len(s) :
                            s[k] \in D /\ \A j \in i..(k - 1) : s[j] \notin D
               IN  <<SubSeq(s, i, k - 1)>> \o split[k + 1]
          ELSE <<SubSeq(s, i, Len(s))>>
    IN  split[1]

\* str::len: the number of UTF-8 bytes, one per ASCII character and two
\* per wide one.
ByteLen(s) == Len(s) + Cardinality({k \in 1..Len(s) : s[k] \in WideChars})

\* The value of a string of decimal digits; val[n] is that of its first n.
DecimalValue(s) ==
    LET val[n \in 0..Len(s)] ==
          IF n = 0 THEN 0 ELSE 10 * val[n - 1] + DigitValue(s[n])
    IN  val[Len(s)]

\* <usize as FromStr>::from_str (line 178): an optional single "+", then at
\* least one digit, and a value below 2^UsizeBits; anything else is an Err.
ParseUsize(s) ==
    LET digits == IF Len(s) > 1 /\ s[1] = "+" THEN Tail(s) ELSE s
    IN  IF /\ digits # <<>>
           /\ \A k \in 1..Len(digits) : IsDigit(digits[k])
           /\ DecimalValue(digits) < 2 ^ UsizeBits
        THEN [ok |-> TRUE, val |-> DecimalValue(digits)]
        ELSE [ok |-> FALSE, val |-> 0]

\* Lines 176-180: split id_position on the separators and parse every
\* piece; collecting into Result fails on the first piece that does not
\* parse, and the handler answers BAD_REQUEST.
IdPositions(idPosition) ==
    LET pieces == SplitOn(idPosition, Separators)
        parsed == [k \in 1..Len(pieces) |-> ParseUsize(pieces[k])]
    IN  IF \A k \in 1..Len(pieces) : parsed[k].ok
        THEN [ok |-> TRUE, val |-> [k \in 1..Len(pieces) |-> parsed[k].val]]
        ELSE [ok |-> FALSE, val |-> <<>>]

\* Mutant: positions taken as one-based.
Variant1IdOneBased(positions, path) ==
    LET parts == SplitOn(path, {"/"})
    IN  FlattenSeq([k \in 1..Len(positions) |->
                      IF positions[k] \in 1..Len(parts)
                      THEN parts[positions[k]] ELSE <<>>])

\* Lines 183-190: split the captured path on "/" and join, in order, the
\* part at each (zero-based) position, "" for a position past the end.
Variant1Id(positions, path) ==
    LET parts == SplitOn(path, {"/"})
    IN  FlattenSeq([k \in 1..Len(positions) |->
                      IF positions[k] < Len(parts)
                      THEN parts[positions[k] + 1] ELSE <<>>])

\* Mutant: the last part of ID length instead of the first.
Variant2IdLast(path) ==
    LET parts   == SplitOn(path, {"/"})
        matches == {k \in 1..Len(parts) : ByteLen(parts[k]) = IdLen}
    IN  IF matches = {}
        THEN [ok |-> FALSE, val |-> <<>>]
        ELSE [ok |-> TRUE,
              val |-> parts[CHOOSE k \in matches : \A j \in matches : k >= j]]

\* Lines 212-216: the first part whose byte length (part.len()) is IdLen,
\* or BAD_REQUEST when there is none.
Variant2Id(path) ==
    LET parts   == SplitOn(path, {"/"})
        matches == {k \in 1..Len(parts) : ByteLen(parts[k]) = IdLen}
    IN  IF matches = {}
        THEN [ok |-> FALSE, val |-> <<>>]
        ELSE [ok |-> TRUE,
              val |-> parts[CHOOSE k \in matches : \A j \in matches : k <= j]]

\* Lines 222-227, as the router resolves them: a parameter matches a
\* non-empty segment and has priority over the catch-all, and a catch-all
\* matches a non-empty rest.  For a Uri whose only "/" is its last
\* character the parameter route matches its segment but not the rest;
\* whether the router then falls back to "/*path" is left open.  The set of
\* routes the request may take, each with the captures it passes on.
Routes(uri) ==
    LET slashes == {k \in 1..Len(uri) : uri[k] = "/"}
        first   == CHOOSE k \in slashes : \A j \in slashes : k <= j
        v2      == [route |-> "variant2", idPosition |-> <<>>, path |-> uri]
        none    == [route |-> "not_found", idPosition |-> <<>>, path |-> <<>>]
    IN  CASE uri = <<>>            -> {none}
          [] slashes = {}          -> {v2}
          [] first = 1             -> {v2}
          [] first = Len(uri)      -> {v2, none}
          [] OTHER                 ->
               {[route |-> "variant1",
                 idPosition |-> SubSeq(uri, 1, first - 1),
                 path |-> SubSeq(uri, first + 1, Len(uri))]}
=============================================================================
