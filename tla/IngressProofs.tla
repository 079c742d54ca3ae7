---------------------------- MODULE IngressProofs ----------------------------
(***************************************************************************)
(* Proof that the fallback route keeps its promise (FallbackFirstMatch)   *)
(* for every id length, usize width, alphabet and path length, when no    *)
(* character of the alphabet takes more than one UTF-8 byte.  With a wide *)
(* character the property is false (the ingress_wide run), because        *)
(* heuristic_handler_variant_2 compares byte lengths.  What SplitOn       *)
(* returns is never looked into: the proof only needs that variant 2      *)
(* takes the first part of ID length among the parts, whatever they are.  *)
(***************************************************************************)
EXTENDS Ingress, FiniteSetTheorems, WellFoundedInduction, TLAPS

\* What heuristic_handler_variant_2 has done to a request routed to it:
\* gone on with the id it found, or answered BAD_REQUEST when there is none.
V2Outcome ==
    LET found == Variant2Id(route.path)
    IN  IF found.ok THEN id = found.val /\ response # "bad_request"
                    ELSE response = "bad_request"

\* A request has no answer until its pipeline is done, and one that went
\* through variant 2 carries its outcome to the end.
FallbackInv ==
    /\ stage \in {"received", "routed", "handling"} => response = "none"
    /\ (route.route = "variant2" /\ stage \in {"handling", "done"}) => V2Outcome

-----------------------------------------------------------------------------
(* Lemmas about the operators of HeuristicPath.                            *)

\* A non-empty set of naturals has a least element: the one the CHOOSE of
\* Variant2Id picks, the index of the first part of ID length.
LEMMA MinExists ==
    ASSUME NEW T \in SUBSET Nat, T # {}
    PROVE  \E x \in T : \A y \in T : x <= y
<1>1. PICK x \in T : \A y \in T : ~(<<y, x>> \in OpToRel(<, Nat))
  BY NatLessThanWellFounded, WFMin
<1>2. \A y \in T : ~(y < x)
  BY <1>1, Zenon DEF OpToRel
<1>3. QED
  BY <1>2

\* With no wide character in the alphabet, str::len counts characters.
LEMMA ByteLenNarrow ==
    ASSUME WideChars = {}, NEW s
    PROVE  ByteLen(s) = Len(s)
<1>1. {k \in 1..Len(s) : s[k] \in WideChars} = {}
  OBVIOUS
<1>2. Len(s) + Cardinality({}) = Len(s)
  BY FS_EmptySet
<1>3. QED
  BY <1>1, <1>2 DEF ByteLen

\* What heuristic_handler_variant_2 finds (lines 212-216), whatever
\* str::split returns: nothing when no part has ID length, and otherwise
\* the part of ID length before which none has it.
LEMMA Variant2Found ==
    ASSUME WideChars = {}, NEW path
    PROVE  LET parts == SplitOn(path, {"/"})
           IN  /\ Variant2Id(path).ok <=> \E k \in 1..Len(parts) : Len(parts[k]) = IdLen
               /\ Variant2Id(path).ok =>
                    \E k \in 1..Len(parts) :
                       /\ Variant2Id(path).val = parts[k]
                       /\ Len(parts[k]) = IdLen
                       /\ \A j \in 1..(k - 1) : Len(parts[j]) # IdLen
<1> DEFINE parts   == SplitOn(path, {"/"})
           matches == {k \in 1..Len(parts) : ByteLen(parts[k]) = IdLen}
           first   == CHOOSE k \in matches : \A j \in matches : k <= j
<1>1. matches = {k \in 1..Len(parts) : Len(parts[k]) = IdLen}
  BY ByteLenNarrow
<1>2. Variant2Id(path) = IF matches = {} THEN [ok |-> FALSE, val |-> <<>>]
                                         ELSE [ok |-> TRUE, val |-> parts[first]]
  BY DEF Variant2Id
<1>3. SUFFICES /\ Variant2Id(path).ok <=> matches # {}
               /\ Variant2Id(path).ok =>
                    \E k \in matches :
                       /\ Variant2Id(path).val = parts[k]
                       /\ \A j \in 1..(k - 1) : j \notin matches
  BY <1>1
<1>4. CASE matches = {}
  BY <1>2, <1>4
<1>5. CASE matches # {}
  <2>1. matches \in SUBSET Nat
    BY DEF matches
  <2>2. \E x \in matches : \A y \in matches : x <= y
    BY <1>5, <2>1, MinExists
  <2>3. first \in matches /\ \A y \in matches : first <= y
    BY <2>2 DEF first
  <2>4. \A j \in 1..(first - 1) : j \notin matches
    <3> SUFFICES ASSUME NEW j \in 1..(first - 1), j \in matches PROVE FALSE
      OBVIOUS
    <3>1. first \in Nat /\ first <= j
      BY <2>1, <2>3
    <3>2. QED
      BY <3>1
  <2>5. Variant2Id(path).ok /\ Variant2Id(path).val = parts[first]
    BY <1>2, <1>5
  <2>6. QED
    BY <2>3, <2>4, <2>5
<1>6. QED
  BY <1>4, <1>5

-----------------------------------------------------------------------------
(* The invariant.                                                          *)

LEMMA FallbackInvInit == Init => FallbackInv
BY DEF Init, FallbackInv

LEMMA FallbackInvStep == FallbackInv /\ [Next]_vars => FallbackInv'
<1> SUFFICES ASSUME FallbackInv, [Next]_vars PROVE FallbackInv'
  OBVIOUS
<1>1. CASE RouteRequest
  BY <1>1 DEF RouteRequest, FallbackInv
<1>2. CASE HeuristicVariant1
  BY <1>2 DEF HeuristicVariant1, FallbackInv
<1>3. CASE HeuristicVariant2
  BY <1>3 DEF HeuristicVariant2, FallbackInv, V2Outcome
<1>4. CASE HandlePlain
  BY <1>4 DEF HandlePlain, FallbackInv, V2Outcome
<1>5. CASE HandleEncrypted
  BY <1>5 DEF HandleEncrypted, FallbackInv, V2Outcome
<1>6. CASE UNCHANGED vars
  BY <1>6 DEF vars, FallbackInv, V2Outcome
<1>7. QED
  BY <1>1, <1>2, <1>3, <1>4, <1>5, <1>6 DEF Next

\* Spec 8, variant 2, for every id length, usize width, alphabet and path
\* length whose characters are one UTF-8 byte each: a request
\* heuristic_handler_variant_2 has handled went on with the first part of
\* its path of ID length, or was answered BAD_REQUEST because there was
\* none.  The hypothesis is needed: part.len() counts bytes, and a part of
\* IdLen characters with a wide one is skipped (the ingress_wide run).
THEOREM FallbackCorrect ==
    ASSUME WideChars = {}
    PROVE  Spec => []FallbackFirstMatch
<1>1. FallbackInv => FallbackFirstMatch
  <2> SUFFICES ASSUME FallbackInv, route.route = "variant2",
                      stage \in {"handling", "done"}
               PROVE  FallbackFirstMatch
    BY DEF FallbackFirstMatch
  <2>1. V2Outcome
    BY DEF FallbackInv
  <2>2. QED
    BY <2>1, Variant2Found DEF V2Outcome, FallbackFirstMatch
<1>2. QED
  BY <1>1, FallbackInvInit, FallbackInvStep, PTL DEF Spec
=============================================================================
