----------------------------- MODULE MC_Ingress -----------------------------
(***************************************************************************)
(* Small instances of Ingress for TLC.  Paths of up to six characters over *)
(* the digits 0 and 1, one separator and "/" hold every shape the router   *)
(* and the resolver tell apart: one or several positions, positions past   *)
(* the end, pieces that do not parse, empty parts, several ids of length   *)
(* IdLen = 2 among decoys (the fallback route sees two of them only in     *)
(* "//xx/yy", six characters).  With UsizeBits = 2 a two-digit position    *)
(* such as "10" is past usize::MAX, as a twenty-digit one is on a 64-bit   *)
(* server.                                                                 *)
(***************************************************************************)
EXTENDS Ingress

MCUriChars == {"0", "1", ",", "/"}
MCMaxUriLen == 6
MCIdLen == 2
MCUsizeBits == 2
MCWideChars == {}

\* Paths over "0", "/" and U+00E9 (e-acute, two UTF-8 bytes, a one-element
\* piece of the path like every other character), for the comparison of
\* byte length with IdLen.
MCWideUriChars == {"0", "/", "U+00E9"}
MCWideWideChars == {"U+00E9"}
MCWideMaxUriLen == 4
=============================================================================
