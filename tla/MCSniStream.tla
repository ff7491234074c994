----------------------------- MODULE MCSniStream -----------------------------
(* Small instances of SniStream for TLC. *)
EXTENDS SniStream

CONSTANTS a, b, c, e1, e2

\* The answers of an endpoint: an IPv6 address between two others, or none but
\* an address that another answer has too.
MCAnswers == {<<a, V6, b>>, <<b>>}
==============================================================================
