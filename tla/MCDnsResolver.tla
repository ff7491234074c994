---------------------------- MODULE MCDnsResolver ----------------------------
(* A small instance of DnsResolver for TLC. *)
EXTENDS DnsResolver

CONSTANTS a, p, x, d1, d2

\* Two domestic endpoints, the second one a backup, and a trusted one.  The
\* domestic ones return a polluted address, alone or among others, the trusted
\* one only an IPv6 address.  dns_mapping gives d2 the backup alone.
MCEndpoints == << [trusted |-> TRUE, priority |-> 1],
                  [trusted |-> FALSE, priority |-> 2],
                  [trusted |-> FALSE, priority |-> 1] >>
MCMapped == d1 :> {} @@ d2 :> {2}
MCAnswers == << {<<x>>}, {<<p, p>>}, {<<p, a, x>>} >>
==============================================================================
