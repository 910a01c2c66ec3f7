------------------------- MODULE MCSubmitSchedule ---------------------------
(* Instances of SubmitSchedule for TLC.                                      *)
EXTENDS SubmitSchedule

CONSTANTS n1, n2, n3, k1, k2, k3

Tx(n, q, known) == [nonce |-> n, quota |-> q, known |-> known]

\* Groups of one transaction over three nonces and three quotas, which leave
\* room for three groups without a conflict, groups with two keys of a kind,
\* and two groups of unknown footprint.
SmallGroups ==
    {{Tx(n, {k}, TRUE)} : n \in {n1, n2, n3}, k \in {k1, k2, k3}}
        \cup {{Tx(n1, {k1, k2}, TRUE)},
              {Tx(n1, {k1}, TRUE), Tx(n2, {k2}, TRUE)},
              {Tx(n1, {k1}, FALSE)},
              {Tx(n1, {k1}, TRUE), Tx(n2, {}, TRUE)}}
=============================================================================
