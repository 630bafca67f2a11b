---------------------------- MODULE MCHostedCatalog ----------------------------
(* Three calls, of every kind, on a namespace with one or two tables. *)
EXTENDS HostedCatalog, TLC

\* Each call has its own x-request-id, or some share the key, or two calls of
\* one endpoint share an x-request-id.  Calls on tables and calls on views have
\* no record in common and are not mixed; the second input is for a second call
\* under an id.
SomeCalls ==
    LET Borrows(c, r) == c[r].id \notin {r, Key}
        Alike(a, b)   == a.op = b.op /\ a.on = b.on
    IN  {c \in [Requests -> Asks] : \A r, q \in Requests :
          /\ Borrows(c, r) => /\ c[c[r].id].id = c[r].id /\ Alike(c[r], c[c[r].id])
                              /\ c[q].id # Key /\ (Borrows(c, q) => r = q)
          /\ c[r].on \subseteq Tables => c[q].on \cap Views = {}
          /\ c[r].input = "v" => \/ Borrows(c, r)
                                 \/ c[r].id = Key /\ \E p \in Requests : c[p].id = Key /\ c[p].input = "u"}

\* Calls differ in nothing but what they ask.
Symmetric == Permutations(Requests)
=============================================================================
