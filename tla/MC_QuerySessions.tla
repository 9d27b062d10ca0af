-------------------------- MODULE MC_QuerySessions --------------------------
(* Model checking of sessions: the REPL and a Flight SQL client.           *)
EXTENDS QuerySessionsProperties

CONSTANTS repl, flight, c1, c2, s1, s2

Use(c, s)   == [kind |-> "use", catalog |-> c, schema |-> s]
Query(c, s) == [kind |-> "query", catalog |-> c, schema |-> s]

(* Every form of USE, alone and before a query that depends on it, and     *)
(* queries with none, one and both parts of their name.                    *)
SmallInputs ==
  { <<Use(c2, s2), Query(None, None)>>,
    <<Use(c2, None), Query(None, s1)>>,
    <<Use(None, s2)>>,
    <<Use(c1, s1)>>,
    <<Use(UnknownCatalog, s2), Query(None, None)>>,
    <<Query(None, None)>>,
    <<Query(c2, s2)>> }

AllStart == [c \in Clients |-> [catalog |-> c1, schema |-> s1]]

=============================================================================
