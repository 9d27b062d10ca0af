---------------------- MODULE QuerySessionsProperties ----------------------
(* What sessions must guarantee to the clients that share a process.       *)
EXTENDS QuerySessions

(* A statement is planned against the catalog list it resolved itself and  *)
(* in the scope it was resolved in, whatever other requests register or    *)
(* USE in between: Flight SQL makes a session per request because          *)
(* planning replaces the session's catalog list.                           *)
PlanUsesOwnResolution ==
  \A c \in Clients : At(c, "plan") =>
    /\ registered[SessionOf(c)] \in CatalogList
    /\ registered[SessionOf(c)].by = c
    /\ task[c].full = Qualify(Current(c), SessionScope(c))

(* The scope of a session is the one its client was last told, except      *)
(* while a USE is looking a schema up and after such a USE has failed: no  *)
(* other statement, no failure of a query and no other client moves it.    *)
ClientKnowsScope ==
  \A c \in Clients : ~At(c, "check") /\ believed[c] # None =>
    SessionScope(c) = believed[c]

(* A Flight SQL query reads what its own headers say: nothing of an        *)
(* earlier request's USE carries over (getting-started.md: "Each Flight    *)
(* SQL query uses a fresh session").                                       *)
RequestUsesHeaders ==
  \A c \in Clients \ Repl : At(c, "planned") =>
    task[c].full = Qualify(Current(c), Headers[c])

(* The default schema of the REPL moves only when its client is told so,   *)
(* and then to the schema asked for: a USE that fails, or that Ctrl-C      *)
(* drops while the catalog is being asked, leaves it alone.                *)
SchemaMovesOnSuccess ==
  [][\A c \in Repl : scope'[SessionOf(c)].schema # scope[SessionOf(c)].schema =>
       believed'[c] = scope'[SessionOf(c)]]_vars

=============================================================================
