---------------------- MODULE CatalogMetadataProperties ----------------------
(* What metadata calls must answer while the catalogs change under them.   *)
EXTENDS CatalogMetadata

Last(parts) == parts[Len(parts)]
Asked(command, name) ==
  /\ IF command.kind = "show_tables"
     THEN name[1] = (IF command.scope = <<>> THEN DefaultSchema ELSE Last(command.scope))
     ELSE Like(command.schemaPattern, name[1])
  /\ IF command.kind \in {"schemas", "show_schemas"} THEN name[2] = None
     ELSE name[2] # None /\ Like(command.tablePattern, name[2])

(* A listing that succeeds has only names that were there at some time     *)
(* while it was made, and every name it was asked for that was there all   *)
(* that time, although it takes requests for every schema, and Glue        *)
(* answers each with one page after another.                               *)
ListingTrue ==
  \A c \in Calls : At(c, "done") /\ Kind(c) \notin Constant \cup {"statement"} =>
    /\ call[c].out \subseteq {n \in some[c] : Asked(call[c].command, n)}
    /\ {n \in all[c] : Asked(call[c].command, n)} \subseteq call[c].out

(* "The client never holds a ticket it cannot redeem": DoGet rejects no    *)
(* command for which GetFlightInfo gave a ticket.                          *)
TicketsRedeemable == \A c \in Calls : ~At(c, "rejected")

(* A catalog's client is connected once, however many calls want it at the *)
(* same time and whatever becomes of the call that connects it.            *)
ConnectedOnce ==
  \A k \in Catalogs : Cardinality(made[k]) <= 1 /\ (made[k] # {} => client[k] = "ready")

(* No call waits for ever, not even behind one that failed to connect or   *)
(* was dropped while it connected.                                         *)
EveryCallEnds ==
  \A c \in Calls : call[c].phase \in Waiting ~> call[c].phase \in {"done", "failed", "gone"}

=============================================================================
