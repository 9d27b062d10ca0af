------------------------- MODULE MC_CatalogMetadata -------------------------
(* Model checking of metadata calls on two catalogs of two schemas.        *)
EXTENDS CatalogMetadataProperties, TLC

CONSTANTS hms, glue, sales, staff, orders, people

SomeContent == (hms :> (sales :> {}))
               @@ (glue :> ((sales :> {orders, people}) @@ (staff :> {people})))

Ask(kind, catalog, schemas, tables, include) ==
  [kind |-> kind, catalog |-> catalog, scope |-> <<>>, schemaPattern |-> schemas,
   tablePattern |-> tables, includeSchema |-> include]
SHOW(kind, scope, schemas, tables) ==
  [kind |-> kind, catalog |-> None, scope |-> scope, schemaPattern |-> schemas,
   tablePattern |-> tables, includeSchema |-> FALSE]

(* The last four are refused.                                              *)
SomeCommands ==
  {Ask("statement", None, None, None, FALSE),
   Ask("schemas", hms, None, None, FALSE),
   Ask("tables", glue, {sales, staff}, {orders, people}, FALSE),
   Ask("catalogs", None, None, None, FALSE),
   SHOW("show_schemas", <<glue>>, {sales, staff}, None),
   SHOW("show_tables", <<>>, None, None),
   SHOW("show_tables", <<glue, sales>>, None, {orders}),
   SHOW("show_tables", <<"unknown", staff>>, None, None),
   SHOW("show_schemas", <<hms, staff>>, None, None),
   Ask("tables", hms, None, None, FALSE),
   Ask("tables", glue, {sales}, None, TRUE)}

(* Another engine drops and creates a table, and its schema around it.     *)
SomeChanges == {<<glue, staff, people>>}
PagedCatalogs == {glue}

=============================================================================
