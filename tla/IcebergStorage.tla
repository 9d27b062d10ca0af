--------------------------- MODULE IcebergStorage ---------------------------
(***************************************************************************)
(* File access of Iceberg tables                                           *)
(* (catalog/table_format/iceberg/iceberg_file_io.rs, storage/src/          *)
(* storage.rs).  Every loaded table has a storage: the credentials chosen  *)
(* for each backend, and a cache of one operator for each authority its    *)
(* locations name, shared by the accesses, writers and delete streams that *)
(* run at once.                                                            *)
(***************************************************************************)
EXTENDS Naturals, Sequences, FiniteSets

CONSTANTS
  Storages, Calls,
  Configured,  \* the backends the catalog's configuration has a block for
  Responses,   \* what a catalog may vend: [backend -> parts of the key pair]
  Locations,   \* [scheme, authority, path]
  Undecodable, \* paths that are not UTF-8 once decoded
  Decoded,     \* [paths -> the paths they decode to]
  Below,       \* [decoded paths -> the paths below them]
  Streams,     \* sequences of locations and of Absent, which does not parse
  Batch,       \* paths a deleter queues before it sends them
  MaxBytes,    \* bound of what a writer is given
  Absent

Keyed == {"s3", "oss"}        \* backends with credentials
Schemes == {"s3", "s3a", "oss", "hdfs", "gcs"}
Backend(scheme) == IF scheme = "s3a" THEN "s3" ELSE scheme

(* build_operator: the backends there are.                                 *)
Supported(scheme) == Backend(scheme) \in Keyed \cup {"hdfs"}

ASSUME LocationsAssumption == \A l \in Locations : l.scheme \in Schemes
ASSUME ResponsesAssumption == Responses \subseteq [Keyed -> SUBSET {"id", "secret"}]
ASSUME StreamsAssumption == Streams \subseteq Seq(Locations \cup {Absent})
ASSUME BatchAssumption == Batch \in Nat \ {0}
ASSUME AbsentAssumption == Absent \notin Locations \cup Responses

VARIABLES
  vended,    \* [Storages -> the catalog's response, or Absent: not loaded]
  chosen,    \* [Storages -> [Keyed -> the credentials to use]]
  operators, \* [Storages -> [key -> operator]]
  files,     \* the objects there are
  call       \* [Calls -> how far a call is]

storageVars == <<vended, chosen, operators, files, call>>

Credentials == {"block", "vended", "chain"}
Authorities == {l.authority : l \in Locations}
Objects == [backend : {Backend(l.scheme) : l \in Locations}, authority : Authorities,
            path : {Decoded[l.path] : l \in Locations}]

(* The object a location names.                                            *)
Named(l) == [backend |-> Backend(l.scheme), authority |-> l.authority, path |-> Decoded[l.path]]

(* The key of the cache.  Mutant: without the scheme.                      *)
KeyOfAuthority(l) == <<l.authority>>
Key(l) == <<l.scheme, l.authority>>

(* at: the location resolved last, and via: its operator.                  *)
(* todo: what a delete stream is still to name; queue: its open deleters   *)
(* and what they hold; gone: what the store has deleted for the call;      *)
(* given, stored: the bytes a writer counts, and those the store has.      *)
NoCall == [kind |-> "none", phase |-> "idle", storage |-> Absent, stream |-> <<>>, todo |-> <<>>,
           queue |-> <<>>, at |-> Absent, via |-> Absent,
           gone |-> {}, given |-> 0, stored |-> 0, reported |-> 0]

Operators == [backend : Keyed \cup {"hdfs"}, authority : Authorities,
              credentials : Credentials \cup {Absent}]

StorageTypeOK ==
  /\ vended \in [Storages -> Responses \cup {Absent}]
  /\ chosen \in [Storages -> [Keyed -> Credentials]]
  /\ \A s \in Storages : \A k \in DOMAIN operators[s] : operators[s][k] \in Operators
  /\ files \subseteq Objects
  /\ \A c \in Calls : call[c].phase \in {"idle", "run", "close", "done", "failed"}

StorageInit ==
  /\ vended = [s \in Storages |-> Absent]
  /\ chosen = [s \in Storages |-> [b \in Keyed |-> "chain"]]
  /\ operators = [s \in Storages |-> <<>>]
  /\ files = {Named(l) : l \in {x \in Locations : x.path \notin Undecodable}}
  /\ call = [c \in Calls |-> NoCall]

CallAt(c, kind, phase) == call[c].kind = kind /\ call[c].phase = phase
PutAt(f, key, value) == [k \in DOMAIN f \cup {key} |-> IF k = key THEN value ELSE f[k]]
Fail(c) == call' = [call EXCEPT ![c].phase = "failed", ![c].queue = <<>>]

-----------------------------------------------------------------------------

(* resolve_credentials: a block wins outright; only a complete pair of     *)
(* keys is vended.  Mutant: any part of a pair.                            *)
AnyPart(response, b) == response[b] # {}
PairVended(response, b) == response[b] = {"id", "secret"}
Credential(response, b) ==
  IF b \in Configured THEN "block" ELSE IF PairVended(response, b) THEN "vended" ELSE "chain"

(* The factory builds the storage of a table that is loaded.               *)
Build(s) ==
  /\ vended[s] = Absent
  /\ \E response \in Responses :
       /\ vended' = [vended EXCEPT ![s] = response]
       /\ chosen' = [chosen EXCEPT ![s] = [b \in Keyed |-> Credential(response, b)]]
  /\ UNCHANGED <<operators, files, call>>

StartCall(c, kind) ==
  /\ call[c].phase = "idle"
  /\ \E s \in {x \in Storages : vended[x] # Absent}, stream \in Streams :
       /\ kind # "delete" => Len(stream) = 1
       /\ call' = [call EXCEPT ![c] = [NoCall EXCEPT
            !.kind = kind, !.phase = "run", !.storage = s, !.stream = stream, !.todo = stream]]
  /\ UNCHANGED <<vended, chosen, operators, files>>

(* resolve: the cached operator, or a new one, which is kept if it could   *)
(* be built.  The cache is locked throughout, as is the build.             *)
NewOperator(s, l) ==
  [backend |-> Backend(l.scheme), authority |-> l.authority,
   credentials |-> IF Backend(l.scheme) \in Keyed THEN chosen[s][Backend(l.scheme)] ELSE Absent]

Resolved(s, l) == IF Key(l) \in DOMAIN operators[s] THEN operators[s][Key(l)] ELSE NewOperator(s, l)

Remember(s, l) == operators' = [operators EXCEPT ![s] = PutAt(@, Key(l), Resolved(s, l))]

(* A location that does not parse, a backend that is not supported or      *)
(* lacks its settings, or a path that does not decode.                     *)
ResolveFails(c, l) ==
  LET s == call[c].storage IN
  \/ l = Absent /\ UNCHANGED operators
  \/ l # Absent /\ Key(l) \notin DOMAIN operators[s] /\ UNCHANGED operators
  \/ l # Absent /\ Supported(l.scheme) /\ l.path \in Undecodable /\ Remember(s, l)

Resolves(c, l) ==
  /\ l # Absent /\ l.path \notin Undecodable
  /\ Supported(l.scheme) \/ Key(l) \in DOMAIN operators[call[c].storage]
  /\ Remember(call[c].storage, l)

(* What an operator reaches below its authority.                           *)
Target(op, l) == [backend |-> op.backend, authority |-> op.authority, path |-> Decoded[l.path]]

Refused(c) ==
  /\ call[c].phase = "run" /\ call[c].todo # <<>>
  /\ ResolveFails(c, Head(call[c].todo))
  /\ Fail(c)
  /\ UNCHANGED <<vended, chosen, files>>

(* exists, metadata, read, reader, new_input, new_output; write; delete;   *)
(* delete_prefix: one request with the resolved operator.                  *)
Requests == {"read", "put", "remove", "prefix"}
Effect(kind, o) ==
  CASE kind = "read" -> files
    [] kind = "put" -> files \cup {o}
    [] kind = "remove" -> files \ {o}
    [] kind = "prefix" -> files \ {[o EXCEPT !.path = p] : p \in Below[o.path]}

Use(c, l) == [call[c] EXCEPT !.at = l, !.via = Resolved(call[c].storage, l), !.todo = Tail(@)]

Access(c) ==
  /\ call[c].kind \in Requests /\ call[c].phase = "run"
  /\ LET l == Head(call[c].todo) IN
     /\ Resolves(c, l)
     /\ call' = [call EXCEPT ![c] = [Use(c, l) EXCEPT !.phase = "done"]]
     /\ files' = Effect(call[c].kind, Target(Use(c, l).via, l))
  /\ UNCHANGED <<vended, chosen>>

-----------------------------------------------------------------------------

(* delete_stream: the deleter of the authority is opened when it is first  *)
(* named, and queues the path.  A full queue is sent, which may fail.      *)
Held(c, l) == IF Key(l) \in DOMAIN call[c].queue THEN call[c].queue[Key(l)] ELSE {}

Queue(c) ==
  /\ CallAt(c, "delete", "run") /\ call[c].todo # <<>>
  /\ LET l == Head(call[c].todo)
         op == Resolved(call[c].storage, l)
         held == Held(c, l) \cup {Target(op, l)}
         sent == IF Cardinality(held) >= Batch THEN held ELSE {}
     IN
     /\ Resolves(c, l)
     /\ files' = files \ sent
     /\ call' = [call EXCEPT ![c] = [Use(c, l) EXCEPT
          !.queue = PutAt(@, Key(l), held \ sent), !.gone = @ \cup sent]]
  /\ UNCHANGED <<vended, chosen>>

(* The deleter cannot be opened, or a full queue was deleted in part.      *)
QueueFails(c) ==
  /\ CallAt(c, "delete", "run") /\ call[c].todo # <<>>
  /\ LET l == Head(call[c].todo)
         held == Held(c, l) \cup {Target(Resolved(call[c].storage, l), l)} IN
     /\ Resolves(c, l)
     /\ \E part \in IF Cardinality(held) >= Batch THEN SUBSET held ELSE {{}} : files' = files \ part
  /\ Fail(c)
  /\ UNCHANGED <<vended, chosen>>

(* Mutants: the stream is done once every path is queued; it waits for a   *)
(* deleter although none was opened.                                       *)
DoneAtEnd(c) ==
  /\ CallAt(c, "delete", "run") /\ call[c].todo = <<>>
  /\ call' = [call EXCEPT ![c].phase = "done", ![c].queue = <<>>]
  /\ UNCHANGED <<vended, chosen, operators, files>>
CloseAnyway(c) ==
  /\ CallAt(c, "delete", "run") /\ call[c].todo = <<>>
  /\ call' = [call EXCEPT ![c].phase = "close"]
  /\ UNCHANGED <<vended, chosen, operators, files>>
EndOfStream(c) ==
  /\ CallAt(c, "delete", "run") /\ call[c].todo = <<>>
  /\ call' = [call EXCEPT ![c].phase = IF call[c].queue = <<>> THEN "done" ELSE "close"]
  /\ UNCHANGED <<vended, chosen, operators, files>>

(* The deleters are closed one by one, in any order, and send what they    *)
(* hold; the first that fails ends the call and the others are dropped.    *)
Without(f, key) == [k \in DOMAIN f \ {key} |-> f[k]]

Close(c, key) ==
  /\ CallAt(c, "delete", "close")
  /\ LET sent == call[c].queue[key]
         rest == Without(call[c].queue, key) IN
     /\ files' = files \ sent
     /\ call' = [call EXCEPT ![c].queue = rest, ![c].gone = @ \cup sent,
                             ![c].phase = IF rest = <<>> THEN "done" ELSE "close"]
  /\ UNCHANGED <<vended, chosen, operators>>

CloseFails(c, key) ==
  /\ CallAt(c, "delete", "close")
  /\ \E part \in SUBSET call[c].queue[key] : files' = files \ part
  /\ Fail(c)
  /\ UNCHANGED <<vended, chosen, operators>>

-----------------------------------------------------------------------------

(* writer.                                                                 *)
Open(c) ==
  /\ CallAt(c, "write", "run")
  /\ LET l == Head(call[c].todo) IN
     /\ Resolves(c, l)
     /\ call' = [call EXCEPT ![c] = [Use(c, l) EXCEPT !.phase = "close"]]
  /\ UNCHANGED <<vended, chosen, files>>

(* A chunk is counted once it is written; one that fails may be stored.    *)
(* Its caller may go on.                                                   *)
Write(c, n) ==
  /\ CallAt(c, "write", "close") /\ call[c].given + n <= MaxBytes /\ call[c].stored + n <= MaxBytes
  /\ \/ call' = [call EXCEPT ![c].given = @ + n, ![c].stored = @ + n]
     \/ \E m \in {0, n} : call' = [call EXCEPT ![c].stored = @ + m]
  /\ UNCHANGED <<vended, chosen, operators, files>>

(* close: a store reports what it has, or nothing.                         *)
SizeAgrees(c, reported) == reported # 0 => reported = call[c].given

CloseWriter(c) ==
  /\ CallAt(c, "write", "close")
  /\ \E reported \in {0, call[c].stored} :
       call' = [call EXCEPT ![c].reported = reported,
                            ![c].phase = IF SizeAgrees(c, reported) THEN "done" ELSE "failed"]
  /\ files' = files \cup {Target(call[c].via, call[c].at)}
  /\ UNCHANGED <<vended, chosen, operators>>

(* The store fails: a request, which may have had its effect, the opening  *)
(* of a writer, or its close.                                              *)
RequestFails(c) ==
  /\ call[c].kind # "delete" /\ call[c].phase = "run"
  /\ LET l == Head(call[c].todo) IN
     /\ Resolves(c, l)
     /\ \/ UNCHANGED files
        \/ /\ call[c].kind \in Requests
           /\ files' = Effect(call[c].kind, Target(Use(c, l).via, l))
  /\ Fail(c)
  /\ UNCHANGED <<vended, chosen>>

CloseWriterFails(c) ==
  /\ CallAt(c, "write", "close")
  /\ Fail(c)
  /\ UNCHANGED <<vended, chosen, operators, files>>

CallStep(c) ==
  \/ Refused(c) \/ Access(c) \/ Queue(c) \/ QueueFails(c) \/ EndOfStream(c)
  \/ Open(c) \/ CloseWriter(c) \/ RequestFails(c) \/ CloseWriterFails(c)
  \/ \E key \in DOMAIN call[c].queue : Close(c, key) \/ CloseFails(c, key)

StorageNext ==
  \/ \E s \in Storages : Build(s)
  \/ \E c \in Calls :
       \/ \E kind \in Requests \cup {"delete", "write"} : StartCall(c, kind)
       \/ CallStep(c)
       \/ \E n \in 1..MaxBytes : Write(c, n)

StorageSpec == StorageInit /\ [][StorageNext]_storageVars

(* A call whose store answers goes on, and a writer is closed in the end.  *)
FairStorageSpec == StorageSpec /\ \A c \in Calls : WF_storageVars(CallStep(c))

-----------------------------------------------------------------------------
(* What the file access of Iceberg tables promises.                        *)

(* Every operator that serves a location belongs to the location's backend *)
(* and authority, and has the credentials that the docs' order gives this  *)
(* backend: the catalog's block, else what was vended for this table, else *)
(* the backend's own chain (resolve, resolve_credentials,                  *)
(* docs/src/catalogs/iceberg-rest.md).                                     *)
Documented(s, b) ==
  CASE b \notin Keyed -> Absent
    [] b \in Keyed \cap Configured -> "block"
    [] b \in Keyed \ Configured /\ {"id", "secret"} \subseteq vended[s][b] -> "vended"
    [] OTHER -> "chain"

ServedAsConfigured ==
  \A c \in Calls : call[c].via # Absent =>
    call[c].via = [backend |-> Backend(call[c].at.scheme), authority |-> call[c].at.authority,
                   credentials |-> Documented(call[c].storage, Backend(call[c].at.scheme))]

(* What a call names: an object, or all below a prefix.                    *)
NamedBy(c) ==
  LET named == {Named(l) : l \in {call[c].stream[i] : i \in DOMAIN call[c].stream} \ {Absent}} IN
  CASE call[c].kind \in {"remove", "delete"} -> named
    [] call[c].kind = "prefix" ->
         {o \in Objects : \E n \in named : [o EXCEPT !.path = n.path] = n /\ o.path \in Below[n.path]}
    [] OTHER -> {}

(* Deletes do what they say.  No step deletes an object which no running   *)
(* call names, in another backend, authority or path; and a delete stream  *)
(* that succeeds has deleted every object it named, also those its         *)
(* deleters held to the end (resolve, delete_stream, delete_prefix).       *)
StreamDeleted ==
  \A c \in Calls : CallAt(c, "delete", "done") =>
    \A i \in DOMAIN call[c].stream : Named(call[c].stream[i]) \in call[c].gone

DeletesExactly ==
  [][/\ \A o \in files \ files' :
          \E c \in Calls : call[c].phase \in {"run", "close"} /\ o \in NamedBy(c)
     /\ StreamDeleted']_storageVars

(* Every call ends, also a delete stream without paths                     *)
(* (LakeletIcebergStorage, LakeletFileWriter).                             *)
EveryCallEnds == \A c \in Calls : call[c].phase = "run" ~> call[c].phase \in {"done", "failed"}

=============================================================================
