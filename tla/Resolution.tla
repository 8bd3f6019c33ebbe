----------------------------- MODULE Resolution -----------------------------
(***************************************************************************)
(* The part of ReconcileService that turns Vault documents into the        *)
(* desired environment: automatic import, explicit mappings, scalar        *)
(* conversion and the ownership check across sources.                      *)
(*                                                                         *)
(* A document maps field paths to JSON values.  A nested object appears    *)
(* both as an object at its own path and as the paths below it.            *)
(***************************************************************************)
EXTENDS Environment

CONSTANT TopLevel   \* the names of the fields a document has at its top level

\* A JSON value: its kind, and the text it has as an environment value.
Json == [kind: {"string", "number", "bool", "null", "object", "array"},
         text: Values]
IsDocument(doc) ==
  /\ IsMap(doc, Names, Json)
  /\ DOMAIN doc # {} => DOMAIN doc \cap TopLevel # {}

\* stringifyScalar: strings as they are, numbers and booleans as their JSON
\* text; null, objects and arrays are errors.
IsScalar(json) == json.kind \in {"string", "number", "bool"}
StringifyScalar(json) == json.text

\* Which field feeds which environment name.  A source without .env. labels
\* imports every top-level field under its own name.
AutomaticImport(source) == DOMAIN source.env = {}
Mapping(source, doc) ==
  IF AutomaticImport(source) THEN [f \in DOMAIN doc \cap TopLevel |-> f]
                             ELSE source.env

\* The source can be read from the document: it is not an empty automatic
\* import, every name fits NAME=value (explicit names were checked when the
\* labels were parsed), every field exists and is a scalar.
SourceResolves(source, doc) ==
  LET mapping == Mapping(source, doc) IN
  /\ AutomaticImport(source) =>
       /\ DOMAIN doc # {}
       /\ DOMAIN mapping \cap BadNames = {}
  /\ \A n \in DOMAIN mapping :
       mapping[n] \in DOMAIN doc /\ IsScalar(doc[mapping[n]])

\* The variables one source contributes.
Contribution(source, doc) ==
  LET mapping == Mapping(source, doc) IN
  [n \in DOMAIN mapping |-> StringifyScalar(doc[mapping[n]])]

\* environmentOwners: the names source s has produced.
OwnedBy(secrets, docs, s) == DOMAIN Contribution(secrets[s], docs[s])

\* desiredValues once the sources in DOMAIN docs have been read.
Desired(secrets, docs) ==
  [n \in UNION {OwnedBy(secrets, docs, s) : s \in DOMAIN docs} |->
     LET owner == CHOOSE s \in DOMAIN docs : n \in OwnedBy(secrets, docs, s)
     IN  Contribution(secrets[owner], docs[owner])[n]]

\* Adding source s, read as doc, to the sources read so far succeeds.
Accepts(secrets, docs, s, doc) ==
  /\ SourceResolves(secrets[s], doc)
  /\ DOMAIN Contribution(secrets[s], doc) \cap DOMAIN Desired(secrets, docs) = {}

=============================================================================
