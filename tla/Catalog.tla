------------------------------- MODULE Catalog ------------------------------
(***************************************************************************)
(* From the objects of an org to the columns of a query: --discover        *)
(* describes the objects in batches and writes a catalog (discovery.py and *)
(* field_to_property_schema), the user selects fields in it, and a later   *)
(* run chooses from it the fields it queries (salesforce/__init__.py) and  *)
(* those of the SCHEMA message it writes (sync_orchestrator.py), by two    *)
(* different functions and possibly with another configuration.            *)
(*                                                                         *)
(* field_to_property_schema is modelled by what it does to the metadata;   *)
(* the JSON types it picks are left out.                                   *)
(***************************************************************************)
EXTENDS Naturals, FiniteSets, Functions

CONSTANTS
  Object,           \* names of sObjects
  Excluded,         \* those that no api can query, and the change events
  BulkExcluded,     \* those that the Bulk API cannot query either
  TagOf,            \* TagOf[t]: the object whose tags t holds
  ForcedFullTable,  \* FORCED_FULL_TABLE
  Field,            \* names of fields
  Orgs,             \* the orgs: of each object the fields, with type and formula flag
  Restricted,       \* the (object, field) pairs the Bulk API cannot read
  BatchSize,        \* 25
  None

ASSUME CatalogAssumption ==
  /\ Excluded \cup BulkExcluded \subseteq Object /\ IsInjective(TagOf)
  /\ DOMAIN TagOf \subseteq Object /\ Range(TagOf) \subseteq Object
  /\ BatchSize \in Nat \ {0} /\ None \notin Object \cup Field

\* The metadata of a field, and the entries of objects with such fields.
Metadata ==
  [inclusion : {"unsupported", "automatic", "available"},
   selectedByDefault : BOOLEAN \cup {None}, selected : BOOLEAN \cup {None}]
Entry(names) == [key : Field \cup {None}, fields : [names -> Metadata]]

ASSUME EntryAssumption == \A names \in SUBSET Field : None \notin Entry(names)

VARIABLES
  phase,      \* "describing", "written", "failed", "edited", "synced"
  api,        \* api_type: "REST" or "BULK" (BULK2 discovers like BULK)
  formulas,   \* ignore_formula_fields
  byDefault,  \* select_fields_by_default
  org,        \* org[o]: the fields of o, each with its type, or None
  custom,     \* the objects that are custom settings
  requested,  \* streams_to_discover, or all objects
  todo,       \* objects no batch has described yet
  settings,   \* sf_custom_setting_objects
  tags,       \* tags[o]: object_to_tag_references of o, or None
  catalog,    \* catalog[o]: the entry of o, or None
  stream,     \* the stream the user selects and a sync reads, or None
  query,      \* the fields a sync asks Salesforce for
  schema      \* the fields its SCHEMA message has

config == <<api, formulas, byDefault>>
source == <<org, custom, requested>>
described == <<todo, settings, tags, catalog>>
chosen == <<stream, query, schema>>
vars == <<phase, config, source, described, chosen>>

ReplicationKeys == <<"SystemModstamp", "LastModifiedDate", "CreatedDate">>
KeyFields == {"Id", "LoginTime"} \cup Range(ReplicationKeys)

\* Salesforce's ids and dates: both apis return them, and an Id is no formula.
ASSUME KeyAssumption ==
  \A fields \in Orgs, o \in Object :
    \A f \in KeyFields \cap {g \in Field : fields[o][g] # None} :
      /\ fields[o][f].type = "plain" /\ <<o, f>> \notin Restricted
      /\ f = "Id" => ~fields[o][f].calculated

FieldNames(o) == {f \in Field : org[o][f] # None}

\* get_blacklisted_objects
Blacklisted == Excluded \cup IF api = "BULK" THEN BulkExcluded ELSE {}

Init ==
  /\ phase = "describing"
  /\ api \in {"REST", "BULK"} /\ formulas \in BOOLEAN /\ byDefault \in BOOLEAN
  /\ org \in Orgs
  /\ custom \in SUBSET (Range(TagOf) \ DOMAIN TagOf)
  /\ requested \in SUBSET Object
  /\ todo = requested \ Blacklisted
  /\ settings = {}
  /\ tags = [o \in Object |-> None]
  /\ catalog = [o \in Object |-> None]
  /\ stream = None /\ query = {} /\ schema = {}

-----------------------------------------------------------------------------
(* Discovery. *)

\* get_replication_key
ReplicationKey(o) ==
  LET present == {i \in DOMAIN ReplicationKeys : ReplicationKeys[i] \in FieldNames(o)} IN
  IF o \in ForcedFullTable THEN None
  ELSE IF present # {} THEN
    ReplicationKeys[CHOOSE i \in present : \A j \in present : i <= j]
  ELSE IF o = "LoginHistory" /\ "LoginTime" \in FieldNames(o) THEN "LoginTime"
  ELSE None

\* A formula is left out before its type is looked at.
Ignored(d) == formulas /\ d.calculated

\* field_to_property_schema raises for a type it does not know.
TypeUnknown(o) == \E f \in FieldNames(o) : org[o][f].type = "unknown" /\ ~Ignored(org[o][f])

\* _check_field_support
Unsupported(o, f) ==
  \/ api = "BULK" /\ (org[o][f].type = "compound" \/ <<o, f>> \in Restricted)
  \/ org[o][f].type = "json"

\* Mutant of Inclusion: the replication key is a field like the others.
KeyIsAvailable(o, f) ==
  IF Unsupported(o, f) \/ Ignored(org[o][f]) \/ org[o][f].type = "binary" THEN "unsupported"
  ELSE IF f = "Id" THEN "automatic" ELSE "available"

\* What is written last holds: unsupported over the key, the key over the type.
Inclusion(o, f) ==
  IF Unsupported(o, f) THEN "unsupported"
  ELSE IF f = ReplicationKey(o) THEN "automatic"
  ELSE IF Ignored(org[o][f]) \/ org[o][f].type = "binary" THEN "unsupported"
  ELSE IF f = "Id" THEN "automatic" ELSE "available"

\* A formula left out by the configuration is deselected, too.
FieldMetadata(o, f) ==
  LET incl == Inclusion(o, f) out == Ignored(org[o][f]) IN
  [inclusion |-> incl,
   selectedByDefault |->
     IF out THEN FALSE ELSE IF byDefault /\ incl # "unsupported" THEN TRUE ELSE None,
   selected |-> IF out THEN FALSE ELSE None]

\* Mutant of CatalogEntry: unsupported fields are left out of the schema.
SupportedFields(o) ==
  IF "Id" \notin FieldNames(o) THEN None
  ELSE [key |-> ReplicationKey(o),
        fields |-> [f \in {g \in FieldNames(o) : ~Unsupported(o, g)} |-> FieldMetadata(o, f)]]

\* _build_catalog_entry; an object without an Id has none.
CatalogEntry(o) ==
  IF "Id" \notin FieldNames(o) THEN None
  ELSE [key |-> ReplicationKey(o),
        fields |-> [f \in FieldNames(o) |-> FieldMetadata(o, f)]]

\* Mutant of DescribeBatch: tags are dropped when their batch is described.
DescribeAndDropTags ==
  /\ phase = "describing"
  /\ \E batch \in SUBSET todo :
       /\ batch # {}
       /\ Cardinality(batch) = BatchSize \/ (batch = todo /\ Cardinality(todo) < BatchSize)
       /\ ~\E o \in batch : TypeUnknown(o)
       /\ todo' = todo \ batch
       /\ settings' = settings \cup (batch \cap custom)
       /\ catalog' = [o \in Object |->
            IF o \in batch /\ ~(o \in DOMAIN TagOf /\ TagOf[o] \in settings)
              THEN CatalogEntry(o) ELSE catalog[o]]
  /\ UNCHANGED <<phase, config, source, tags, chosen>>

\* One composite request and its results, in whatever order a set comes.
DescribeBatch ==
  /\ phase = "describing"
  /\ \E batch \in SUBSET todo :
       /\ batch # {}
       /\ Cardinality(batch) = BatchSize \/ (batch = todo /\ Cardinality(todo) < BatchSize)
       /\ ~\E o \in batch : TypeUnknown(o)
       /\ todo' = todo \ batch
       /\ settings' = settings \cup (batch \cap custom)
       /\ tags' = [o \in Object |->
            IF o \in Range(TagOf) /\ AntiFunction(TagOf)[o] \in batch
              THEN AntiFunction(TagOf)[o] ELSE tags[o]]
       /\ catalog' = [o \in Object |-> IF o \in batch THEN CatalogEntry(o) ELSE catalog[o]]
  /\ UNCHANGED <<phase, config, source, chosen>>

\* A request or one of its parts fails, or a type is not known: no catalog at all.
DiscoveryFails ==
  /\ phase = "describing"
  /\ todo # {}
  /\ phase' = "failed"
  /\ UNCHANGED <<config, source, described, chosen>>

\* _remove_unsupported_tag_objects, and the catalog is written.
WriteCatalog ==
  /\ phase = "describing"
  /\ todo = {}
  /\ phase' = "written"
  /\ catalog' = [o \in Object |->
       IF \E c \in settings : tags[c] = o THEN None ELSE catalog[o]]
  /\ UNCHANGED <<config, source, todo, settings, tags, chosen>>

-----------------------------------------------------------------------------
(* The user, and a sync of one stream of the catalog. *)

\* The user selects a stream, selects or deselects a field of it, and may
\* configure the sync differently; fields do not depend on each other.
EditCatalog ==
  /\ phase = "written"
  /\ phase' = "edited"
  /\ \E o \in Object : catalog[o] # None /\ stream' = o
  /\ \/ UNCHANGED catalog
     \/ \E f \in FieldNames(stream'), choice \in BOOLEAN :
          catalog' = [catalog EXCEPT ![stream'].fields[f].selected = choice]
  /\ byDefault' \in BOOLEAN
  /\ UNCHANGED <<api, formulas, source, todo, settings, tags, query, schema>>

\* Mutant of ShouldSyncField: only automatic fields are not the user's choice.
UserFirst(m) ==
  IF m.inclusion = "automatic" THEN TRUE
  ELSE IF m.selected # None THEN m.selected ELSE m.inclusion = "available" /\ byDefault

\* singer's should_sync_field, with the select_fields_by_default of the run.
ShouldSyncField(m) ==
  IF m.inclusion # "available" THEN m.inclusion = "automatic"
  ELSE IF m.selected # None THEN m.selected ELSE byDefault

\* Mutant of IsPropertySelected: a field nobody selected is left out.
IsSelectedOnly(m) ==
  IF m.inclusion # "available" THEN m.inclusion = "automatic"
  ELSE m.selected # None /\ m.selected

\* is_property_selected: the stream is selected, so the last resort is yes.
IsPropertySelected(m) ==
  IF m.inclusion # "available" THEN m.inclusion = "automatic"
  ELSE IF m.selected # None THEN m.selected
  ELSE IF m.selectedByDefault # None THEN m.selectedByDefault ELSE TRUE

\* _get_selected_properties and pop_deselected_schema
SyncStream ==
  LET fields == catalog[stream].fields IN
  /\ phase = "edited"
  /\ query' = {f \in FieldNames(stream) : ShouldSyncField(fields[f])}
  /\ schema' = {f \in FieldNames(stream) : IsPropertySelected(fields[f])}
  /\ phase' = "synced"
  /\ UNCHANGED <<config, source, described, stream>>

Next == DescribeBatch \/ DiscoveryFails \/ WriteCatalog \/ EditCatalog \/ SyncStream

Spec == Init /\ [][Next]_vars

-----------------------------------------------------------------------------
(* Every variable has its type. *)
TypeOK ==
  /\ phase \in {"describing", "written", "failed", "edited", "synced"}
  /\ todo \subseteq requested /\ settings \subseteq custom
  /\ \A o \in Object : tags[o] # None => TagOf[tags[o]] = o
  /\ \A o \in Object : catalog[o] \in Entry(FieldNames(o)) \cup {None}
  /\ stream \in Object \cup {None}
  /\ query \subseteq Field /\ schema \subseteq Field

(* A catalog that is written has every object that was asked for and can be   *)
(* read, and no tags of a custom setting, however the objects fell into       *)
(* batches and in whichever order those came.                                 *)
CatalogIsComplete ==
  LET Wanted == requested \ Blacklisted
      OfSetting(t) == t \in DOMAIN TagOf /\ TagOf[t] \in Wanted \cap custom IN
  phase \notin {"describing", "failed"} =>
    {o \in Object : catalog[o] # None} =
      {o \in Wanted : "Id" \in FieldNames(o) /\ ~OfSetting(o)}

(* Whatever the user selects and the run is configured with, each field that  *)
(* is queried is in the SCHEMA, which says additionalProperties: false.       *)
QueryFitsSchema == phase = "synced" => query \subseteq schema

(* A row has its Id and the key its bookmark is taken from, even if the user  *)
(* deselects them (sync.py:124 reads rec[replication_key]).                   *)
KeysAreQueried ==
  phase = "synced" =>
    "Id" \in query /\ (catalog[stream].key # None => catalog[stream].key \in query)

(* The user cannot select a field that the api of the catalog does not        *)
(* return: one such field would make every query of the stream fail.          *)
UnsupportedNeverQueried ==
  phase = "synced" =>
    \A f \in query : ~Unsupported(stream, f) /\ org[stream][f].type # "binary"
=============================================================================
