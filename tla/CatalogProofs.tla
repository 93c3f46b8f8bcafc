---------------------------- MODULE CatalogProofs ----------------------------
(***************************************************************************)
(* Proofs about Catalog, for any org and any objects, fields, tags, batch  *)
(* size and settings.                                                      *)
(***************************************************************************)
EXTENDS Catalog, TLAPS

Wanted == requested \ Blacklisted
Described == Wanted \ todo
TagsOf == AntiFunction(TagOf)

\* The tags of a custom setting that was asked for.
OfSetting(o) == o \in DOMAIN TagOf /\ TagOf[o] \in Wanted \cap custom

-----------------------------------------------------------------------------
(* The inductive invariant, in named parts. *)

Phases ==
  /\ phase \in {"describing", "written", "failed", "edited", "synced"}
  /\ org \in Orgs /\ requested \subseteq Object /\ todo \subseteq Wanted
  /\ phase \in {"written", "edited", "synced"} => todo = {}

\* The settings and the tags known are those of the batches so far.
Known ==
  /\ settings = custom \cap Described
  /\ tags \in [Object -> Object \cup {None}]
  /\ \A o \in Object :
       tags[o] = IF o \in Range(TagOf) /\ TagsOf[o] \in Described THEN TagsOf[o] ELSE None

\* An entry is what CatalogEntry made of the object, but for the user's choices
\* and the select_fields_by_default of another run.
EntryOf(o) ==
  LET e == catalog[o] IN
  /\ e.key = ReplicationKey(o)
  /\ \A f \in FieldNames(o) :
       /\ e.fields[f].inclusion = Inclusion(o, f)
       /\ Inclusion(o, f) = "available" => e.fields[f].selectedByDefault \in {TRUE, None}

Entries ==
  /\ catalog = [o \in Object |-> catalog[o]]
  /\ \A o \in Object : catalog[o] \in Entry(FieldNames(o)) \cup {None}
  /\ \A o \in Object : catalog[o] # None => EntryOf(o)

\* Which objects have an entry, before and after the tags were removed.
Listed ==
  \A o \in Object :
    catalog[o] # None <=>
      /\ o \in Described /\ "Id" \in FieldNames(o)
      /\ phase \in {"describing", "failed"} \/ ~OfSetting(o)

\* What a sync of the selected stream chose.
Choice ==
  /\ stream \in Object \cup {None} /\ query \subseteq Field /\ schema \subseteq Field
  /\ phase \in {"edited", "synced"} => stream \in Object /\ catalog[stream] # None
  /\ phase = "synced" =>
       LET fields == catalog[stream].fields IN
       /\ query = {f \in FieldNames(stream) : ShouldSyncField(fields[f])}
       /\ schema = {f \in FieldNames(stream) : IsPropertySelected(fields[f])}

IInv == Phases /\ Known /\ Entries /\ Listed /\ Choice

-----------------------------------------------------------------------------
(* The operators the model is built from. *)

\* Of the tags of an object there is one set at most, and AntiFunction finds it.
LEMMA TagsFound ==
  /\ \A o \in Range(TagOf) : TagsOf[o] \in DOMAIN TagOf /\ TagOf[TagsOf[o]] = o
  /\ \A t \in DOMAIN TagOf : TagOf[t] \in Range(TagOf) /\ TagsOf[TagOf[t]] = t
<1>1. ASSUME NEW o \in Range(TagOf)
      PROVE  TagsOf[o] \in DOMAIN TagOf /\ TagOf[TagsOf[o]] = o
  <2>1. TagsOf[o] = CHOOSE s \in DOMAIN TagOf : o \in Range(TagOf) => TagOf[s] = o
    BY <1>1 DEF TagsOf, AntiFunction, Inverse
  <2>2. \E s \in DOMAIN TagOf : o \in Range(TagOf) => TagOf[s] = o
    BY <1>1 DEF Range
  <2> QED
    BY <1>1, <2>1, <2>2
<1>2. ASSUME NEW t \in DOMAIN TagOf
      PROVE  TagOf[t] \in Range(TagOf) /\ TagsOf[TagOf[t]] = t
  <2>1. TagOf[t] \in Range(TagOf)
    BY DEF Range
  <2> QED
    BY <1>1, <2>1, CatalogAssumption DEF IsInjective
<1> QED
  BY <1>1, <1>2

\* A replication key is one of the fields, and one of the key fields.
LEMMA KeyOfObject ==
  ASSUME NEW o, ReplicationKey(o) # None
  PROVE  ReplicationKey(o) \in FieldNames(o) \cap KeyFields
<1> DEFINE present == {i \in DOMAIN ReplicationKeys : ReplicationKeys[i] \in FieldNames(o)}
<1>1. DOMAIN ReplicationKeys = 1 .. 3
  BY DEF ReplicationKeys
<1>2. ASSUME present # {}
      PROVE  \E i \in present : \A j \in present : i <= j
  BY <1>1, <1>2
<1>3. \A i \in present : ReplicationKeys[i] \in FieldNames(o) \cap KeyFields
  BY DEF KeyFields, Range
<1>4. CASE present # {} /\ o \notin ForcedFullTable
  <2>1. ReplicationKey(o) = ReplicationKeys[CHOOSE i \in present : \A j \in present : i <= j]
    BY <1>4 DEF ReplicationKey
  <2> QED
    BY <1>2, <1>3, <1>4, <2>1
<1>5. CASE present = {} \/ o \in ForcedFullTable
  BY <1>5 DEF ReplicationKey, KeyFields
<1> QED
  BY <1>4, <1>5

\* The metadata discovery writes.
LEMMA MetadataOfField ==
  ASSUME NEW o, NEW f
  PROVE  /\ FieldMetadata(o, f) \in Metadata
         /\ FieldMetadata(o, f).inclusion = Inclusion(o, f)
         /\ Inclusion(o, f) = "available" =>
              FieldMetadata(o, f).selectedByDefault \in {TRUE, None}
<1>1. Inclusion(o, f) \in {"unsupported", "automatic", "available"}
  BY DEF Inclusion
<1>2. Inclusion(o, f) = "available" => ~Ignored(org[o][f])
  BY DEF Inclusion
<1> QED
  BY <1>1, <1>2 DEF FieldMetadata, Metadata

\* The entry discovery makes of an object: none without an Id.
LEMMA EntryMade ==
  ASSUME NEW o
  PROVE  /\ "Id" \notin FieldNames(o) => CatalogEntry(o) = None
         /\ "Id" \in FieldNames(o) =>
              /\ CatalogEntry(o) \in Entry(FieldNames(o)) /\ CatalogEntry(o) # None
              /\ CatalogEntry(o).key = ReplicationKey(o)
              /\ \A f \in FieldNames(o) : CatalogEntry(o).fields[f] = FieldMetadata(o, f)
<1>1. CASE "Id" \in FieldNames(o)
  <2>1. CatalogEntry(o) = [key |-> ReplicationKey(o),
                           fields |-> [f \in FieldNames(o) |-> FieldMetadata(o, f)]]
    BY <1>1 DEF CatalogEntry
  <2>2. ReplicationKey(o) \in Field \cup {None}
    BY KeyOfObject DEF FieldNames
  <2>3. CatalogEntry(o) \in Entry(FieldNames(o))
    <3>1. \A f \in FieldNames(o) : FieldMetadata(o, f) \in Metadata
      BY MetadataOfField
    <3> QED
      BY ONLY <2>1, <2>2, <3>1 DEF Entry
  <2>4. FieldNames(o) \in SUBSET Field
    BY DEF FieldNames
  <2> QED
    BY <1>1, <2>1, <2>3, <2>4, EntryAssumption
<1>2. CASE "Id" \notin FieldNames(o)
  BY <1>2 DEF CatalogEntry
<1> QED
  BY <1>1, <1>2

\* A choice of the user changes nothing else of an entry.
LEMMA EntryEdited ==
  ASSUME NEW names, NEW e \in Entry(names), NEW f \in names, NEW choice \in BOOLEAN
  PROVE  LET edited == [e EXCEPT !.fields[f].selected = choice] IN
         /\ edited \in Entry(names) /\ edited.key = e.key
         /\ \A g \in names :
              /\ edited.fields[g].inclusion = e.fields[g].inclusion
              /\ edited.fields[g].selectedByDefault = e.fields[g].selectedByDefault
<1> DEFINE edited == [e EXCEPT !.fields[f].selected = choice]
<1>1. e.fields \in [names -> Metadata] /\ e.fields[f] \in Metadata /\ e.key \in Field \cup {None}
  BY DEF Entry
<1>2. edited = [e EXCEPT !.fields = [e.fields EXCEPT ![f] = [e.fields[f] EXCEPT !.selected = choice]]]
  BY <1>1 DEF Entry
<1>3. /\ [e.fields[f] EXCEPT !.selected = choice] \in Metadata
      /\ [e.fields[f] EXCEPT !.selected = choice].inclusion = e.fields[f].inclusion
      /\ [e.fields[f] EXCEPT !.selected = choice].selectedByDefault = e.fields[f].selectedByDefault
  BY <1>1 DEF Metadata
<1>4. edited \in Entry(names) /\ edited.key = e.key
      /\ edited.fields = [e.fields EXCEPT ![f] = [e.fields[f] EXCEPT !.selected = choice]]
  BY <1>1, <1>2, <1>3 DEF Entry
<1> QED
  BY <1>1, <1>3, <1>4
-----------------------------------------------------------------------------
(* The invariant holds, action by action. *)

\* Nothing was described at the start.
LEMMA InductiveInit == Init => IInv
<1> SUFFICES ASSUME Init PROVE IInv
  OBVIOUS
<1>1. /\ phase = "describing" /\ org \in Orgs /\ requested \subseteq Object
      /\ todo = Wanted /\ Described = {} /\ settings = {}
  BY DEF Init, Wanted, Described
<1>2. tags = [o \in Object |-> None] /\ catalog = [o \in Object |-> None]
  BY DEF Init
<1>3. Phases /\ Choice
  BY <1>1 DEF Init, Phases, Choice
<1>4. Known
  BY <1>1, <1>2 DEF Known
<1>5. Entries /\ Listed
  BY <1>1, <1>2 DEF Entries, Listed
<1> QED
  BY <1>3, <1>4, <1>5 DEF IInv

\* Nothing the invariant says of an entry depends on the phase.
LEMMA SameEntries ==
  ASSUME UNCHANGED <<api, formulas, org, custom, requested>>
  PROVE  /\ Wanted' = Wanted
         /\ \A o : FieldNames(o)' = FieldNames(o) /\ ReplicationKey(o)' = ReplicationKey(o)
         /\ \A o : OfSetting(o)' = OfSetting(o)
         /\ \A o, f : Inclusion(o, f)' = Inclusion(o, f)
<1>1. Wanted' = Wanted
  BY DEF Wanted, Blacklisted
<1>2. \A o : FieldNames(o)' = FieldNames(o) /\ ReplicationKey(o)' = ReplicationKey(o)
  BY DEF FieldNames, ReplicationKey
<1> QED
  BY <1>1, <1>2 DEF OfSetting, Inclusion, Unsupported, Ignored

\* An entry of which the user may have chosen a field.
LEMMA EntryKept ==
  ASSUME UNCHANGED <<api, formulas, org, custom, requested>>, NEW o, EntryOf(o),
         catalog'[o].key = catalog[o].key,
         \A f \in FieldNames(o) :
           /\ catalog'[o].fields[f].inclusion = catalog[o].fields[f].inclusion
           /\ catalog'[o].fields[f].selectedByDefault = catalog[o].fields[f].selectedByDefault
  PROVE  EntryOf(o)'
<1>1. FieldNames(o)' = FieldNames(o) /\ ReplicationKey(o)' = ReplicationKey(o)
  BY SameEntries
<1>2. \A f : Inclusion(o, f)' = Inclusion(o, f)
  BY SameEntries
<1> QED
  BY <1>1, <1>2 DEF EntryOf

\* Entries that stay as they are.
LEMMA EntriesKept ==
  ASSUME UNCHANGED <<api, formulas, org, custom, requested>>, UNCHANGED catalog, Entries
  PROVE  Entries'
<1>1. \A o \in Object : catalog[o] # None => EntryOf(o)'
  BY EntryKept DEF Entries
<1>2. \A o : FieldNames(o)' = FieldNames(o)
  BY SameEntries
<1> QED
  BY <1>1, <1>2 DEF Entries

\* What a batch adds to the objects that were described.
LEMMA DescribeStep ==
  ASSUME IInv, DescribeBatch
  PROVE  IInv'
<1> USE DEF IInv
<1>1. PICK batch \in SUBSET todo :
        /\ todo' = todo \ batch
        /\ settings' = settings \cup (batch \cap custom)
        /\ tags' = [o \in Object |->
             IF o \in Range(TagOf) /\ TagsOf[o] \in batch THEN TagsOf[o] ELSE tags[o]]
        /\ catalog' = [o \in Object |-> IF o \in batch THEN CatalogEntry(o) ELSE catalog[o]]
  BY DEF DescribeBatch, TagsOf
<1>2. /\ phase = "describing" /\ UNCHANGED <<phase, config, source, chosen>>
      /\ UNCHANGED <<api, formulas, byDefault, org, custom, requested, stream, query, schema>>
  BY DEF DescribeBatch, config, source, chosen
<1>3. /\ Wanted' = Wanted /\ Described' = Described \cup batch /\ batch \subseteq Wanted
      /\ batch \cap Described = {}
  BY <1>1, <1>2, SameEntries DEF Described, Phases
<1>4. \A o : FieldNames(o)' = FieldNames(o) /\ ReplicationKey(o)' = ReplicationKey(o)
  BY <1>2, SameEntries
<1>5. \A o, f : Inclusion(o, f)' = Inclusion(o, f)
  BY <1>2, SameEntries
<1>6. Phases'
  BY <1>1, <1>2, <1>3 DEF Phases
<1>7. Known'
  <2>1. settings' = custom \cap Described'
    BY <1>1, <1>3 DEF Known
  <2>2. \A o \in Range(TagOf) : TagsOf[o] \in Object
    BY TagsFound, CatalogAssumption
  <2> QED
    BY <1>1, <1>2, <1>3, <2>1, <2>2 DEF Known
<1>8. Entries'
  <2>1. ASSUME NEW o \in Object
        PROVE  /\ catalog'[o] \in Entry(FieldNames(o)) \cup {None}
               /\ catalog'[o] # None => EntryOf(o)'
    <3>1. CASE o \in batch
      <4>1. catalog'[o] = CatalogEntry(o)
        BY <1>1, <3>1
      <4> QED
        BY <1>4, <1>5, <4>1, EntryMade, MetadataOfField DEF EntryOf
    <3>2. CASE o \notin batch
      <4>1. catalog'[o] = catalog[o]
        BY <1>1, <3>2
      <4> QED
        BY <1>4, <1>5, <4>1 DEF Entries, EntryOf
    <3> QED
      BY <3>1, <3>2
  <2> QED
    BY <1>1, <1>4, <2>1 DEF Entries
<1>9. Listed'
  BY <1>1, <1>2, <1>3, <1>4, EntryMade DEF Listed
<1>10. Choice'
  BY <1>2 DEF Choice
<1> QED
  BY <1>6, <1>7, <1>8, <1>9, <1>10

\* The tags to remove are those of the custom settings.
LEMMA WriteStep ==
  ASSUME IInv, WriteCatalog
  PROVE  IInv'
<1> USE DEF IInv
<1>1. /\ phase = "describing" /\ phase' = "written" /\ todo = {}
      /\ UNCHANGED <<api, formulas, byDefault, org, custom, requested, todo, settings, tags>>
      /\ UNCHANGED <<stream, query, schema>>
      /\ catalog' = [o \in Object |->
           IF \E c \in settings : tags[c] = o THEN None ELSE catalog[o]]
  BY DEF WriteCatalog, config, source, chosen
<1>2. Described = Wanted /\ Described' = Described
  BY <1>1, SameEntries DEF Described
<1>3. settings = custom \cap Wanted /\ settings \subseteq Object
  BY <1>2 DEF Known, Phases, Described, Wanted
<1>4. ASSUME NEW o \in Object, NEW c \in settings, tags[c] = o PROVE OfSetting(o)
  <2>1. c \in Range(TagOf) /\ TagsOf[c] = o
    BY <1>3, <1>4, CatalogAssumption DEF Known
  <2> QED
    BY <1>3, <2>1, TagsFound DEF OfSetting
<1>5. ASSUME NEW o \in Described, OfSetting(o)
      PROVE  TagOf[o] \in settings /\ tags[TagOf[o]] = o
  <2>1. o \in DOMAIN TagOf /\ TagOf[o] \in settings /\ TagOf[o] \in Object
    BY <1>3, <1>5 DEF OfSetting
  <2> QED
    BY <1>5, <2>1, TagsFound DEF Known
<1>6. ASSUME NEW o \in Object
      PROVE  /\ catalog'[o] \in {catalog[o], None}
             /\ catalog'[o] # None <=> catalog[o] # None /\ ~OfSetting(o)
  BY <1>1, <1>4, <1>5 DEF Listed
<1>7. Phases' /\ Known' /\ Choice'
  BY <1>1, <1>2, SameEntries DEF Phases, Known, Choice
<1>8. Entries'
  <2>1. ASSUME NEW o \in Object, catalog'[o] # None PROVE EntryOf(o)'
    <3>1. catalog'[o] = catalog[o] /\ EntryOf(o)
      BY <1>6, <2>1 DEF Entries
    <3> QED
      BY <1>1, <3>1, EntryKept
  <2> QED
    BY <1>1, <1>6, <2>1, SameEntries DEF Entries
<1>9. Listed'
  BY <1>1, <1>2, <1>6, SameEntries DEF Listed
<1> QED
  BY <1>7, <1>8, <1>9

\* Nothing but the phase of a discovery that fails changes.
LEMMA FailStep ==
  ASSUME IInv, DiscoveryFails
  PROVE  IInv'
<1>1. /\ phase = "describing" /\ phase' = "failed"
      /\ UNCHANGED <<api, formulas, byDefault, org, custom, requested>>
      /\ UNCHANGED <<todo, settings, tags, catalog, stream, query, schema>>
  BY DEF DiscoveryFails, config, source, described, chosen
<1>2. Described' = Described
  BY <1>1, SameEntries DEF Described
<1> QED
  BY <1>1, <1>2, SameEntries, EntriesKept DEF IInv, Phases, Known, Listed, Choice

\* The user's choice keeps the entries.
LEMMA EditStep ==
  ASSUME IInv, EditCatalog
  PROVE  IInv'
<1> USE DEF IInv
<1>1. /\ phase = "written" /\ phase' = "edited"
      /\ UNCHANGED <<api, formulas, org, custom, requested, todo, settings, tags, query, schema>>
      /\ stream' \in Object /\ catalog[stream'] # None
  BY DEF EditCatalog, source
<1>2. Described' = Described
  BY <1>1, SameEntries DEF Described
<1>3. ASSUME NEW o \in Object
      PROVE  /\ catalog'[o] \in Entry(FieldNames(o)) \cup {None}
             /\ catalog'[o] # None <=> catalog[o] # None
             /\ catalog[o] # None =>
                  /\ catalog'[o].key = catalog[o].key
                  /\ \A f \in FieldNames(o) :
                       /\ catalog'[o].fields[f].inclusion = catalog[o].fields[f].inclusion
                       /\ catalog'[o].fields[f].selectedByDefault =
                            catalog[o].fields[f].selectedByDefault
  <2>1. CASE UNCHANGED catalog
    BY <2>1 DEF Entries
  <2>2. CASE \E f \in FieldNames(stream'), choice \in BOOLEAN :
               catalog' = [catalog EXCEPT ![stream'].fields[f].selected = choice]
    <3>1. PICK f \in FieldNames(stream'), choice \in BOOLEAN :
            catalog' = [catalog EXCEPT ![stream'].fields[f].selected = choice]
      BY <2>2
    <3>2. CASE o = stream'
      <4>1. catalog'[o] = [catalog[o] EXCEPT !.fields[f].selected = choice]
        BY <3>1, <3>2 DEF Entries
      <4>2. catalog[o] \in Entry(FieldNames(o)) /\ f \in FieldNames(o)
        BY <1>1, <3>2 DEF Entries
      <4>3. FieldNames(o) \in SUBSET Field
        BY DEF FieldNames
      <4> QED
        BY <1>1, <3>2, <4>1, <4>2, <4>3, EntryEdited, EntryAssumption
    <3>3. CASE o # stream'
      BY <3>1, <3>3 DEF Entries
    <3> QED
      BY <3>2, <3>3
  <2> QED
    BY <2>1, <2>2 DEF EditCatalog
<1>4. catalog' = [o \in Object |-> catalog'[o]]
  BY DEF EditCatalog, Entries
<1>5. Phases' /\ Known' /\ Choice'
  BY <1>1, <1>2, <1>3, SameEntries DEF Phases, Known, Choice
<1>6. Entries'
  <2>1. ASSUME NEW o \in Object, catalog'[o] # None PROVE EntryOf(o)'
    <3>1. EntryOf(o) /\ catalog[o] # None
      BY <1>3, <2>1 DEF Entries
    <3> QED
      BY <1>1, <1>3, <3>1, EntryKept
  <2> QED
    BY <1>1, <1>3, <1>4, <2>1, SameEntries DEF Entries
<1>7. Listed'
  BY <1>1, <1>2, <1>3, SameEntries DEF Listed
<1> QED
  BY <1>5, <1>6, <1>7

\* What a sync chooses.
LEMMA SyncStep ==
  ASSUME IInv, SyncStream
  PROVE  IInv'
<1>1. /\ phase = "edited" /\ phase' = "synced"
      /\ UNCHANGED <<api, formulas, byDefault, org, custom, requested>>
      /\ UNCHANGED <<todo, settings, tags, catalog, stream>>
  BY DEF SyncStream, config, source, described
<1>2. Described' = Described
  BY <1>1, SameEntries DEF Described
<1>3. Choice'
  <2>1. \A m : ShouldSyncField(m)' = ShouldSyncField(m) /\ IsPropertySelected(m)' = IsPropertySelected(m)
    BY <1>1 DEF ShouldSyncField, IsPropertySelected
  <2> QED
    BY <1>1, <2>1 DEF SyncStream, IInv, Choice, FieldNames
<1> QED
  BY <1>1, <1>2, <1>3, SameEntries, EntriesKept DEF IInv, Phases, Known, Listed

\* Every step keeps the invariant.
LEMMA InductiveStep == IInv /\ [Next]_vars => IInv'
<1> SUFFICES ASSUME IInv, [Next]_vars PROVE IInv'
  OBVIOUS
<1>1. CASE UNCHANGED vars
  <2>1. UNCHANGED <<phase, api, formulas, byDefault, org, custom, requested>>
        /\ UNCHANGED <<todo, settings, tags, catalog, stream, query, schema>>
    BY <1>1 DEF vars, config, source, described, chosen
  <2>2. Described' = Described
    BY <2>1, SameEntries DEF Described
  <2>3. Choice'
    BY <2>1 DEF IInv, Choice, ShouldSyncField, IsPropertySelected, FieldNames
  <2> QED
    BY <2>1, <2>2, <2>3, SameEntries, EntriesKept DEF IInv, Phases, Known, Listed
<1> QED
  BY <1>1, DescribeStep, FailStep, WriteStep, EditStep, SyncStep DEF Next

(* The inductive invariant of a discovery, an edit and a sync.                *)
THEOREM Inductive == Spec => []IInv
<1>1. Init => IInv
  BY InductiveInit
<1>2. IInv /\ [Next]_vars => IInv'
  BY InductiveStep
<1> QED
  BY <1>1, <1>2, PTL DEF Spec

-----------------------------------------------------------------------------
(* The theorems. *)

(* Every variable has its type.                                               *)
THEOREM TypeCorrect == Spec => []TypeOK
<1>1. IInv => TypeOK
  <2> SUFFICES ASSUME IInv PROVE TypeOK
    OBVIOUS
  <2>1. ASSUME NEW o \in Object, tags[o] # None PROVE TagOf[tags[o]] = o
    BY <2>1, TagsFound DEF IInv, Known
  <2>2. settings \subseteq custom /\ todo \subseteq requested
    BY DEF IInv, Phases, Known, Wanted
  <2> QED
    BY <2>1, <2>2 DEF IInv, Phases, Entries, Choice, TypeOK
<1> QED
  BY <1>1, Inductive, PTL

(* The catalog is complete, in whatever batches the objects were described:   *)
(* it has every object asked for that can be read, and no tags of a setting.  *)
THEOREM CompleteCatalog == Spec => []CatalogIsComplete
<1>1. IInv => CatalogIsComplete
  <2> SUFFICES ASSUME IInv, phase \notin {"describing", "failed"}
               PROVE  {o \in Object : catalog[o] # None} =
                        {o \in Wanted : "Id" \in FieldNames(o) /\ ~OfSetting(o)}
    BY DEF CatalogIsComplete, OfSetting, Wanted
  <2>1. Described = Wanted /\ Wanted \subseteq Object
    BY DEF IInv, Phases, Described, Wanted
  <2> QED
    BY <2>1 DEF IInv, Listed
<1> QED
  BY <1>1, Inductive, PTL

\* The fields of the stream that is synced have the metadata of discovery.
LEMMA SyncedFields ==
  ASSUME IInv, phase = "synced", NEW f \in FieldNames(stream)
  PROVE  LET m == catalog[stream].fields[f] IN
         /\ m.inclusion = Inclusion(stream, f)
         /\ m.inclusion = "available" => m.selectedByDefault \in {TRUE, None}
         /\ f \in query <=> ShouldSyncField(m)
         /\ f \in schema <=> IsPropertySelected(m)
BY DEF IInv, Choice, Entries, EntryOf

(* Whatever the user selects and both runs are configured with, the SCHEMA    *)
(* has every field that is queried: what the two functions disagree about is  *)
(* only ever a field in the SCHEMA that is not queried.                       *)
THEOREM QueriedFieldsInSchema == Spec => []QueryFitsSchema
<1>1. IInv => QueryFitsSchema
  <2> SUFFICES ASSUME IInv, phase = "synced", NEW f \in query PROVE f \in schema
    BY DEF QueryFitsSchema
  <2>1. f \in FieldNames(stream)
    BY DEF IInv, Choice
  <2> QED
    BY <2>1, SyncedFields DEF ShouldSyncField, IsPropertySelected
<1> QED
  BY <1>1, Inductive, PTL

\* Key fields are automatic, for any setting.
LEMMA KeysAreAutomatic ==
  ASSUME org \in Orgs, NEW o \in Object, NEW f \in FieldNames(o),
         f = "Id" \/ f = ReplicationKey(o)
  PROVE  Inclusion(o, f) = "automatic"
<1>1. f \in KeyFields
  <2>1. f # None
    BY CatalogAssumption DEF FieldNames
  <2> QED
    BY <2>1, KeyOfObject DEF KeyFields
<1>2. /\ org[o][f].type = "plain" /\ <<o, f>> \notin Restricted
      /\ f = "Id" => ~org[o][f].calculated
  BY <1>1, KeyAssumption DEF FieldNames
<1> QED
  BY <1>2 DEF Inclusion, Unsupported, Ignored

(* The Id and the replication key are queried, whatever the user deselects.   *)
THEOREM KeysQueried == Spec => []KeysAreQueried
<1>1. IInv => KeysAreQueried
  <2> SUFFICES ASSUME IInv, phase = "synced"
               PROVE  "Id" \in query /\ (catalog[stream].key # None => catalog[stream].key \in query)
    BY DEF KeysAreQueried
  <2>1. /\ stream \in Object /\ org \in Orgs /\ "Id" \in FieldNames(stream)
        /\ catalog[stream].key = ReplicationKey(stream)
    BY DEF IInv, Phases, Choice, Listed, Entries, EntryOf
  <2>2. ReplicationKey(stream) # None => ReplicationKey(stream) \in FieldNames(stream)
    BY KeyOfObject
  <2> QED
    BY <2>1, <2>2, KeysAreAutomatic, SyncedFields DEF ShouldSyncField
<1> QED
  BY <1>1, Inductive, PTL

(* No selection of the user makes the tap query a field the api cannot read.  *)
THEOREM UnsupportedNotQueried == Spec => []UnsupportedNeverQueried
<1>1. IInv => UnsupportedNeverQueried
  <2> SUFFICES ASSUME IInv, phase = "synced", NEW f \in query
               PROVE  ~Unsupported(stream, f) /\ org[stream][f].type # "binary"
    BY DEF UnsupportedNeverQueried
  <2>1. f \in FieldNames(stream) /\ stream \in Object /\ org \in Orgs
    BY DEF IInv, Phases, Choice
  <2>2. Inclusion(stream, f) \in {"automatic", "available"}
    BY <2>1, SyncedFields DEF ShouldSyncField
  <2>3. f = ReplicationKey(stream) => org[stream][f].type = "plain"
    <3>1. f = ReplicationKey(stream) => f \in KeyFields
      BY <2>1, KeyOfObject, CatalogAssumption DEF FieldNames
    <3> QED
      BY <2>1, <3>1, KeyAssumption DEF FieldNames
  <2> QED
    BY <2>2, <2>3 DEF Inclusion
<1> QED
  BY <1>1, Inductive, PTL
=============================================================================
