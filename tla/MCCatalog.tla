----------------------------- MODULE MCCatalog -----------------------------
(* Catalog on an object with fields of every kind, a custom setting, its tags *)
(* and LoginHistory, described two at a time.                                 *)
EXTENDS Catalog, TLC

ObjectNames == {"EntityDefinition", "Setting__c", "Setting__Tag", "LoginHistory",
                "AccountChangeEvent", "TaskStatus", "BackgroundOperationResult"}
TheTags == [t \in {"Setting__Tag"} |-> "Setting__c"]
FieldNameSet == {"Id", "SystemModstamp", "CreatedDate", "LoginTime",
                 "RecordTypesSupported", "Other"}
TheRestricted == {<<"EntityDefinition", "RecordTypesSupported">>}

Plain == [type |-> "plain", calculated |-> FALSE]
Kinds == {[type |-> t, calculated |-> FALSE] :
            t \in {"plain", "compound", "binary", "json", "unknown"}}
         \cup {[type |-> t, calculated |-> TRUE] : t \in {"plain", "unknown"}}

With(names) == [f \in FieldNameSet |-> IF f \in names THEN Plain ELSE None]

TheOrgs ==
  {[o \in ObjectNames |->
      CASE o = "EntityDefinition" ->
             [With(keys \cup {"Id", "RecordTypesSupported"}) EXCEPT !["Other"] = kind]
        [] o = "LoginHistory" -> With(id \cup {"LoginTime"})
        [] OTHER -> With({"Id", "CreatedDate", "LoginTime"})] :
     keys \in {{}, {"CreatedDate"}, {"SystemModstamp", "CreatedDate"}}, kind \in Kinds,
     id \in SUBSET {"Id"}}
=============================================================================
