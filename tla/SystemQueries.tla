---------------------------- MODULE SystemQueries ----------------------------
(***************************************************************************)
(* The queries of this system as data: for each, its property dictionary   *)
(* (getSearchPropertiesMap), its criteria (getQueryCriteria), the default  *)
(* fields it resets before every answer (getDefaultFieldsValue), the       *)
(* fields it derives from the path (supplementByStaticFields), the link    *)
(* rule its instances are the source of, and its formatters                *)
(* (getFormatters).                                                        *)
(*                                                                         *)
(* A dictionary maps an interface to the properties it reads and each      *)
(* property to a member of the entity.  Interfaces go by the last words of *)
(* their names.                                                            *)
(***************************************************************************)
EXTENDS Integers, Sequences

\* definitions.hpp: the members every instance has.
metaMembers == <<"__meta_field__object_path", "__meta_field__object_service">>

\* Depths of GetSubTree: the criteria's own numbers.
noDepth == 0
nextOneDepth == 1

Nothing == <<>>   \* the empty map

\* general::assets, shared by Server and Baseboard.
assets == [Manufacturer |-> "Manufacturer", Model |-> "Model",
           SerialNumber |-> "SerialNumber", PartNumber |-> "PartNumber"]

Server ==
    [dictionary |-> [ItemChassis |-> [Name |-> "Name", Type |-> "Type"],
                     DecoratorAsset |-> assets],
     path |-> "inventory/system/chassis", interfaces |-> {"ItemChassis"},
     depth |-> nextOneDepth, default |-> Nothing, static |-> {}, links |-> {}]

Chassis ==
    [dictionary |-> [Platform |-> [ChassisType |-> "Type",
                                   ChassisPartNumber |-> "PartNumber"],
                     DecoratorAsset |-> [Manufacturer |-> "Manufacturer"]],
     path |-> "inventory/system/board", interfaces |-> {"Platform"},
     depth |-> nextOneDepth, default |-> Nothing, static |-> {}, links |-> {}]

Baseboard ==
    [dictionary |-> [ItemBoard |-> [Name |-> "Name", Type |-> "Type"],
                     DecoratorAsset |-> assets],
     path |-> "inventory/system/board", interfaces |-> {"ItemBoard"},
     depth |-> nextOneDepth, default |-> Nothing, static |-> {}, links |-> {}]

Sensors ==
    [dictionary |->
        [SensorValue |-> [Value |-> "Reading", Unit |-> "Unit"],
         ThresholdWarning |-> [WarningLow |-> "LowWarning",
                               WarningHigh |-> "HighWarning"],
         ThresholdCritical |-> [CriticalHigh |-> "HighCritical",
                                CriticalLow |-> "LowCritical"]],
     path |-> "sensors", interfaces |-> {"SensorValue"}, depth |-> noDepth,
     default |-> [Status |-> "OK"], static |-> {"Name"}, links |-> {}]

\* The associations of an object become children whose fields the second
\* entry names; their link rule is Sensors::linkStatus.
Status ==
    [dictionary |-> [AssociationDefinitions |-> [Associations |-> "Associations"],
                     Associations |-> [Source |-> "Status", Endpoint |-> "Causer"]],
     path |-> "", interfaces |-> {}, depth |-> nextOneDepth,
     default |-> [Status |-> "OK"], static |-> {}, links |-> {}]

\* Its link rule, Server::linkVersions, writes two members of the target.
Version ==
    [dictionary |-> [SoftwareVersion |-> [Version |-> "Version",
                                          Purpose |-> "Purpose"]],
     path |-> "software", interfaces |-> {"SoftwareVersion"},
     depth |-> nextOneDepth, default |-> Nothing, static |-> {},
     links |-> {"BmcVersion", "BiosVersion"}]

\* An IntrospectServiceDBusQuery: every managed object of the mapper.
Relation ==
    [dictionary |-> [Association |-> [endpoints |-> "Endpoint"]],
     path |-> "", interfaces |-> {}, depth |-> noDepth,
     default |-> Nothing, static |-> {}, links |-> {}]

Queries == [Server |-> Server, Chassis |-> Chassis, Baseboard |-> Baseboard,
            Sensors |-> Sensors, Status |-> Status, Version |-> Version,
            Relation |-> Relation]

\* The members an object of the query can get a value for by itself.
Mapped(q) == UNION {{q.dictionary[i][p] : p \in DOMAIN q.dictionary[i]} :
                        i \in DOMAIN q.dictionary}
OwnMembers(q) == Mapped(q) \cup q.static \cup DOMAIN q.default
-----------------------------------------------------------------------------
(***************************************************************************)
(* Values of properties.  A text stands for itself; what a formatter does  *)
(* with a value that is not a string is to throw std::invalid_argument.    *)
(***************************************************************************)
Text(t) == [kind |-> "string", text |-> t]
Number == [kind |-> "number", text |-> ""]
List == [kind |-> "list", text |-> ""]
Invalid == [kind |-> "invalid_argument", text |-> ""]

chassisTypesNames == [n \in {"23"} |-> "Rack Mount"]

sensorUnitsMap ==
    [DegreesC |-> "oC", Volts |-> "Volts", RPMS |-> "RPM", Meters |-> "Meters",
     Amperes |-> "Amperes", Watts |-> "Watts", Joules |-> "Joules", Percent |-> "%"]

\* Mutant: at() instead of find().
TranslatedAt(table, fallback, value) ==
    IF value.kind # "string" \/ value.text \notin DOMAIN table THEN Invalid
    ELSE Text(table[value.text])

\* Chassis::formatChassisType and Sensors::formatSensorUnit.
Translated(table, fallback, value) ==
    IF value.kind # "string" THEN Invalid
    ELSE Text(IF value.text \in DOMAIN table THEN table[value.text] ELSE fallback)

formatChassisType(value) == Translated(chassisTypesNames, "Other", value)
formatSensorUnit(value) == Translated(sensorUnitsMap, "Unit", value)

\* DBusQuery::processFormatters: the formatters go by the property alone.
processFormatters(query, property, value) ==
    CASE query = "Chassis" /\ property = "ChassisType" -> formatChassisType(value)
      [] query = "Sensors" /\ property = "Unit" -> formatSensorUnit(value)
      [] OTHER -> value

\* Version::getPurpose.
purposes == [BMC |-> "BMC", Host |-> "BIOS"]
getPurpose(text) == IF text \in DOMAIN purposes THEN purposes[text] ELSE "Unknown"
=============================================================================
