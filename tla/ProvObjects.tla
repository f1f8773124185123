---------------------------- MODULE ProvObjects -----------------------------
(***************************************************************************)
(* The classes of RESTAPI_ProvObjects:                                     *)
(* the members of each and the keys its to_json and from_json use.         *)
(***************************************************************************)
EXTENDS RESTAPI_utils, TLC

LocationTypes == {"SERVICE", "EQUIPMENT", "AUTO", "MANUAL", "SPECIAL", "CORPORATE", "UNKNOWN"}
location_from_string == [s \in LocationTypes |-> s]
LocationType(S) == Enum(S, "UNKNOWN", location_from_string)

ContactTypes == {"SUBSCRIBER", "USER", "INSTALLER", "CSR", "MANAGER", "BUSINESSOWNER", "TECHNICIAN",
                 "CORPORATE", "UNKNOWN"}
contact_from_string == [s \in ContactTypes |-> IF s = "MANAGER" THEN "UNKNOWN" ELSE s]
ContactType(S) == Enum(S, "USER", contact_from_string)

ObjectInfo == Plain({"id", "name", "description", "notes", "created", "modified", "tags"})
ObjectInfoJson == ByName(ObjectInfo)

ManagementPolicyEntry == Plain({"users", "resources", "access", "policy"})
ManagementPolicyEntryJson == ByName(ManagementPolicyEntry)

ManagementPolicy == Plain({"entries", "inUse", "entity", "venue"})
ManagementPolicyJson == Inlining(Ignored(ByName(ManagementPolicy), {"venue"}), ObjectInfoJson)

Entity ==
    Plain({"parent", "children", "venues", "contacts", "locations", "managementPolicy",
        "deviceConfiguration", "devices", "deviceRules", "sourceIP", "variables",
        "managementPolicies", "managementRoles", "maps", "configurations"})
EntityJson == Inlining(ByName(Entity), ObjectInfoJson)

DiGraphEntry == Plain({"parent", "child"})
DiGraphEntryJson == ByName(DiGraphEntry)

Venue ==
    Plain({"entity", "parent", "children", "managementPolicy", "devices", "topology",
        "design", "deviceConfiguration", "contacts", "location", "deviceRules", "sourceIP",
        "variables", "configurations", "maps", "managementPolicies", "managementRoles",
        "boards"})
VenueJson == Inlining(ByName(Venue), ObjectInfoJson)

Operator ==
    Plain({"managementPolicy", "managementRoles", "deviceRules", "variables",
        "defaultOperator", "sourceIP", "registrationId"})
OperatorJson == Inlining(ByName(Operator), ObjectInfoJson)

OperatorList == Plain({"operators"})
OperatorListJson == ByName(OperatorList)

ServiceClass ==
    Plain({"operatorId", "managementPolicy", "cost", "currency", "period", "billingCode",
        "variables", "defaultService"})
ServiceClassJson == Inlining(ByName(ServiceClass), ObjectInfoJson)

ServiceClassList == Plain({"serviceClasses"})
ServiceClassListJson == ByName(ServiceClassList)

UserInfoDigest == Plain({"id", "loginId", "userType"})
UserInfoDigestJson == Keyed(UserInfoDigest, [loginId |-> "entity", userType |-> "children"])

ManagementRole == Plain({"managementPolicy", "users", "inUse", "entity", "venue"})
ManagementRoleJson == Inlining(Ignored(ByName(ManagementRole), {"inUse"}), ObjectInfoJson)

Location ==
    Plain({"buildingName", "addressLines", "city", "state", "postal", "country", "phones",
        "mobiles", "geoCode", "inUse", "entity", "managementPolicy"})
    @@ LocationType({"type"})
LocationJson == Inlining(ByName(Location), ObjectInfoJson)

OperatorLocation ==
    Plain({"type", "buildingName", "addressLines", "city", "state", "postal", "country",
        "phones", "mobiles", "geoCode", "operatorId", "subscriberDeviceId",
        "managementPolicy"})
OperatorLocationJson == Inlining(ByName(OperatorLocation), ObjectInfoJson)

SubLocation ==
    Plain({"type", "buildingName", "addressLines", "city", "state", "postal", "country",
        "phones", "mobiles", "geoCode"})
SubLocationJson == ByName(SubLocation)

OperatorLocationList == Plain({"locations"})
OperatorLocationListJson == ByName(OperatorLocationList)

Contact ==
    Plain({"title", "salutation", "firstname", "lastname", "initials", "visual", "mobiles",
        "phones", "primaryEmail", "secondaryEmail", "accessPIN", "inUse", "entity",
        "managementPolicy"})
    @@ ContactType({"type"})
ContactJson == Inlining(ByName(Contact), ObjectInfoJson)

OperatorContact ==
    Plain({"type", "title", "salutation", "firstname", "lastname", "initials", "visual",
        "mobiles", "phones", "primaryEmail", "secondaryEmail", "accessPIN", "operatorId",
        "subscriberDeviceId", "managementPolicy"})
OperatorContactJson == Inlining(ByName(OperatorContact), ObjectInfoJson)

SubContact ==
    Plain({"type", "title", "salutation", "firstname", "lastname", "initials", "visual",
        "mobiles", "phones", "primaryEmail", "secondaryEmail", "accessPIN"})
SubContactJson == ByName(SubContact)

OperatorContactList == Plain({"contacts"})
OperatorContactListJson == ByName(OperatorContactList)

InventoryTag ==
    Plain({"serialNumber", "venue", "entity", "subscriber", "deviceType", "qrCode", "geoCode",
        "location", "contact", "deviceConfiguration", "deviceRules", "managementPolicy",
        "state", "devClass", "locale", "realMacAddress", "doNotAllowOverrides", "imported",
        "connected", "platform"})
InventoryTagJson == Inlining(ByName(InventoryTag), ObjectInfoJson)

InventoryConfigApplyResult ==
    Plain({"appliedConfiguration", "errors", "warnings", "errorCode"})
InventoryConfigApplyResultJson == ByName(InventoryConfigApplyResult)

InventoryTagList == Plain({"taglist"})
InventoryTagListJson == ByName(InventoryTagList)

DeviceConfigurationElement == Plain({"name", "description", "weight", "configuration"})
DeviceConfigurationElementJson == ByName(DeviceConfigurationElement)

DeviceConfiguration ==
    Plain({"managementPolicy", "deviceTypes", "configuration", "inUse", "variables",
        "deviceRules", "subscriberOnly", "venue", "entity", "subscriber"})
DeviceConfigurationJson == Inlining(ByName(DeviceConfiguration), ObjectInfoJson)

Report == Plain({"snapShot", "tenants"})
ReportJson == WriteOnly(Keyed(Report, [snapShot |-> "snapshot", tenants |-> "devices"]))

ExpandedUseEntry == Plain({"uuid", "name", "description"})
ExpandedUseEntryJson == ByName(ExpandedUseEntry)

ExpandedUseEntryList == Plain({"type", "entries"})
ExpandedUseEntryListJson == ByName(ExpandedUseEntryList)

ExpandedUseEntryMapList == Plain({"entries"})
ExpandedUseEntryMapListJson == ByName(ExpandedUseEntryMapList)

UuidList == Plain({"list"})
UuidListJson == ByName(UuidList)

ObjectACL == Plain({"users", "roles", "access"})
ObjectACLJson == ByName(ObjectACL)

ObjectACLList == Plain({"list"})
ObjectACLListJson == ByName(ObjectACLList)

Map ==
    Plain({"data", "entity", "creator", "visibility", "access", "managementPolicy", "venue"})
MapJson == Inlining(ByName(Map), ObjectInfoJson)

SerialNumberList == Plain({"serialNumbers"})
SerialNumberListJson == ByName(SerialNumberList)

MapList == Plain({"list"})
MapListJson == ByName(MapList)

SignupEntry ==
    Plain({"email", "userId", "macAddress", "serialNumber", "submitted", "completed",
        "status", "error", "statusCode", "deviceID", "registrationId", "operatorId"})
SignupEntryJson == Inlining(ByName(SignupEntry), ObjectInfoJson)

Variable == Plain({"type", "weight", "prefix", "value"})
VariableJson == ByName(Variable)

VariableList == Plain({"variables"})
VariableListJson == ByName(VariableList)

VariableBlock ==
    Plain({"variables", "entity", "venue", "subscriber", "inventory", "configurations",
        "managementPolicy"})
VariableBlockJson == Inlining(ByName(VariableBlock), ObjectInfoJson)

VariableBlockList == Plain({"variableBlocks"})
VariableBlockListJson == ByName(VariableBlockList)

ConfigurationDetails == Plain({"configuration", "rrm", "firmwareUpgrade", "firmwareRCOnly"})
ConfigurationDetailsJson == ByName(ConfigurationDetails)

SubscriberDevice ==
    Plain({"serialNumber", "deviceType", "operatorId", "subscriberId", "location", "contact",
        "managementPolicy", "serviceClass", "qrCode", "geoCode", "deviceRules", "state",
        "locale", "billingCode", "configuration", "suspended", "realMacAddress"})
SubscriberDeviceJson == Inlining(ByName(SubscriberDevice), ObjectInfoJson)

SubscriberDeviceList == Plain({"subscriberDevices"})
SubscriberDeviceListJson == ByName(SubscriberDeviceList)

VenueDeviceList == Plain({"id", "name", "description", "devices"})
VenueDeviceListJson == ByName(VenueDeviceList)

DeviceRules == Plain({"rcOnly", "rrm", "firmwareUpgrade"})
DeviceRulesJson == ByName(DeviceRules)

RRMAlgorithmDetails == Plain({"name", "parameters"})
RRMAlgorithmDetailsJson == ByName(RRMAlgorithmDetails)

RRMDetails == Plain({"vendor", "schedule", "algorithms"})
RRMDetailsJson == ByName(RRMDetails)

ConfigurationOverride ==
    Plain({"source", "reason", "parameterName", "parameterType", "parameterValue",
        "modified"})
ConfigurationOverrideJson == ByName(ConfigurationOverride)

ConfigurationOverrideList == Plain({"serialNumber", "managementPolicy", "overrides"})
ConfigurationOverrideListJson == ByName(ConfigurationOverrideList)

GLBLRAccountInfo ==
    Plain({"privateKey", "country", "province", "city", "organization", "commonName", "CSR",
        "CSRPrivateKey", "CSRPublicKey", "GlobalReachAcctId"})
GLBLRAccountInfoJson == Inlining(ByName(GLBLRAccountInfo), ObjectInfoJson)

GLBLRCertificateInfo ==
    Plain({"id", "name", "accountId", "csr", "certificate", "certificateChain",
        "certificateId", "expiresAt", "created"})
GLBLRCertificateInfoJson == ByName(GLBLRCertificateInfo)

GooglOrionAccountInfo == Plain({"privateKey", "certificate", "cacerts"})
GooglOrionAccountInfoJson == Inlining(ByName(GooglOrionAccountInfo), ObjectInfoJson)

RADIUSServer == Plain({"Hostname", "IP", "Port", "Secret"})
RADIUSServerJson == ByName(RADIUSServer)

RADIUSEndPointRadiusType ==
    Plain({"Authentication", "Accounting", "CoA", "AccountingInterval"})
RADIUSEndPointRadiusTypeJson == ByName(RADIUSEndPointRadiusType)

RADIUSEndPointRadsecType ==
    Plain({"Hostname", "IP", "Port", "Secret", "OpenRoamingType", "UseOpenRoamingAccount",
        "Weight", "Certificate", "PrivateKey", "CaCerts", "AllowSelfSigned"})
RADIUSEndPointRadsecTypeJson == ByName(RADIUSEndPointRadsecType)

RADIUSEndPoint ==
    Plain({"Type", "PoolStrategy", "UseGWProxy", "Index", "UsedBy", "RadiusServers",
        "RadsecServers", "NasIdentifier", "AccountingInterval"})
RADIUSEndPointJson == Inlining(ByName(RADIUSEndPoint), ObjectInfoJson)

RADIUSEndpointUpdateStatus == Plain({"lastUpdate", "lastConfigurationChange"})
RADIUSEndpointUpdateStatusJson == ByName(RADIUSEndpointUpdateStatus)

Classes ==
    [ObjectInfo |-> ObjectInfoJson, ManagementPolicyEntry |-> ManagementPolicyEntryJson,
        ManagementPolicy |-> ManagementPolicyJson, Entity |-> EntityJson,
        DiGraphEntry |-> DiGraphEntryJson, Venue |-> VenueJson, Operator |-> OperatorJson,
        OperatorList |-> OperatorListJson, ServiceClass |-> ServiceClassJson,
        ServiceClassList |-> ServiceClassListJson, UserInfoDigest |-> UserInfoDigestJson,
        ManagementRole |-> ManagementRoleJson, Location |-> LocationJson,
        OperatorLocation |-> OperatorLocationJson, SubLocation |-> SubLocationJson,
        OperatorLocationList |-> OperatorLocationListJson, Contact |-> ContactJson,
        OperatorContact |-> OperatorContactJson, SubContact |-> SubContactJson,
        OperatorContactList |-> OperatorContactListJson, InventoryTag |-> InventoryTagJson,
        InventoryConfigApplyResult |-> InventoryConfigApplyResultJson,
        InventoryTagList |-> InventoryTagListJson,
        DeviceConfigurationElement |-> DeviceConfigurationElementJson,
        DeviceConfiguration |-> DeviceConfigurationJson, Report |-> ReportJson,
        ExpandedUseEntry |-> ExpandedUseEntryJson,
        ExpandedUseEntryList |-> ExpandedUseEntryListJson,
        ExpandedUseEntryMapList |-> ExpandedUseEntryMapListJson, UuidList |-> UuidListJson,
        ObjectACL |-> ObjectACLJson, ObjectACLList |-> ObjectACLListJson, Map |-> MapJson,
        SerialNumberList |-> SerialNumberListJson, MapList |-> MapListJson,
        SignupEntry |-> SignupEntryJson, Variable |-> VariableJson,
        VariableList |-> VariableListJson, VariableBlock |-> VariableBlockJson,
        VariableBlockList |-> VariableBlockListJson,
        ConfigurationDetails |-> ConfigurationDetailsJson,
        SubscriberDevice |-> SubscriberDeviceJson,
        SubscriberDeviceList |-> SubscriberDeviceListJson,
        VenueDeviceList |-> VenueDeviceListJson, DeviceRules |-> DeviceRulesJson,
        RRMAlgorithmDetails |-> RRMAlgorithmDetailsJson, RRMDetails |-> RRMDetailsJson,
        ConfigurationOverride |-> ConfigurationOverrideJson,
        ConfigurationOverrideList |-> ConfigurationOverrideListJson,
        GLBLRAccountInfo |-> GLBLRAccountInfoJson,
        GLBLRCertificateInfo |-> GLBLRCertificateInfoJson,
        GooglOrionAccountInfo |-> GooglOrionAccountInfoJson,
        RADIUSServer |-> RADIUSServerJson,
        RADIUSEndPointRadiusType |-> RADIUSEndPointRadiusTypeJson,
        RADIUSEndPointRadsecType |-> RADIUSEndPointRadsecTypeJson,
        RADIUSEndPoint |-> RADIUSEndPointJson,
        RADIUSEndpointUpdateStatus |-> RADIUSEndpointUpdateStatusJson]
=============================================================================
