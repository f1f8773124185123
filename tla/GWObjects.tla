----------------------------- MODULE GWObjects ------------------------------
(***************************************************************************)
(* The classes of RESTAPI_GWobjects:                                       *)
(* the members of each and the keys its to_json and from_json use.         *)
(***************************************************************************)
EXTENDS RESTAPI_utils, TLC

CertificateValidation == {"NO_CERTIFICATE", "VALID_CERTIFICATE", "MISMATCH_SERIAL", "VERIFIED",
                          "SIMULATED"}
VerifiedCertificateType(S) == Enum(S, "NO_CERTIFICATE", Same(CertificateValidation))

Device ==
    Plain({"SerialNumber", "DeviceType", "MACAddress", "Manufacturer", "Notes", "Owner",
        "Location", "Firmware", "Compatible", "FWUpdatePolicy", "UUID", "CreationTimestamp",
        "LastConfigurationChange", "LastConfigurationDownload", "LastFWUpdate", "Venue",
        "DevicePassword", "subscriber", "entity", "modified", "locale", "restrictedDevice",
        "pendingConfiguration", "pendingConfigurationCmd", "restrictionDetails",
        "pendingUUID", "simulated", "lastRecordedContact"})
    @@ EmbedDocument({"Configuration"})
DeviceJson ==
    Unwritten(Keyed(Device, [SerialNumber |-> "serialNumber", DeviceType |-> "deviceType",
        MACAddress |-> "macAddress", Manufacturer |-> "manufacturer",
        Configuration |-> "configuration", Notes |-> "notes", Owner |-> "owner",
        Location |-> "location", Firmware |-> "firmware", Compatible |-> "compatible",
        FWUpdatePolicy |-> "fwUpdatePolicy", CreationTimestamp |-> "createdTimestamp",
        LastConfigurationChange |-> "lastConfigurationChange",
        LastConfigurationDownload |-> "lastConfigurationDownload",
        LastFWUpdate |-> "lastFWUpdate", Venue |-> "venue",
        DevicePassword |-> "devicePassword"]), {"DeviceType"})

Statistics == Plain({"SerialNumber", "UUID", "Recorded"})
    @@ EmbedDocument({"Data"})
StatisticsJson ==
    WriteOnly(Unwritten(Keyed(Statistics, [Data |-> "data",
        Recorded |-> "recorded"]), {"SerialNumber"}))

Capabilities == Plain({"FirstUpdate", "LastUpdate"})
    @@ EmbedDocument({"Capabilities"})
CapabilitiesJson ==
    WriteOnly(Keyed(Capabilities, [Capabilities |-> "capabilities",
        FirstUpdate |-> "firstUpdate", LastUpdate |-> "lastUpdate"]))

DeviceLog == Plain({"SerialNumber", "Log", "Severity", "Recorded", "LogType", "UUID"})
    @@ EmbedDocument({"Data"})
DeviceLogJson ==
    WriteOnly(Unwritten(Keyed(DeviceLog, [Log |-> "log", Data |-> "data",
        Severity |-> "severity", Recorded |-> "recorded",
        LogType |-> "logType"]), {"SerialNumber"}))

HealthCheck == Plain({"SerialNumber", "UUID", "Recorded", "Sanity"})
    @@ EmbedDocument({"Data"})
HealthCheckJson ==
    WriteOnly(Unwritten(Keyed(HealthCheck, [Data |-> "values", Recorded |-> "recorded",
        Sanity |-> "sanity"]), {"SerialNumber"}))

DefaultConfiguration == Plain({"Name", "Models", "Description", "Created", "LastModified"})
    @@ EmbedDocument({"Configuration"})
DefaultConfigurationJson ==
    Unread(Keyed(DefaultConfiguration, [Name |-> "name", Configuration |-> "configuration",
        Models |-> "modelIds", Description |-> "description", Created |-> "created",
        LastModified |-> "lastModified"]), {"Created", "LastModified"})

DefaultFirmware ==
    Plain({"deviceType", "Description", "uri", "revision", "imageCreationDate", "Created",
        "LastModified"})
DefaultFirmwareJson ==
    Keyed(DefaultFirmware, [Description |-> "description", Created |-> "created",
        LastModified |-> "lastModified"])

CommandDetails ==
    Plain({"UUID", "SerialNumber", "Command", "Status", "SubmittedBy", "ErrorText",
        "Executed", "Completed", "RunAt", "ErrorCode", "Custom", "WaitingForFile",
        "AttachDate", "AttachSize", "AttachType", "executionTime", "lastTry", "deferred",
        "Submitted"})
    @@ EmbedDocument({"Details", "Results"})
CommandDetailsJson ==
    WriteOnly(Unwritten(Keyed(CommandDetails, [SerialNumber |-> "serialNumber",
        Command |-> "command", Status |-> "status", SubmittedBy |-> "submittedBy",
        Results |-> "results", Details |-> "details", ErrorText |-> "errorText",
        Executed |-> "executed", Completed |-> "completed", RunAt |-> "when",
        ErrorCode |-> "errorCode", Custom |-> "custom", WaitingForFile |-> "waitingForFile",
        AttachDate |-> "attachFile",
        Submitted |-> "submitted"]), {"AttachSize", "AttachType"}))

BlackListedDevice == Plain({"serialNumber", "reason", "author", "created"})
BlackListedDeviceJson == ByName(BlackListedDevice)

ConnectionState ==
    Plain({"MessageCount", "Address", "UUID", "PendingUUID", "TX", "RX", "Associations_2G",
        "Associations_5G", "Associations_6G", "Connected", "LastContact", "Firmware",
        "Compatible", "kafkaClients", "webSocketClients", "kafkaPackets", "websocketPackets",
        "locale", "started", "sessionId", "connectionCompletionTime", "certificateExpiryDate",
        "hasRADIUSSessions", "hasGPS", "sanity", "memoryUsed", "load", "temperature",
        "connectReason"})
    @@ VerifiedCertificateType({"VerifiedCertificate"})
ConnectionStateJson ==
    WriteOnly(Unwritten(Keyed(ConnectionState, [MessageCount |-> "messageCount",
        Address |-> "ipAddress", TX |-> "txBytes", RX |-> "rxBytes",
        Associations_2G |-> "associations_2G", Associations_5G |-> "associations_5G",
        Associations_6G |-> "associations_6G", Connected |-> "connected",
        LastContact |-> "lastContact", Firmware |-> "firmware",
        VerifiedCertificate |-> "verifiedCertificate"]), {"PendingUUID", "Compatible"}))

DeviceConnectionStatistics ==
    Plain({"connectedDevices", "averageConnectionTime", "connectingDevices"})
DeviceConnectionStatisticsJson == ByName(DeviceConnectionStatistics)

RttySessionDetails ==
    Plain({"SerialNumber", "Server", "Port", "Token", "TimeOut", "ConnectionId", "Started",
        "CommandUUID", "ViewPort", "DevicePassword"})
RttySessionDetailsJson ==
    WriteOnly(Keyed(RttySessionDetails, [SerialNumber |-> "serialNumber", Server |-> "server",
        Port |-> "port", Token |-> "token", TimeOut |-> "timeout",
        ConnectionId |-> "connectionId", Started |-> "started", CommandUUID |-> "commandUUID",
        ViewPort |-> "viewport", DevicePassword |-> "password"]))

Dashboard ==
    Plain({"snapshot", "numberOfDevices", "commands", "upTimes", "memoryUsed", "load1",
        "load5", "load15", "vendors", "status", "deviceType", "healths", "certificates",
        "lastContact", "associations"})
DashboardJson == WriteOnly(ByName(Dashboard))

CapabilitiesModel == Plain({"deviceType", "capabilities"})
CapabilitiesModelJson == WriteOnly(ByName(CapabilitiesModel))

ScriptRequest ==
    Plain({"serialNumber", "timeout", "type", "script", "scriptId", "when", "signature",
        "deferred", "uri"})
ScriptRequestJson == ByName(ScriptRequest)

RadiusProxyPoolList == Plain({"pools"})
RadiusProxyPoolListJson == ByName(RadiusProxyPoolList)

RadiusProxyPool ==
    Plain({"name", "description", "authConfig", "acctConfig", "coaConfig", "useByDefault",
        "radsecPoolType", "poolProxyIp", "radsecKeepAlive", "enabled"})
RadiusProxyPoolJson == ByName(RadiusProxyPool)

RadiusProxyServerConfig ==
    Plain({"strategy", "monitor", "monitorMethod", "methodParameters", "servers"})
RadiusProxyServerConfigJson == ByName(RadiusProxyServerConfig)

RadiusProxyServerEntry ==
    Plain({"name", "ip", "port", "weight", "secret", "certificate", "radsec",
        "allowSelfSigned", "radsecPort", "radsecSecret", "radsecKey", "radsecCert",
        "radsecCacerts", "radsecRealms", "ignore"})
RadiusProxyServerEntryJson == ByName(RadiusProxyServerEntry)

ScriptEntry ==
    Plain({"id", "name", "description", "uri", "content", "version", "type", "created",
        "modified", "author", "restricted", "deferred", "timeout", "defaultUploadURI"})
ScriptEntryJson == ByName(ScriptEntry)

ScriptEntryList == Plain({"scripts"})
ScriptEntryListJson == ByName(ScriptEntryList)

RangeOptions == Plain({"NO_IR", "AUTO_BW", "DFS", "NO_OUTDOOR", "wmmrule_ETSI", "NO_OFDM"})
RangeOptionsJson == WriteOnly(ByName(RangeOptions))

FrequencyRange == Plain({"from", "to", "channelWidth", "powerDb", "options"})
FrequencyRangeJson == WriteOnly(ByName(FrequencyRange))

RegulatoryCountryInfo == Plain({"country", "domain", "ranges"})
RegulatoryCountryInfoJson == WriteOnly(ByName(RegulatoryCountryInfo))

DeviceRestrictionsKeyInfo == Plain({"vendor", "algo"})
DeviceRestrictionsKeyInfoJson == ByName(DeviceRestrictionsKeyInfo)

DeviceRestrictions ==
    Plain({"dfs", "ssh", "rtty", "tty", "developer", "upgrade", "commands", "country",
        "key_info"})
DeviceRestrictionsJson == ByName(DeviceRestrictions)

RADIUSSession ==
    Plain({"started", "lastTransaction", "serialNumber", "destination", "userName",
        "accountingSessionId", "accountingMultiSessionId", "callingStationId",
        "chargeableUserIdentity", "secret", "interface", "nasId", "inputPackets",
        "outputPackets", "inputOctets", "outputOctets", "inputGigaWords", "outputGigaWords",
        "sessionTime", "calledStationId"})
RADIUSSessionJson == WriteOnly(ByName(RADIUSSession))

RADIUSSessionList == Plain({"sessions"})
RADIUSSessionListJson == WriteOnly(ByName(RADIUSSessionList))

RadiusCoADMParameters ==
    Plain({"accountingSessionId", "accountingMultiSessionId", "callingStationId",
        "chargeableUserIdentity", "userName"})
RadiusCoADMParametersJson == ByName(RadiusCoADMParameters)

Classes ==
    [Device |-> DeviceJson, Statistics |-> StatisticsJson, Capabilities |-> CapabilitiesJson,
        DeviceLog |-> DeviceLogJson, HealthCheck |-> HealthCheckJson,
        DefaultConfiguration |-> DefaultConfigurationJson,
        DefaultFirmware |-> DefaultFirmwareJson, CommandDetails |-> CommandDetailsJson,
        BlackListedDevice |-> BlackListedDeviceJson, ConnectionState |-> ConnectionStateJson,
        DeviceConnectionStatistics |-> DeviceConnectionStatisticsJson,
        RttySessionDetails |-> RttySessionDetailsJson, Dashboard |-> DashboardJson,
        CapabilitiesModel |-> CapabilitiesModelJson, ScriptRequest |-> ScriptRequestJson,
        RadiusProxyPoolList |-> RadiusProxyPoolListJson,
        RadiusProxyPool |-> RadiusProxyPoolJson,
        RadiusProxyServerConfig |-> RadiusProxyServerConfigJson,
        RadiusProxyServerEntry |-> RadiusProxyServerEntryJson,
        ScriptEntry |-> ScriptEntryJson, ScriptEntryList |-> ScriptEntryListJson,
        RangeOptions |-> RangeOptionsJson, FrequencyRange |-> FrequencyRangeJson,
        RegulatoryCountryInfo |-> RegulatoryCountryInfoJson,
        DeviceRestrictionsKeyInfo |-> DeviceRestrictionsKeyInfoJson,
        DeviceRestrictions |-> DeviceRestrictionsJson, RADIUSSession |-> RADIUSSessionJson,
        RADIUSSessionList |-> RADIUSSessionListJson,
        RadiusCoADMParameters |-> RadiusCoADMParametersJson]
=============================================================================
