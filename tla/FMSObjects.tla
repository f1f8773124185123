----------------------------- MODULE FMSObjects -----------------------------
(***************************************************************************)
(* The classes of RESTAPI_FMSObjects:                                      *)
(* the members of each and the keys its to_json and from_json use.         *)
(***************************************************************************)
EXTENDS RESTAPI_utils, TLC

Firmware ==
    Plain({"id", "release", "deviceType", "description", "revision", "uri", "image",
        "imageDate", "size", "downloadCount", "firmwareHash", "owner", "location", "uploader",
        "digest", "latest", "notes", "created"})
FirmwareJson == ByName(Firmware)

FirmwareList == Plain({"firmwares"})
FirmwareListJson == ByName(FirmwareList)

DeviceType ==
    Plain({"id", "deviceType", "manufacturer", "model", "policy", "notes", "lastUpdate",
        "created"})
DeviceTypeJson == ByName(DeviceType)

DeviceTypeList == Plain({"deviceTypes"})
DeviceTypeListJson == ByName(DeviceTypeList)

RevisionHistoryEntry ==
    Plain({"id", "serialNumber", "fromRelease", "toRelease", "commandUUID", "revisionId",
        "upgraded"})
RevisionHistoryEntryJson == ByName(RevisionHistoryEntry)

RevisionHistoryEntryList == Plain({"history"})
RevisionHistoryEntryListJson == Keyed(RevisionHistoryEntryList, [history |-> "deviceTypes"])

FirmwareAgeDetails ==
    Plain({"latestId", "image", "imageDate", "revision", "uri", "age", "latest"})
FirmwareAgeDetailsJson == ByName(FirmwareAgeDetails)

DeviceConnectionInformation ==
    Plain({"serialNumber", "revision", "deviceType", "endPoint", "lastUpdate", "status"})
DeviceConnectionInformationJson == ByName(DeviceConnectionInformation)

DeviceReport ==
    Plain({"snapshot", "numberOfDevices", "OUI_", "Revisions_", "DeviceTypes_", "Status_",
        "EndPoints_", "UsingLatest_", "UnknownFirmwares_", "totalSecondsOld_"})
DeviceReportJson ==
    WriteOnly(Keyed(DeviceReport, [OUI_ |-> "ouis", Revisions_ |-> "revisions",
        DeviceTypes_ |-> "deviceTypes", Status_ |-> "status", EndPoints_ |-> "endPoints",
        UsingLatest_ |-> "usingLatest", UnknownFirmwares_ |-> "unknownFirmwares",
        totalSecondsOld_ |-> "totalSecondsOld"]))

DeviceInformation ==
    Plain({"serialNumber", "history", "currentFirmware", "currentFirmwareDate",
        "latestFirmware", "latestFirmwareDate", "latestFirmwareAvailable",
        "latestFirmwareURI"})
DeviceInformationJson == ByName(DeviceInformation)

DeviceCurrentInfo == Plain({"serialNumber", "revision", "upgraded"})
DeviceCurrentInfoJson == ByName(DeviceCurrentInfo)

DeviceCurrentInfoList == Plain({"devices"})
DeviceCurrentInfoListJson == ByName(DeviceCurrentInfoList)

Classes ==
    [Firmware |-> FirmwareJson, FirmwareList |-> FirmwareListJson,
        DeviceType |-> DeviceTypeJson, DeviceTypeList |-> DeviceTypeListJson,
        RevisionHistoryEntry |-> RevisionHistoryEntryJson,
        RevisionHistoryEntryList |-> RevisionHistoryEntryListJson,
        FirmwareAgeDetails |-> FirmwareAgeDetailsJson,
        DeviceConnectionInformation |-> DeviceConnectionInformationJson,
        DeviceReport |-> DeviceReportJson, DeviceInformation |-> DeviceInformationJson,
        DeviceCurrentInfo |-> DeviceCurrentInfoJson,
        DeviceCurrentInfoList |-> DeviceCurrentInfoListJson]
=============================================================================
