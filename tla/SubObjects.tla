----------------------------- MODULE SubObjects -----------------------------
(***************************************************************************)
(* The classes of RESTAPI_SubObjects:                                      *)
(* the members of each and the keys its to_json and from_json use.         *)
(***************************************************************************)
EXTENDS RESTAPI_utils, TLC

HomeDeviceMode ==
    Plain({"enableLEDS", "type", "subnet", "subnetMask", "startIP", "endIP", "created",
        "modified", "subnetV6", "subnetMaskV6", "startIPV6", "endIPV6", "leaseTime"})
HomeDeviceModeJson == Ignored(ByName(HomeDeviceMode), {"leaseTime"})

IPReservation == Plain({"nickname", "ipAddress", "macAddress"})
IPReservationJson == ByName(IPReservation)

IPReservationList == Plain({"id", "reservations", "created", "modified"})
IPReservationListJson == ByName(IPReservationList)

DnsConfiguration ==
    Plain({"ISP", "custom", "primary", "secondary", "primaryV6", "secondaryV6"})
DnsConfigurationJson == ByName(DnsConfiguration)

InternetConnection ==
    Plain({"type", "username", "password", "ipAddress", "subnetMask", "defaultGateway",
        "sendHostname", "primaryDns", "secondaryDns", "created", "modified", "ipV6Support",
        "ipAddressV6", "subnetMaskV6", "defaultGatewayV6", "primaryDnsV6", "secondaryDnsV6"})
InternetConnectionJson == ByName(InternetConnection)

WifiNetwork == Plain({"type", "name", "password", "encryption", "bands"})
WifiNetworkJson == ByName(WifiNetwork)

WifiNetworkList == Plain({"wifiNetworks", "created", "modified"})
WifiNetworkListJson == ByName(WifiNetworkList)

AccessTime == Plain({"day", "rangeList"})
AccessTimeJson == ByName(AccessTime)

AccessTimes == Plain({"schedule", "created", "modified"})
AccessTimesJson == ByName(AccessTimes)

SubscriberDevice ==
    Plain({"name", "description", "macAddress", "manufacturer", "firstContact", "lastContact",
        "group", "icon", "suspended", "ip", "schedule"})
SubscriberDeviceJson == ByName(SubscriberDevice)

SubscriberDeviceList == Plain({"devices", "created", "modified"})
SubscriberDeviceListJson == ByName(SubscriberDeviceList)

Association ==
    Plain({"name", "ssid", "macAddress", "rssi", "power", "ipv4", "ipv6", "tx", "rx",
        "manufacturer"})
AssociationJson == ByName(Association)

AssociationList == Plain({"associations", "created", "modified"})
AssociationListJson == ByName(AssociationList)

Client == Plain({"macAddress", "speed", "mode", "ipv4", "ipv6", "tx", "rx", "manufacturer"})
ClientJson == ByName(Client)

ClientList == Plain({"clients", "created", "modified"})
ClientListJson == ByName(ClientList)

Location ==
    Plain({"buildingName", "addressLines", "city", "state", "postal", "country", "phones",
        "mobiles"})
LocationJson == ByName(Location)

RadioHE == Plain({"multipleBSSID", "ema", "bssColor"})
RadioHEJson == ByName(RadioHE)

RadioRates == Plain({"beacon", "multicast"})
RadioRatesJson == ByName(RadioRates)

RadioInformation ==
    Plain({"band", "bandwidth", "channel", "country", "channelMode", "channelWidth",
        "requireMode", "txpower", "legacyRates", "beaconInterval", "dtimPeriod",
        "maximumClients", "rates", "he", "allowDFS", "mimo", "rawInfo"})
RadioInformationJson == ByName(RadioInformation)

AccessPoint ==
    Plain({"id", "macAddress", "serialNumber", "name", "deviceType", "subscriberDevices",
        "ipReservations", "address", "wifiNetworks", "internetConnection", "deviceMode",
        "dnsConfiguration", "radios", "automaticUpgrade", "configurationUUID",
        "currentFirmware", "currentFirmwareDate", "latestFirmware", "latestFirmwareDate",
        "newFirmwareAvailable", "latestFirmwareURI"})
AccessPointJson == ByName(AccessPoint)

AccessPointList == Plain({"list"})
AccessPointListJson == ByName(AccessPointList)

SubscriberInfo ==
    Plain({"id", "userId", "firstName", "initials", "lastName", "phoneNumber",
        "secondaryEmail", "accessPoints", "serviceAddress", "billingAddress", "created",
        "modified"})
SubscriberInfoJson == ByName(SubscriberInfo)

StatsEntry == Plain({"timestamp", "tx", "rx"})
StatsEntryJson == ByName(StatsEntry)

StatsBlock == Plain({"modified", "external", "internal"})
StatsBlockJson == ByName(StatsBlock)

Classes ==
    [HomeDeviceMode |-> HomeDeviceModeJson, IPReservation |-> IPReservationJson,
        IPReservationList |-> IPReservationListJson,
        DnsConfiguration |-> DnsConfigurationJson,
        InternetConnection |-> InternetConnectionJson, WifiNetwork |-> WifiNetworkJson,
        WifiNetworkList |-> WifiNetworkListJson, AccessTime |-> AccessTimeJson,
        AccessTimes |-> AccessTimesJson, SubscriberDevice |-> SubscriberDeviceJson,
        SubscriberDeviceList |-> SubscriberDeviceListJson, Association |-> AssociationJson,
        AssociationList |-> AssociationListJson, Client |-> ClientJson,
        ClientList |-> ClientListJson, Location |-> LocationJson, RadioHE |-> RadioHEJson,
        RadioRates |-> RadioRatesJson, RadioInformation |-> RadioInformationJson,
        AccessPoint |-> AccessPointJson, AccessPointList |-> AccessPointListJson,
        SubscriberInfo |-> SubscriberInfoJson, StatsEntry |-> StatsEntryJson,
        StatsBlock |-> StatsBlockJson]
=============================================================================
