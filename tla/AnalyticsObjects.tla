-------------------------- MODULE AnalyticsObjects --------------------------
(***************************************************************************)
(* The classes of RESTAPI_AnalyticsObjects and RESTAPI_MCPAnalyticsObjects:*)
(* the members of each and the keys its to_json and from_json use.         *)
(***************************************************************************)
EXTENDS RESTAPI_utils, TLC
LOCAL Prov == INSTANCE ProvObjects

Report == Plain({"snapShot"})
ReportJson == WriteOnly(Unwritten(ByName(Report), {"snapShot"}))

VenueInfo == Plain({"id", "name", "description", "retention", "interval", "monitorSubVenues"})
VenueInfoJson == ByName(VenueInfo)

BoardInfo == Plain({"venueList"})
BoardInfoJson == Inlining(ByName(BoardInfo), Prov!ObjectInfoJson)

DeviceInfo ==
    Plain({"boardId", "type", "serialNumber", "deviceType", "platform", "lastContact",
        "lastPing", "lastState", "lastFirmware", "lastFirmwareUpdate", "lastConnection",
        "lastDisconnection", "pings", "states", "connected", "connectionIp",
        "associations_2g", "associations_5g", "associations_6g", "health", "lastHealth",
        "locale", "uptime", "memory"})
DeviceInfoJson == ByName(DeviceInfo)

DeviceInfoList == Plain({"devices"})
DeviceInfoListJson == ByName(DeviceInfoList)

UE_rate == Plain({"bitrate", "mcs", "nss", "ht", "sgi", "chwidth"})
UE_rateJson == ByName(UE_rate)

(* A fingerprint keeps the object it is read from whole: its one key stands *)
(* for the document.                                                       *)
Fingerprint == EmbedDocument({"json"})
FingerprintJson == Keyed(Fingerprint, [json |-> "*"])

(* tx_bytes and rx_bytes come with a flag that says whether they are there. *)
UETimePoint ==
    Plain({"station", "rssi", "tx_duration", "rx_packets", "tx_packets", "tx_retries",
        "tx_failed", "connected", "inactive", "tx_bytes_bw", "rx_bytes_bw", "tx_packets_bw",
        "rx_packets_bw", "tx_failed_pct", "tx_retries_pct", "tx_duration_pct",
        "tx_bytes_delta", "rx_bytes_delta", "tx_duration_delta", "rx_packets_delta",
        "tx_packets_delta", "tx_retries_delta", "tx_failed_delta", "tx_rate", "rx_rate",
        "fingerprint", "tidstats"})
    @@ Optional({"tx_bytes", "rx_bytes"})
UETimePointJson == Ignored(ByName(UETimePoint), {"tidstats"})

APTimePoint ==
    Plain({"collisions", "multicast", "rx_bytes", "rx_dropped", "rx_errors", "rx_packets",
        "tx_bytes", "tx_dropped", "tx_errors", "tx_packets", "tx_bytes_bw", "rx_bytes_bw",
        "rx_dropped_pct", "tx_dropped_pct", "rx_packets_bw", "tx_packets_bw", "rx_errors_pct",
        "tx_errors_pct", "tx_bytes_delta", "rx_bytes_delta", "rx_dropped_delta",
        "tx_dropped_delta", "rx_packets_delta", "tx_packets_delta", "rx_errors_delta",
        "tx_errors_delta"})
APTimePointJson == ByName(APTimePoint)

TIDstat_entry == Plain({"rx_msdu", "tx_msdu", "tx_msdu_failed", "tx_msdu_retries"})
TIDstat_entryJson == ByName(TIDstat_entry)

RadioTimePoint ==
    Plain({"band", "channel_width", "active_ms", "busy_ms", "receive_ms", "transmit_ms",
        "tx_power", "channel", "noise", "active_pct", "busy_pct", "receive_pct",
        "transmit_pct"})
    @@ Optional({"temperature"})
RadioTimePointJson == ByName(RadioTimePoint)

AveragePoint == Plain({"min", "max", "avg"})
AveragePointJson == ByName(AveragePoint)

SSIDTimePoint ==
    Plain({"bssid", "mode", "ssid", "band", "channel", "associations", "tx_bytes_bw",
        "rx_bytes_bw", "tx_packets_bw", "rx_packets_bw", "tx_failed_pct", "tx_retries_pct",
        "tx_duration_pct"})
SSIDTimePointJson == ByName(SSIDTimePoint)

DeviceResourceTimePoint ==
    Optional({"memory_free", "memory_total", "memory_cached", "memory_buffered"})
DeviceResourceTimePointJson == ByName(DeviceResourceTimePoint)

DeviceTimePoint ==
    Plain({"id", "boardId", "venueId", "timestamp", "ap_data", "ssid_data", "radio_data",
        "resource_data", "device_info", "serialNumber"})
DeviceTimePointJson == Unwritten(ByName(DeviceTimePoint), {"venueId", "resource_data"})

DeviceTimePointAnalysis ==
    Plain({"timestamp", "noise", "temperature", "active_pct", "busy_pct", "receive_pct",
        "transmit_pct", "tx_power", "tx_bytes_bw", "rx_bytes_bw", "rx_dropped_pct",
        "tx_dropped_pct", "rx_packets_bw", "tx_packets_bw", "rx_errors_pct", "tx_errors_pct"})
DeviceTimePointAnalysisJson == Ignored(ByName(DeviceTimePointAnalysis), {"timestamp"})

DeviceTimePointList == Plain({"points", "stats"})
DeviceTimePointListJson == ByName(DeviceTimePointList)

DeviceTimePointStats == Plain({"firstPoint", "lastPoint", "count"})
DeviceTimePointStatsJson == ByName(DeviceTimePointStats)

WifiClientRate == Plain({"bitrate", "chwidth", "mcs", "nss", "vht"})
WifiClientRateJson == ByName(WifiClientRate)

WifiClientHistory ==
    Plain({"station_id", "bssid", "ssid", "rssi", "rx_bitrate", "rx_chwidth", "rx_mcs",
        "rx_nss", "rx_vht", "tx_bitrate", "tx_chwidth", "tx_mcs", "tx_nss", "tx_vht",
        "rx_bytes", "tx_bytes", "rx_duration", "tx_duration", "rx_packets", "tx_packets",
        "ipv4", "ipv6", "channel_width", "noise", "tx_power", "channel", "active_ms",
        "busy_ms", "receive_ms", "mode", "ack_signal", "ack_signal_avg", "connected",
        "inactive", "tx_retries", "venue_id", "timestamp"})
WifiClientHistoryJson == ByName(WifiClientHistory)

MCPRequestedWindow == Plain({"startTime", "endTime"})
MCPRequestedWindowJson == WriteOnly(ByName(MCPRequestedWindow))

MCPObservedWindow == Optional({"startTime", "endTime"})
MCPObservedWindowJson == WriteOnly(ByName(MCPObservedWindow))

MCPMemorySummaryData ==
    Optional({"min_memfree", "max_memfree", "avg_memfree", "latest_memfree"})
MCPMemorySummaryDataJson == WriteOnly(ByName(MCPMemorySummaryData))

MCPMemorySummaryMeta == Plain({"requestedWindow", "observedWindow"})
MCPMemorySummaryMetaJson == WriteOnly(ByName(MCPMemorySummaryMeta))

MCPGatewayMemorySummary == Plain({"data", "meta"})
MCPGatewayMemorySummaryJson == WriteOnly(ByName(MCPGatewayMemorySummary))

MCPGatewayWifiTemperatureSummaryData ==
    Optional({"min_wifi_temp_2_4G", "max_wifi_temp_2_4G", "avg_wifi_temp_2_4G",
        "latest_wifi_temp_2_4G", "min_wifi_temp_5G", "max_wifi_temp_5G", "avg_wifi_temp_5G",
        "latest_wifi_temp_5G"})
MCPGatewayWifiTemperatureSummaryDataJson ==
    WriteOnly(Keyed(MCPGatewayWifiTemperatureSummaryData, [
        min_wifi_temp_2_4G |-> "min_wifi_temp_2.4G",
        max_wifi_temp_2_4G |-> "max_wifi_temp_2.4G",
        avg_wifi_temp_2_4G |-> "avg_wifi_temp_2.4G",
        latest_wifi_temp_2_4G |-> "latest_wifi_temp_2.4G"]))

MCPGatewayWifiTemperatureSummary == Plain({"data", "meta"})
MCPGatewayWifiTemperatureSummaryJson == WriteOnly(ByName(MCPGatewayWifiTemperatureSummary))

MCPClientUsageItem ==
    Plain({"mac", "rx_bytes", "tx_bytes", "total_bytes", "data_consume_rx", "data_consume_tx",
        "total_data_usage"})
MCPClientUsageItemJson == WriteOnly(ByName(MCPClientUsageItem))

MCPClientUsageSummaryData == Plain({"items", "totalClients", "truncated"})
MCPClientUsageSummaryDataJson == WriteOnly(ByName(MCPClientUsageSummaryData))

MCPDeviceBandwidthConsumptionSummary == Plain({"data", "meta"})
MCPDeviceBandwidthConsumptionSummaryJson ==
    WriteOnly(ByName(MCPDeviceBandwidthConsumptionSummary))

MCPClientRssiItem ==
    Plain({"mac", "rssi_excellent_pct", "rssi_good_pct", "rssi_fair_pct", "rssi_poor_pct",
        "rssi_total_samples"})
MCPClientRssiItemJson == WriteOnly(ByName(MCPClientRssiItem))

MCPClientRssiQualitySummary ==
    Plain({"requestedWindow", "observedWindow", "items", "totalClients", "truncated"})
MCPClientRssiQualitySummaryJson ==
    WriteOnly(Keyed(MCPClientRssiQualitySummary, [requestedWindow |-> "meta.requestedWindow",
        observedWindow |-> "meta.observedWindow", items |-> "data.items",
        totalClients |-> "data.totalClients", truncated |-> "data.truncated"]))

MCPGatewayAvailabilityData == Plain({"gw_uuid", "fetch_status", "offlineEventCount"})
MCPGatewayAvailabilityDataJson == WriteOnly(ByName(MCPGatewayAvailabilityData))

MCPGatewayAvailabilityMeta == Plain({"requestedWindow", "observedWindow"})
MCPGatewayAvailabilityMetaJson == WriteOnly(ByName(MCPGatewayAvailabilityMeta))

MCPGatewayAvailabilitySummary == Plain({"meta", "data"})
MCPGatewayAvailabilitySummaryJson == WriteOnly(ByName(MCPGatewayAvailabilitySummary))

(* The rows of the tables, by the Convert functions of the four stores: a  *)
(* board's row holds its first venue, and none when the id is empty.       *)
TimePointColumns ==
    <<"id", "boardId", "timestamp", "ap_data", "ssid_data", "radio_data", "device_info",
        "serialNumber", "resource_data", "venueId">>
DeviceTimePointRow == ByPosition(DeviceTimePoint, 0, TimePointColumns, TimePointColumns)

WifiClientHistoryColumns ==
    <<"timestamp", "station_id", "bssid", "ssid", "rssi", "rx_bitrate", "rx_chwidth",
        "rx_mcs", "rx_nss", "rx_vht", "tx_bitrate", "tx_chwidth", "tx_mcs", "tx_nss",
        "tx_vht", "rx_bytes", "tx_bytes", "rx_duration", "tx_duration", "rx_packets",
        "tx_packets", "ipv4", "ipv6", "channel_width", "noise", "tx_power", "channel",
        "active_ms", "busy_ms", "receive_ms", "mode", "ack_signal", "ack_signal_avg",
        "connected", "inactive", "tx_retries", "venue_id">>
WifiClientHistoryRow ==
    ByPosition(WifiClientHistory, 0, WifiClientHistoryColumns, WifiClientHistoryColumns)

DeviceAvailabilityEvent ==
    Plain({"id", "board_id", "serialNumber", "event_type", "event_time", "reason",
        "connection_ip", "session_id", "event_id", "idempotency_key"})
AvailabilityColumns ==
    <<"id", "board_id", "serialNumber", "event_type", "event_time", "reason", "connection_ip",
        "session_id", "event_id", "idempotency_key">>
DeviceAvailabilityEventRow ==
    ByPosition(DeviceAvailabilityEvent, 0, AvailabilityColumns, AvailabilityColumns)

InfoColumns == <<"id", "name", "description", "notes", "created", "modified">>
VenueColumns == <<"id", "name", "description", "retention", "interval", "monitorSubVenues">>
BoardInfoRow ==
    [Inlining(ByPosition(VenueInfo, 6, VenueColumns, VenueColumns),
              ByPosition(Prov!ObjectInfo, 0, InfoColumns, InfoColumns)) EXCEPT !.unless = "id"]

Classes ==
    [Report |-> ReportJson, VenueInfo |-> VenueInfoJson, BoardInfo |-> BoardInfoJson,
        DeviceInfo |-> DeviceInfoJson, DeviceInfoList |-> DeviceInfoListJson,
        UE_rate |-> UE_rateJson, Fingerprint |-> FingerprintJson,
        UETimePoint |-> UETimePointJson, APTimePoint |-> APTimePointJson,
        TIDstat_entry |-> TIDstat_entryJson, RadioTimePoint |-> RadioTimePointJson,
        AveragePoint |-> AveragePointJson, SSIDTimePoint |-> SSIDTimePointJson,
        DeviceResourceTimePoint |-> DeviceResourceTimePointJson,
        DeviceTimePoint |-> DeviceTimePointJson,
        DeviceTimePointAnalysis |-> DeviceTimePointAnalysisJson,
        DeviceTimePointList |-> DeviceTimePointListJson,
        DeviceTimePointStats |-> DeviceTimePointStatsJson,
        WifiClientRate |-> WifiClientRateJson, WifiClientHistory |-> WifiClientHistoryJson,
        MCPRequestedWindow |-> MCPRequestedWindowJson,
        MCPObservedWindow |-> MCPObservedWindowJson,
        MCPMemorySummaryData |-> MCPMemorySummaryDataJson,
        MCPMemorySummaryMeta |-> MCPMemorySummaryMetaJson,
        MCPGatewayMemorySummary |-> MCPGatewayMemorySummaryJson,
        MCPGatewayWifiTemperatureSummaryData |-> MCPGatewayWifiTemperatureSummaryDataJson,
        MCPGatewayWifiTemperatureSummary |-> MCPGatewayWifiTemperatureSummaryJson,
        MCPClientUsageItem |-> MCPClientUsageItemJson,
        MCPClientUsageSummaryData |-> MCPClientUsageSummaryDataJson,
        MCPDeviceBandwidthConsumptionSummary |-> MCPDeviceBandwidthConsumptionSummaryJson,
        MCPClientRssiItem |-> MCPClientRssiItemJson,
        MCPClientRssiQualitySummary |-> MCPClientRssiQualitySummaryJson,
        MCPGatewayAvailabilityData |-> MCPGatewayAvailabilityDataJson,
        MCPGatewayAvailabilityMeta |-> MCPGatewayAvailabilityMetaJson,
        MCPGatewayAvailabilitySummary |-> MCPGatewayAvailabilitySummaryJson,
        DeviceTimePointRow |-> DeviceTimePointRow,
        WifiClientHistoryRow |-> WifiClientHistoryRow,
        DeviceAvailabilityEventRow |-> DeviceAvailabilityEventRow,
        BoardInfoRow |-> BoardInfoRow]
=============================================================================
