---------------------------- MODULE OWLSObjects -----------------------------
(***************************************************************************)
(* The classes of RESTAPI_OWLSobjects:                                     *)
(* the members of each and the keys its to_json and from_json use.         *)
(***************************************************************************)
EXTENDS RESTAPI_utils, TLC

SimulationDetails ==
    Plain({"id", "name", "gateway", "certificate", "key", "macPrefix", "deviceType",
        "devices", "healthCheckInterval", "stateInterval", "minAssociations",
        "maxAssociations", "minClients", "maxClients", "simulationLength", "threads",
        "clientInterval", "keepAlive", "reconnectInterval", "concurrentDevices"})
SimulationDetailsJson == ByName(SimulationDetails)

SimulationDetailsList == Plain({"list"})
SimulationDetailsListJson == ByName(SimulationDetailsList)

SimulationStatus ==
    Plain({"id", "simulationId", "state", "tx", "rx", "msgsTx", "msgsRx", "liveDevices",
        "timeToFullDevices", "startTime", "endTime", "errorDevices", "owner",
        "expectedDevices"})
SimulationStatusJson == WriteOnly(ByName(SimulationStatus))

Dashboard == Plain({"O"})
DashboardJson == Ignored(ByName(Dashboard), {"O"})

Classes ==
    [SimulationDetails |-> SimulationDetailsJson,
        SimulationDetailsList |-> SimulationDetailsListJson,
        SimulationStatus |-> SimulationStatusJson, Dashboard |-> DashboardJson]
=============================================================================
