---------------------------- MODULE CertObjects -----------------------------
(***************************************************************************)
(* The classes of RESTAPI_CertObjects:                                     *)
(* the members of each and the keys its to_json and from_json use.         *)
(***************************************************************************)
EXTENDS RESTAPI_utils, TLC

CertificateEntry ==
    Plain({"id", "entity", "creator", "type", "status", "certificate", "key", "devid", "cas",
        "manufacturer", "model", "redirector", "commonName", "certificateId", "batch",
        "created", "modified", "revoked", "revokeCount", "synched", "expiryDate"})
CertificateEntryJson == ByName(CertificateEntry)

EntityEntry ==
    Plain({"id", "creator", "name", "description", "defaultRedirector", "apiKey",
        "serverEnrollmentProfile", "clientEnrollmentProfile", "organization", "notes",
        "suspended", "deleted", "created", "modified"})
EntityEntryJson == ByName(EntityEntry)

BatchEntry ==
    Plain({"id", "entity", "creator", "name", "description", "manufacturer", "model",
        "redirector", "commonNames", "jobHistory", "notes", "submitted", "started",
        "completed", "modified"})
BatchEntryJson == ByName(BatchEntry)

JobEntry ==
    Plain({"id", "entity", "creator", "batch", "command", "commonNames", "completedNames",
        "errorNames", "parameters", "status", "submitted", "started", "completed",
        "requesterUsername"})
JobEntryJson == ByName(JobEntry)

DashBoardYearlyStats == Plain({"year", "activeCerts", "revokedCerts"})
DashBoardYearlyStatsJson == WriteOnly(ByName(DashBoardYearlyStats))

Dashboard ==
    Plain({"snapshot", "numberOfIssuedCerts", "numberOfRevokedCerts",
        "activeCertsPerOrganization", "revokedCertsPerOrganization", "numberOfRedirectors",
        "deviceTypes", "monthlyNumberOfCerts", "monthlyNumberOfCertsPerOrgPerYear"})
DashboardJson == WriteOnly(ByName(Dashboard))

Classes ==
    [CertificateEntry |-> CertificateEntryJson, EntityEntry |-> EntityEntryJson,
        BatchEntry |-> BatchEntryJson, JobEntry |-> JobEntryJson,
        DashBoardYearlyStats |-> DashBoardYearlyStatsJson, Dashboard |-> DashboardJson]
=============================================================================
