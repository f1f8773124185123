-------------------------- MODULE SecurityObjects ---------------------------
(***************************************************************************)
(* The classes of RESTAPI_SecurityObjects:                                 *)
(* the members of each and the keys its to_json and from_json use.         *)
(***************************************************************************)
EXTENDS RESTAPI_utils, TLC

USER_ROLE == {"unknown", "root", "admin", "subscriber", "csr", "system", "installer", "noc",
              "accounting", "partner"}
UserTypeFromString == [u \in USER_ROLE |-> u]
UserRole(S) == Enum(S, "unknown", UserTypeFromString)

ResourceAccessType == {"NONE", "READ", "MODIFY", "DELETE", "CREATE", "TEST", "MOVE"}
ResourceAccessTypeFromString == [a \in ResourceAccessType |-> a]
ResourceAccess(S) == Enum(S, "NONE", ResourceAccessTypeFromString)

AclTemplate == Plain({"Read_", "ReadWrite_", "ReadWriteCreate_", "Delete_", "PortalLogin_"})
AclTemplateJson ==
    Keyed(AclTemplate, [Read_ |-> "Read", ReadWrite_ |-> "ReadWrite",
        ReadWriteCreate_ |-> "ReadWriteCreate", Delete_ |-> "Delete",
        PortalLogin_ |-> "PortalLogin"])

WebToken ==
    Plain({"access_token_", "refresh_token_", "id_token_", "token_type_", "username_",
        "userMustChangePassword", "errorCode", "expires_in_", "idle_timeout_",
        "acl_template_", "created_", "lastRefresh_"})
WebTokenJson ==
    Unread(Unwritten(Keyed(WebToken, [access_token_ |-> "access_token",
        refresh_token_ |-> "refresh_token", token_type_ |-> "token_type",
        username_ |-> "username", expires_in_ |-> "expires_in",
        idle_timeout_ |-> "idle_timeout", acl_template_ |-> "aclTemplate",
        created_ |-> "created",
        lastRefresh_ |-> "lastRefresh"]), {"id_token_"}), {"id_token_", "errorCode"})

MobilePhoneNumber == Plain({"number", "verified", "primary"})
MobilePhoneNumberJson == ByName(MobilePhoneNumber)

MfaAuthInfo == Plain({"enabled", "method"})
MfaAuthInfoJson == ByName(MfaAuthInfo)

UserLoginLoginExtensions == Plain({"mobiles", "mfa", "authenticatorSecret"})
UserLoginLoginExtensionsJson == ByName(UserLoginLoginExtensions)

MFAChallengeRequest == Plain({"uuid", "question", "method", "created"})
MFAChallengeRequestJson == ByName(MFAChallengeRequest)

MFAChallengeResponse == Plain({"uuid", "answer"})
MFAChallengeResponseJson == ByName(MFAChallengeResponse)

UserInfo ==
    Plain({"id", "name", "description", "avatar", "email", "validated", "validationEmail",
        "validationDate", "creationDate", "validationURI", "changePassword", "lastLogin",
        "currentLoginURI", "lastPasswordChange", "lastEmailCheck", "waitingForEmailCheck",
        "locale", "notes", "location", "owner", "suspended", "blackListed",
        "userTypeProprietaryInfo", "securityPolicy", "securityPolicyChange",
        "currentPassword", "lastPasswords", "oauthType", "oauthUserInfo", "modified",
        "signingUp"})
    @@ UserRole({"userRole"})
UserInfoJson == ByName(UserInfo)

UserInfoList == Plain({"users"})
UserInfoListJson == ByName(UserInfoList)

InternalServiceInfo == Plain({"privateURI", "publicURI", "token"})
InternalServiceInfoJson == ByName(InternalServiceInfo)

InternalSystemServices == Plain({"key", "version", "services"})
InternalSystemServicesJson == ByName(InternalSystemServices)

SystemEndpoint == Plain({"type", "id", "vendor", "uri", "authenticationType"})
SystemEndpointJson == ByName(SystemEndpoint)

SystemEndpointList == Plain({"endpoints"})
SystemEndpointListJson == ByName(SystemEndpointList)

UserInfoAndPolicy == Plain({"webtoken", "userinfo"})
UserInfoAndPolicyJson ==
    Keyed(UserInfoAndPolicy, [webtoken |-> "tokenInfo", userinfo |-> "userInfo"])

NoteInfo == Plain({"created", "createdBy", "note"})
NoteInfoJson == ByName(NoteInfo)

ProfileAction == Plain({"resource"})
    @@ ResourceAccess({"access"})
ProfileActionJson == ByName(ProfileAction)

SecurityProfile == Plain({"id", "name", "description", "policy", "role", "notes"})
SecurityProfileJson == ByName(SecurityProfile)

SecurityProfileList == Plain({"profiles"})
SecurityProfileListJson == ByName(SecurityProfileList)

ActionLink ==
    Plain({"id", "action", "userId", "actionTemplate", "variables", "locale", "message",
        "sent", "expires", "completed", "canceled", "userAction", "created"})
ActionLinkJson == ByName(ActionLink)

Preferences == Plain({"id", "modified", "data"})
PreferencesJson == ByName(Preferences)

SubMfaConfig == Plain({"id", "type", "sms", "email"})
SubMfaConfigJson == ByName(SubMfaConfig)

Token ==
    Plain({"token", "refreshToken", "tokenType", "userName", "created", "expires",
        "idleTimeout", "revocationDate", "lastRefresh"})
TokenJson == ByName(Token)

LoginRecordInfo == Plain({"sessionId", "userId", "email", "login", "logout"})
LoginRecordInfoJson == WriteOnly(ByName(LoginRecordInfo))

ApiKeyAccessRight == Plain({"service", "access"})
ApiKeyAccessRightJson == ByName(ApiKeyAccessRight)

ApiKeyAccessRightList == Plain({"acls"})
ApiKeyAccessRightListJson == ByName(ApiKeyAccessRightList)

ApiKeyEntry ==
    Plain({"id", "userUuid", "name", "description", "apiKey", "salt", "created", "expiresOn",
        "rights", "lastUse"})
ApiKeyEntryJson == Ignored(ByName(ApiKeyEntry), {"created"})

ApiKeyEntryList == Plain({"apiKeys"})
ApiKeyEntryListJson == ByName(ApiKeyEntryList)

ExtraSystemConfiguration == Plain({"parameterName", "parameterValue"})
ExtraSystemConfigurationJson == ByName(ExtraSystemConfiguration)

Classes ==
    [AclTemplate |-> AclTemplateJson, WebToken |-> WebTokenJson,
        MobilePhoneNumber |-> MobilePhoneNumberJson, MfaAuthInfo |-> MfaAuthInfoJson,
        UserLoginLoginExtensions |-> UserLoginLoginExtensionsJson,
        MFAChallengeRequest |-> MFAChallengeRequestJson,
        MFAChallengeResponse |-> MFAChallengeResponseJson, UserInfo |-> UserInfoJson,
        UserInfoList |-> UserInfoListJson, InternalServiceInfo |-> InternalServiceInfoJson,
        InternalSystemServices |-> InternalSystemServicesJson,
        SystemEndpoint |-> SystemEndpointJson, SystemEndpointList |-> SystemEndpointListJson,
        UserInfoAndPolicy |-> UserInfoAndPolicyJson, NoteInfo |-> NoteInfoJson,
        ProfileAction |-> ProfileActionJson, SecurityProfile |-> SecurityProfileJson,
        SecurityProfileList |-> SecurityProfileListJson, ActionLink |-> ActionLinkJson,
        Preferences |-> PreferencesJson, SubMfaConfig |-> SubMfaConfigJson,
        Token |-> TokenJson, LoginRecordInfo |-> LoginRecordInfoJson,
        ApiKeyAccessRight |-> ApiKeyAccessRightJson,
        ApiKeyAccessRightList |-> ApiKeyAccessRightListJson, ApiKeyEntry |-> ApiKeyEntryJson,
        ApiKeyEntryList |-> ApiKeyEntryListJson,
        ExtraSystemConfiguration |-> ExtraSystemConfigurationJson]
=============================================================================
