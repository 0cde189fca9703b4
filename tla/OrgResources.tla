------------------------------ MODULE OrgResources ------------------------------
(***************************************************************************)
(* The handlers of organisations, their users and settings, roles, tokens  *)
(* and plugins (vcd/resource_vcd_org*.go and others), in the vocabulary of *)
(* HandlerSteps.  A handler has the name of its Go function.  The parent   *)
(* is the organisation.                                                    *)
(***************************************************************************)
EXTENDS HandlerSteps

-----------------------------------------------------------------------------
(* Organisations: any failed lookup of Read forgets them.  The last change *)
(* is the one of the metadata.                                             *)

resourceOrgRead == <<FindOr(Forget), SetId, Ask>>
resourceOrgCreate == <<CreatePart, Find(Error), SetId, Change>> \o resourceOrgRead
resourceOrgUpdate == <<Find(Error), ChangePart, Change>> \o resourceOrgRead
resourceOrgDelete == <<Find(Error), Remove>>
resourceVcdOrgImport == <<Find(Error), Ask, SetId>> \o resourceOrgRead

resourceOrg ==
    [create |-> resourceOrgCreate, read |-> resourceOrgRead, update |-> resourceOrgUpdate,
     delete |-> resourceOrgDelete, import |-> resourceVcdOrgImport]
-----------------------------------------------------------------------------
(* Users and groups.  Only Read, by way of setOrgUserData, sets the ID of  *)
(* a user, also in Create; a user's organisation that is not found is a    *)
(* user that is not found.                                                 *)

resourceToUserData == <<Parent(Error)>>
resourceToOrgUser(miss) == <<Parent(miss), Find(miss)>>
setOrgUserData == <<SetId>>

resourceVcdOrgUserRead == resourceToOrgUser(Forget) \o setOrgUserData
resourceVcdOrgUserCreate == resourceToUserData \o <<Create>> \o resourceVcdOrgUserRead
resourceVcdOrgUserUpdate ==
    resourceToOrgUser(Error) \o resourceToUserData \o <<Change>> \o resourceVcdOrgUserRead
resourceVcdOrgUserDelete == resourceToOrgUser(Error) \o <<Remove>>
resourceVcdOrgUserImport ==
    <<Parent(Error), Find(Error)>> \o setOrgUserData \o resourceVcdOrgUserRead

resourceVcdOrgUser ==
    [create |-> resourceVcdOrgUserCreate, read |-> resourceVcdOrgUserRead,
     update |-> resourceVcdOrgUserUpdate, delete |-> resourceVcdOrgUserDelete,
     import |-> resourceVcdOrgUserImport]

resourceVcdOrgGroupRead == <<Parent(Error), Find(Forget)>>
resourceVcdOrgGroupCreate == <<Parent(Error), Ask, Create, SetId>> \o resourceVcdOrgGroupRead
resourceVcdOrgGroupUpdate ==
    <<Parent(Error), Find(Error), Ask, Change>> \o resourceVcdOrgGroupRead
resourceVcdOrgGroupDelete == <<Parent(Error), Find(Error), Remove>>
resourceVcdOrgGroupImport ==
    <<Parent(Error), Find(Error), SetId>> \o resourceVcdOrgGroupRead

resourceVcdOrgGroup ==
    [create |-> resourceVcdOrgGroupCreate, read |-> resourceVcdOrgGroupRead,
     update |-> resourceVcdOrgGroupUpdate, delete |-> resourceVcdOrgGroupDelete,
     import |-> resourceVcdOrgGroupImport]
-----------------------------------------------------------------------------
(* Settings of an organisation.  Only Read sets the ID, also in Create; a  *)
(* failed read of the LDAP settings clears it.                             *)

genericVcdOrgSamlRead == <<Parent(Forget), Observe, SetId>>
resourceVcdOrgSamlCreateOrUpdate == <<Parent(Error), Ask, Write>> \o genericVcdOrgSamlRead
resourceVcdOrgSamlDelete == <<Parent(Error), Reset>>
resourceVcdOrgSamlImport == <<Parent(Error), SetId>> \o genericVcdOrgSamlRead

resourceVcdOrgSaml ==
    [create |-> resourceVcdOrgSamlCreateOrUpdate, read |-> genericVcdOrgSamlRead,
     update |-> resourceVcdOrgSamlCreateOrUpdate, delete |-> resourceVcdOrgSamlDelete,
     import |-> resourceVcdOrgSamlImport]

genericVcdOrgLdapRead == <<Parent(Forget), ObserveOr(ForgetAndFail), SetId>>
resourceVcdOrgLdapCreateOrUpdate == <<Parent(Error), Write>> \o genericVcdOrgLdapRead
resourceVcdOrgLdapDelete == <<Parent(Error), Reset>>
resourceVcdOrgLdapImport == <<Parent(Error), SetId>> \o genericVcdOrgLdapRead

resourceVcdOrgLdap ==
    [create |-> resourceVcdOrgLdapCreateOrUpdate, read |-> genericVcdOrgLdapRead,
     update |-> resourceVcdOrgLdapCreateOrUpdate, delete |-> resourceVcdOrgLdapDelete,
     import |-> resourceVcdOrgLdapImport]
-----------------------------------------------------------------------------
(* Roles, global roles and bundles of rights.  The rights, and the tenants *)
(* it is published to, are separate calls; the ID is kept after the last.  *)

getRights == <<Ask>>
getTenants == <<Ask>>

genericRoleRead == <<Parent(Error), Find(Forget), SetId, Ask>>
resourceRoleCreate ==
    <<Parent(Error)>> \o getRights \o <<CreatePart, Change, SetId>> \o genericRoleRead
resourceRoleUpdate ==
    <<Parent(Error), Find(Error), ChangePart>> \o getRights \o <<Change>> \o genericRoleRead
resourceRoleDelete == <<Parent(Error), Find(Error), Remove>>
resourceVcdRoleImport == <<Parent(Error), Find(Error), SetId>> \o genericRoleRead

resourceVcdRole ==
    [create |-> resourceRoleCreate, read |-> genericRoleRead, update |-> resourceRoleUpdate,
     delete |-> resourceRoleDelete, import |-> resourceVcdRoleImport]

genericGlobalRoleRead == <<Find(Forget), SetId, Ask>>
resourceGlobalRoleCreate ==
    getRights \o <<CreatePart, ChangePart>> \o getTenants \o <<Change, SetId>>
    \o genericGlobalRoleRead
resourceGlobalRoleUpdate ==
    <<Find(Error)>> \o getRights \o <<ChangePart, ChangePart>> \o getTenants \o <<Change>>
    \o genericGlobalRoleRead
resourceGlobalRoleDelete == <<Find(Error), Remove>>
resourceVcdGlobalRoleImport == <<Find(Error), SetId>> \o genericGlobalRoleRead

resourceVcdGlobalRole ==
    [create |-> resourceGlobalRoleCreate, read |-> genericGlobalRoleRead,
     update |-> resourceGlobalRoleUpdate, delete |-> resourceGlobalRoleDelete,
     import |-> resourceVcdGlobalRoleImport]

genericRightsBundleRead == <<Find(Forget), SetId, Ask>>
resourceRightsBundleCreate ==
    getRights \o <<CreatePart, ChangePart>> \o getTenants \o <<Change, SetId>>
    \o genericRightsBundleRead
resourceRightsBundleUpdate ==
    <<Find(Error)>> \o getRights \o <<ChangePart, ChangePart>> \o getTenants \o <<Change>>
    \o genericRightsBundleRead
resourceRightsBundleDelete == <<Find(Error), Remove>>
resourceVcdRightsBundleImport == <<Find(Error), SetId>> \o genericRightsBundleRead

resourceVcdRightsBundle ==
    [create |-> resourceRightsBundleCreate, read |-> genericRightsBundleRead,
     update |-> resourceRightsBundleUpdate, delete |-> resourceRightsBundleDelete,
     import |-> resourceVcdRightsBundleImport]
-----------------------------------------------------------------------------
(* API tokens and service accounts.  The secret is handed out once and     *)
(* saved to a file, which may fail.                                        *)

resourceVcdApiTokenRead == <<Find(ForgetAndFail), SetId>>
resourceVcdApiTokenCreate == <<CreatePart, SetId, Change, Ask>> \o resourceVcdApiTokenRead
resourceVcdApiTokenDelete == <<Find(Error), Remove>>
resourceVcdApiTokenImport == <<Ask, Find(Error), SetId>> \o resourceVcdApiTokenRead

resourceVcdApiToken ==
    [create |-> resourceVcdApiTokenCreate, read |-> resourceVcdApiTokenRead, update |-> <<>>,
     delete |-> resourceVcdApiTokenDelete, import |-> resourceVcdApiTokenImport]

updateServiceAccountStatus(grant) == <<ChangePart, grant, Ask>>

genericVcdServiceAccountRead == <<Parent(Error), Find(Forget), SetId>>
resourceVcdServiceAccountCreate ==
    <<Parent(Error), Ask, CreatePart, SetId>> \o updateServiceAccountStatus(Change)
    \o genericVcdServiceAccountRead
resourceVcdServiceAccountUpdate ==
    <<Parent(Error), Find(Error)>> \o updateServiceAccountStatus(ChangePart) \o <<Change>>
    \o genericVcdServiceAccountRead
resourceVcdServiceAccountDelete == <<Parent(Error), Find(Error), Remove>>
resourceVcdServiceAccountImport ==
    <<Parent(Error), Find(Error), SetId>> \o genericVcdServiceAccountRead

resourceVcdServiceAccount ==
    [create |-> resourceVcdServiceAccountCreate, read |-> genericVcdServiceAccountRead,
     update |-> resourceVcdServiceAccountUpdate, delete |-> resourceVcdServiceAccountDelete,
     import |-> resourceVcdServiceAccountImport]
-----------------------------------------------------------------------------
(* Certificates, security tags (whose ID is their name) and plugins of the *)
(* user interface (which are published after they are made).               *)

resourceVcdLibraryCertificateRead == <<Parent(Error), Find(Forget)>>
resourceVcdLibraryCertificateCreate ==
    <<Parent(Error), Create, SetId>> \o resourceVcdLibraryCertificateRead
resourceVcdLibraryCertificateUpdate ==
    <<Parent(Error), Find(Error), Change>> \o resourceVcdLibraryCertificateRead
resourceVcdAlbLibraryCertificateDelete == <<Parent(Error), Find(Error), Remove>>
resourceLibraryCertificateImport ==
    <<Parent(Error), Find(Error), SetId>> \o resourceVcdLibraryCertificateRead

resourceLibraryCertificate ==
    [create |-> resourceVcdLibraryCertificateCreate, read |-> resourceVcdLibraryCertificateRead,
     update |-> resourceVcdLibraryCertificateUpdate,
     delete |-> resourceVcdAlbLibraryCertificateDelete,
     import |-> resourceLibraryCertificateImport]

resourceVcdOpenApiSecurityTagRead == <<Parent(Error), Find(Forget)>>
resourceVcdOpenApiSecurityTagCreateUpdate ==
    <<Parent(Error), Write, SetId>> \o resourceVcdOpenApiSecurityTagRead
resourceVcdOpenApiSecurityTagDelete == <<Parent(Error), Reset, ClearId>>
resourceVcdOpenApiSecurityTagImport ==
    <<Parent(Error), Find(Error), SetId>> \o resourceVcdOpenApiSecurityTagRead

resourceVcdSecurityTag ==
    [create |-> resourceVcdOpenApiSecurityTagCreateUpdate,
     read |-> resourceVcdOpenApiSecurityTagRead,
     update |-> resourceVcdOpenApiSecurityTagCreateUpdate,
     delete |-> resourceVcdOpenApiSecurityTagDelete,
     import |-> resourceVcdOpenApiSecurityTagImport]

getUIPlugin == <<Find(Forget)>>
publishUIPluginToTenants(unpublish) == <<Ask>> \o unpublish \o <<Change>>

genericVcdUIPluginRead == getUIPlugin \o <<Ask, SetId>>
resourceVcdUIPluginCreate ==
    <<CreatePart>> \o publishUIPluginToTenants(<<>>) \o <<SetId>> \o genericVcdUIPluginRead
resourceVcdUIPluginUpdate ==
    getUIPlugin \o <<ChangePart>> \o publishUIPluginToTenants(<<ChangePart>>)
    \o genericVcdUIPluginRead
resourceVcdUIPluginDelete == getUIPlugin \o <<Remove>>
resourceVcdUIPluginImport == <<Find(Error), Ask, SetId>> \o genericVcdUIPluginRead

resourceVcdUIPlugin ==
    [create |-> resourceVcdUIPluginCreate, read |-> genericVcdUIPluginRead,
     update |-> resourceVcdUIPluginUpdate, delete |-> resourceVcdUIPluginDelete,
     import |-> resourceVcdUIPluginImport]
-----------------------------------------------------------------------------
OrgHandlers ==
    [vcd_org |-> resourceOrg,
     vcd_org_user |-> resourceVcdOrgUser,
     vcd_org_group |-> resourceVcdOrgGroup,
     vcd_org_saml |-> resourceVcdOrgSaml,
     vcd_org_ldap |-> resourceVcdOrgLdap,
     vcd_role |-> resourceVcdRole,
     vcd_global_role |-> resourceVcdGlobalRole,
     vcd_rights_bundle |-> resourceVcdRightsBundle,
     vcd_api_token |-> resourceVcdApiToken,
     vcd_service_account |-> resourceVcdServiceAccount,
     vcd_library_certificate |-> resourceLibraryCertificate,
     vcd_security_tag |-> resourceVcdSecurityTag,
     vcd_ui_plugin |-> resourceVcdUIPlugin]
===============================================================================
