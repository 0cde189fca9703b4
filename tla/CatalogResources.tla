---------------------------- MODULE CatalogResources ----------------------------
(***************************************************************************)
(* The handlers of catalogs and what is in them                            *)
(* (vcd/resource_vcd_*catalog*.go, catalogitem.go), in the vocabulary of   *)
(* HandlerSteps.  A handler has the name of its Go function.  The lock of  *)
(* the list of ignored metadata (metadata.go) is abstracted.               *)
(***************************************************************************)
EXTENDS HandlerSteps

-----------------------------------------------------------------------------
(* Catalogs (their parent is the organisation) and subscribed catalogs.    *)
(* Delete takes any failure of the lookup for "already gone"; it is shared *)
(* by both, and so is most of Update.                                      *)

updatePublishToExternalOrgSettings == <<ChangePart>>
waitForMetadataReadiness == <<Ask>>
setCatalogData == <<Ask>>

resourceVcdCatalogRead ==
    <<Parent(Error), Find(Forget), Ask>> \o setCatalogData \o <<SetId, Ask>>
genericResourceVcdCatalogUpdate(more, read) ==
    <<Parent(Error), FindOr(ForgetAndFail), Ask, ChangePart>> \o more \o read
resourceVcdCatalogCreate ==
    <<Parent(Error), Ask, CreatePart, SetId>> \o updatePublishToExternalOrgSettings
    \o waitForMetadataReadiness \o <<Change>> \o resourceVcdCatalogRead
resourceVcdCatalogUpdate ==
    genericResourceVcdCatalogUpdate(updatePublishToExternalOrgSettings \o <<Change>>,
                                    resourceVcdCatalogRead)
resourceVcdCatalogDelete == <<Parent(Error), FindOr(Forget), Remove>>
resourceVcdCatalogImport == <<Parent(Error), Find(Error), SetId>> \o resourceVcdCatalogRead

resourceVcdCatalog ==
    [create |-> resourceVcdCatalogCreate, read |-> resourceVcdCatalogRead,
     update |-> resourceVcdCatalogUpdate, delete |-> resourceVcdCatalogDelete,
     import |-> resourceVcdCatalogImport]

runSubscribedCatalogSyncOperations == <<Ask>>
skimTaskCollection == <<Ask>>

resourceVcdSubscribedCatalogRead ==
    <<Parent(Error), Find(Forget), Ask>> \o setCatalogData
    \o runSubscribedCatalogSyncOperations \o skimTaskCollection \o <<SetId>>
resourceVcdSubscribedCatalogCreate ==
    <<Parent(Error), Ask, Create, SetId>> \o resourceVcdSubscribedCatalogRead
resourceVcdSubscribedCatalogUpdate ==
    genericResourceVcdCatalogUpdate(<<Change>> \o runSubscribedCatalogSyncOperations,
                                    resourceVcdSubscribedCatalogRead)
resourceVcdSubscribedCatalogDelete == resourceVcdCatalogDelete
resourceVcdSubscribedCatalogImport ==
    <<Parent(Error), Find(Error), SetId>> \o resourceVcdSubscribedCatalogRead

resourceVcdSubscribedCatalog ==
    [create |-> resourceVcdSubscribedCatalogCreate, read |-> resourceVcdSubscribedCatalogRead,
     update |-> resourceVcdSubscribedCatalogUpdate,
     delete |-> resourceVcdSubscribedCatalogDelete,
     import |-> resourceVcdSubscribedCatalogImport]
-----------------------------------------------------------------------------
(* Who may use a catalog (the parent).  Delete does not return the errors  *)
(* of its lookups, as for VDCs.                                            *)

resourceVcdCatalogAccessControlRead == <<Ask, Parent(Forget), Observe>>
resourceVcdCatalogAccessControlCreateUpdate ==
    <<Ask, Parent(Error), Write, SetId>> \o resourceVcdCatalogAccessControlRead
resourceVcdCatalogAccessControlDelete == <<AskOr(Panic), ParentOr(Panic), Reset, ClearId>>
resourceVcdCatalogAccessControlImport ==
    <<Ask, Parent(Error), SetId>> \o resourceVcdCatalogAccessControlRead

resourceVcdCatalogAccessControl ==
    [create |-> resourceVcdCatalogAccessControlCreateUpdate,
     read |-> resourceVcdCatalogAccessControlRead,
     update |-> resourceVcdCatalogAccessControlCreateUpdate,
     delete |-> resourceVcdCatalogAccessControlDelete,
     import |-> resourceVcdCatalogAccessControlImport]
-----------------------------------------------------------------------------
(* Catalog items (the parent is the catalog).  findCatalogItem answers nil *)
(* without an error for an item that is gone: Read and Update say so, the  *)
(* handler of the metadata dereferences it.  Create drops an error of the  *)
(* metadata; what is left of that handler then makes no difference, and it *)
(* goes on here.                                                           *)

deleteCatalogItem == <<Parent(Error), Find(Error), Remove>>
findCatalogItem(fail, miss) == <<ParentElse(fail, Error), FindElse(fail, miss), SetId>>
createOrUpdateCatalogItemMetadata(fail) ==
    findCatalogItem(fail, Panic) \o <<AskOr(fail), ChangeOr(fail)>>
uploadOvaFromFilePath == <<CreatePart>>

genericVcdCatalogItemRead == findCatalogItem(Error, ForgetAndFail) \o <<Ask>>
resourceVcdCatalogItemCreate ==
    <<Parent(Error)>> \o uploadOvaFromFilePath \o <<Find(Error), SetId>>
    \o createOrUpdateCatalogItemMetadata(Ignore) \o genericVcdCatalogItemRead
resourceVcdCatalogItemUpdate ==
    findCatalogItem(Error, ForgetAndFail) \o <<Ask, ChangePart>>
    \o createOrUpdateCatalogItemMetadata(Error)
resourceVcdCatalogItemDelete == deleteCatalogItem
resourceVcdCatalogItemImport ==
    <<Parent(Error), Find(Error), SetId>> \o genericVcdCatalogItemRead

resourceVcdCatalogItem ==
    [create |-> resourceVcdCatalogItemCreate, read |-> genericVcdCatalogItemRead,
     update |-> resourceVcdCatalogItemUpdate, delete |-> resourceVcdCatalogItemDelete,
     import |-> resourceVcdCatalogItemImport]
-----------------------------------------------------------------------------
(* vApp templates.  Read and Update dereference the nil that               *)
(* findVAppTemplate answers for a template that is gone.                   *)

findVAppTemplate == <<Parent(Error), FindElse(Error, Panic), SetId>>

genericVcdCatalogVappTemplateRead == findVAppTemplate \o <<Ask, SetId, Ask>>
resourceVcdCatalogVappTemplateCreate ==
    <<Parent(Error)>> \o uploadOvaFromFilePath \o <<Find(Error), Change, SetId>>
    \o genericVcdCatalogVappTemplateRead
resourceVcdCatalogVappTemplateUpdate == findVAppTemplate \o <<ChangePart, Change>>
resourceVcdCatalogVappTemplateDelete == <<Parent(Error), Find(Error), Remove>>
resourceVcdCatalogVappTemplateImport ==
    <<Parent(Error), Find(Error), SetId>> \o genericVcdCatalogVappTemplateRead

resourceVcdCatalogVappTemplate ==
    [create |-> resourceVcdCatalogVappTemplateCreate,
     read |-> genericVcdCatalogVappTemplateRead,
     update |-> resourceVcdCatalogVappTemplateUpdate,
     delete |-> resourceVcdCatalogVappTemplateDelete,
     import |-> resourceVcdCatalogVappTemplateImport]
-----------------------------------------------------------------------------
(* Media.  Only Read sets the ID, also in Create.                          *)

createOrUpdateMediaItemMetadata == <<Parent(Error), Find(Error), Change>>

genericVcdMediaRead == <<Parent(Error), Find(Forget), SetId, Ask>>
resourceVcdMediaCreate ==
    <<Parent(Error), CreatePart, Ask>> \o createOrUpdateMediaItemMetadata
    \o genericVcdMediaRead
resourceVcdMediaUpdate == createOrUpdateMediaItemMetadata \o genericVcdMediaRead
resourceVcdMediaDelete == deleteCatalogItem
resourceVcdCatalogMediaImport == <<Parent(Error), Find(Error), SetId>> \o genericVcdMediaRead

resourceVcdCatalogMedia ==
    [create |-> resourceVcdMediaCreate, read |-> genericVcdMediaRead,
     update |-> resourceVcdMediaUpdate, delete |-> resourceVcdMediaDelete,
     import |-> resourceVcdCatalogMediaImport]
-----------------------------------------------------------------------------
CatalogHandlers ==
    [vcd_catalog |-> resourceVcdCatalog,
     vcd_subscribed_catalog |-> resourceVcdSubscribedCatalog,
     vcd_catalog_access_control |-> resourceVcdCatalogAccessControl,
     vcd_catalog_item |-> resourceVcdCatalogItem,
     vcd_catalog_vapp_template |-> resourceVcdCatalogVappTemplate,
     vcd_catalog_media |-> resourceVcdCatalogMedia]
===============================================================================
