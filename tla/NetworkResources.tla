---------------------------- MODULE NetworkResources ----------------------------
(***************************************************************************)
(* The handlers of organisation VDC networks, external networks and IP     *)
(* spaces (vcd/resource_vcd_network_*.go, _nsxt_network_imported.go,       *)
(* _external_network*.go and _ip_space*.go), in the vocabulary of          *)
(* HandlerSteps.  A handler has the name of its Go function.  The user is  *)
(* a system administrator where a handler asks for one.                    *)
(***************************************************************************)
EXTENDS HandlerSteps

-----------------------------------------------------------------------------
(* Networks of an NSX-V VDC (the parent).  Cloud Director answers Create   *)
(* with a task only: the network is looked up by name for its ID.  Read    *)
(* takes every error of the lookup for "not found".  Metadata are written  *)
(* last.                                                                   *)

LOCAL createNetwork == <<CreatePart, Find(Error)>>

\* Look the VDC and the network up; any error of one is an error of both.
getNetwork(outcome) == <<ParentOr(outcome), FindOr(outcome)>>

resourceVcdNetworkDelete == <<Parent(Error), Find(Error), Remove>>

genericVcdNetworkDirectRead ==
    <<Parent(Error)>> \o getNetwork(Forget) \o <<Ask, SetId>> \o <<Ask>>
resourceVcdNetworkDirectCreate ==
    <<Parent(Error), Ask>> \o createNetwork \o <<SetId, Change>> \o genericVcdNetworkDirectRead
resourceVcdNetworkDirectUpdate ==
    getNetwork(Error) \o <<ChangePart, Change>> \o genericVcdNetworkDirectRead
resourceVcdNetworkDirectImport ==
    <<Parent(Error), Find(Error), SetId>> \o genericVcdNetworkDirectRead

resourceVcdNetworkDirect ==
    [create |-> resourceVcdNetworkDirectCreate, read |-> genericVcdNetworkDirectRead,
     update |-> resourceVcdNetworkDirectUpdate, delete |-> resourceVcdNetworkDelete,
     import |-> resourceVcdNetworkDirectImport]

\* Update reads nothing back: it has the network it has written.
genericVcdNetworkIsolatedRead(network) == network \o <<SetId, Ask>>
resourceVcdNetworkIsolatedRead == genericVcdNetworkIsolatedRead(getNetwork(Forget))
resourceVcdNetworkIsolatedCreate ==
    <<Parent(Error)>> \o createNetwork \o <<SetId, Change>> \o resourceVcdNetworkIsolatedRead
resourceVcdNetworkIsolatedUpdate ==
    <<Parent(Error), Find(Error), ChangePart, Change>> \o genericVcdNetworkIsolatedRead(<<>>)
resourceVcdNetworkIsolatedImport ==
    <<Parent(Error), Find(Error), SetId>> \o resourceVcdNetworkIsolatedRead

resourceVcdNetworkIsolated ==
    [create |-> resourceVcdNetworkIsolatedCreate, read |-> resourceVcdNetworkIsolatedRead,
     update |-> resourceVcdNetworkIsolatedUpdate, delete |-> resourceVcdNetworkDelete,
     import |-> resourceVcdNetworkIsolatedImport]

\* The parent of a routed network is its edge gateway; DHCP pools are settings
\* of the gateway and are added before the ID is kept.
genericVcdNetworkRoutedRead == <<Ask, FindOr(Forget), Parent(Error), SetId, Ask>>
resourceVcdNetworkRoutedCreate ==
    lockNamedEdgeGtw \o <<Ask, Parent(Error)>> \o createNetwork
    \o <<ChangePart, SetId, Change>> \o genericVcdNetworkRoutedRead
resourceVcdNetworkRoutedUpdate ==
    lockNamedEdgeGtw \o <<Ask, Find(Error), ChangePart, Parent(Error), ChangePart, Change>>
    \o genericVcdNetworkRoutedRead
resourceVcdNetworkDeleteLocked == lockNamedEdgeGtw \o <<Ask, Find(Error), Remove>>
resourceVcdNetworkRoutedImport ==
    <<Ask, Find(Error), Parent(Error), SetId>> \o genericVcdNetworkRoutedRead

resourceVcdNetworkRouted ==
    [create |-> resourceVcdNetworkRoutedCreate, read |-> genericVcdNetworkRoutedRead,
     update |-> resourceVcdNetworkRoutedUpdate, delete |-> resourceVcdNetworkDeleteLocked,
     import |-> resourceVcdNetworkRoutedImport]
-----------------------------------------------------------------------------
(* Networks of an NSX-T VDC or VDC group (the parent; of a routed one the  *)
(* edge gateway).  Update of a network that is gone clears the ID.  Only   *)
(* networks of a VDC have metadata, which are written last.                *)

resourceVcdNetworkIsolatedV2Read == <<Ask, Find(Forget), SetId, Ask>>
resourceVcdNetworkIsolatedV2Create ==
    lockIfOwnerIsVdcGroup \o <<Ask, CreatePart, SetId, Change>> \o resourceVcdNetworkIsolatedV2Read
resourceVcdNetworkIsolatedV2Update ==
    lockIfOwnerIsVdcGroup \o <<Ask, Find(Forget), Ask, ChangePart, Change>>
    \o resourceVcdNetworkIsolatedV2Read
resourceVcdNetworkIsolatedV2Delete == lockIfOwnerIsVdcGroup \o <<Ask, Find(Error), Remove>>
resourceVcdNetworkIsolatedV2Import ==
    <<Parent(Error), Find(Error), SetId>> \o resourceVcdNetworkIsolatedV2Read

resourceVcdNetworkIsolatedV2 ==
    [create |-> resourceVcdNetworkIsolatedV2Create, read |-> resourceVcdNetworkIsolatedV2Read,
     update |-> resourceVcdNetworkIsolatedV2Update, delete |-> resourceVcdNetworkIsolatedV2Delete,
     import |-> resourceVcdNetworkIsolatedV2Import]

resourceVcdNsxtNetworkImportedRead == <<Ask, Find(Forget), SetId>>
resourceVcdNsxtNetworkImportedCreate ==
    lockIfOwnerIsVdcGroup \o <<Ask, Create, SetId>> \o resourceVcdNsxtNetworkImportedRead
resourceVcdNsxtNetworkImportedUpdate ==
    lockIfOwnerIsVdcGroup \o <<Ask, Find(Forget), Ask, Change>> \o resourceVcdNsxtNetworkImportedRead
resourceVcdNsxtNetworkImportedDelete == lockIfOwnerIsVdcGroup \o <<Ask, Find(Error), Remove>>
resourceVcdNsxtNetworkImportedImport ==
    <<Parent(Error), Find(Error), SetId>> \o resourceVcdNsxtNetworkImportedRead

resourceVcdNsxtNetworkImported ==
    [create |-> resourceVcdNsxtNetworkImportedCreate, read |-> resourceVcdNsxtNetworkImportedRead,
     update |-> resourceVcdNsxtNetworkImportedUpdate, delete |-> resourceVcdNsxtNetworkImportedDelete,
     import |-> resourceVcdNsxtNetworkImportedImport]

resourceVcdNetworkRoutedV2Read == <<Ask, Find(Forget), SetId, Ask>>
resourceVcdNetworkRoutedV2Create ==
    <<Ask>> \o lockParentVdcGroupOrEdgeGateway \o <<Parent(Error), CreatePart, SetId, Change>>
    \o resourceVcdNetworkRoutedV2Read
resourceVcdNetworkRoutedV2Update ==
    <<Ask>> \o lockParentVdcGroupOrEdgeGateway
    \o <<Find(Forget), Parent(Error), ChangePart, Change>> \o resourceVcdNetworkRoutedV2Read
resourceVcdNetworkRoutedV2Delete ==
    <<Ask>> \o lockParentVdcGroupOrEdgeGateway \o <<Find(Error), Remove>>
resourceVcdNetworkRoutedV2Import == <<Ask, Find(Error), SetId>> \o resourceVcdNetworkRoutedV2Read

resourceVcdNetworkRoutedV2 ==
    [create |-> resourceVcdNetworkRoutedV2Create, read |-> resourceVcdNetworkRoutedV2Read,
     update |-> resourceVcdNetworkRoutedV2Update, delete |-> resourceVcdNetworkRoutedV2Delete,
     import |-> resourceVcdNetworkRoutedV2Import]
-----------------------------------------------------------------------------
(* External networks.  The older type has no Update; its Create keeps the  *)
(* ID in Read only.                                                        *)

genericVcdExternalNetworkRead == <<Find(Forget), Ask, SetId>>
resourceVcdExternalNetworkCreate == <<Ask, Create>> \o genericVcdExternalNetworkRead
resourceVcdExternalNetworkDelete == <<Find(Error), Remove>>
resourceVcdExternalNetworkImport == <<Find(Error), Ask, SetId>> \o genericVcdExternalNetworkRead

resourceVcdExternalNetwork ==
    [create |-> resourceVcdExternalNetworkCreate, read |-> genericVcdExternalNetworkRead,
     update |-> <<>>, delete |-> resourceVcdExternalNetworkDelete,
     import |-> resourceVcdExternalNetworkImport]

resourceVcdExternalNetworkV2Read == <<Find(Forget)>>
resourceVcdExternalNetworkV2Create == <<Ask, Create, SetId>> \o resourceVcdExternalNetworkV2Read
resourceVcdExternalNetworkV2Update == <<Find(Error), Ask, Change>> \o resourceVcdExternalNetworkV2Read
resourceVcdExternalNetworkV2Delete == <<Find(Error), Remove>>
resourceVcdExternalNetworkV2Import == <<Find(Error), SetId>> \o resourceVcdExternalNetworkV2Read

resourceVcdExternalNetworkV2 ==
    [create |-> resourceVcdExternalNetworkV2Create, read |-> resourceVcdExternalNetworkV2Read,
     update |-> resourceVcdExternalNetworkV2Update, delete |-> resourceVcdExternalNetworkV2Delete,
     import |-> resourceVcdExternalNetworkV2Import]
-----------------------------------------------------------------------------
(* IP spaces, and their uplinks in an external network (the parent).  A    *)
(* change starts tasks of Cloud Director that are waited for.              *)

LOCAL WaitForRouteAdvertisementTasks == <<Ask>>

resourceVcdIpSpaceRead == <<Find(Forget)>>
resourceVcdIpSpaceCreate == <<Create, SetId>> \o resourceVcdIpSpaceRead
resourceVcdIpSpaceUpdate ==
    <<Find(Error), Change>> \o WaitForRouteAdvertisementTasks \o resourceVcdIpSpaceRead
resourceVcdIpSpaceDelete == <<Find(Error), Remove>> \o WaitForRouteAdvertisementTasks
resourceVcdIpSpaceImport == <<Ask, Find(Error), SetId>> \o resourceVcdIpSpaceRead

resourceVcdIpSpace ==
    [create |-> resourceVcdIpSpaceCreate, read |-> resourceVcdIpSpaceRead,
     update |-> resourceVcdIpSpaceUpdate, delete |-> resourceVcdIpSpaceDelete,
     import |-> resourceVcdIpSpaceImport]

\* A lookup that fails is followed by one of the external network, which finds
\* out whether the uplink has gone with it: Cloud Director's "not found" here.
resourceVcdIpSpaceUplinkRead == <<Find(Forget)>>
resourceVcdIpSpaceUplinkCreate ==
    lockParentExternalNetwork \o <<Create, SetId>> \o WaitForRouteAdvertisementTasks
    \o resourceVcdIpSpaceUplinkRead
resourceVcdIpSpaceUplinkUpdate ==
    lockParentExternalNetwork \o <<Find(Error), Change>> \o WaitForRouteAdvertisementTasks
    \o resourceVcdIpSpaceUplinkRead
resourceVcdIpSpaceUplinkDelete ==
    lockParentExternalNetwork \o <<Find(Error), Remove>> \o WaitForRouteAdvertisementTasks
resourceVcdIpSpaceUplinkImport == <<Parent(Error), Find(Error), SetId>> \o resourceVcdIpSpaceUplinkRead

resourceVcdIpSpaceUplink ==
    [create |-> resourceVcdIpSpaceUplinkCreate, read |-> resourceVcdIpSpaceUplinkRead,
     update |-> resourceVcdIpSpaceUplinkUpdate, delete |-> resourceVcdIpSpaceUplinkDelete,
     import |-> resourceVcdIpSpaceUplinkImport]

(* Addresses and quotas of an IP space (the parent).  An address for       *)
(* manual use is allocated first and marked as used then.                  *)

resourceVcdIpAllocationRead == <<Ask, Find(Error)>>
resourceVcdIpAllocationCreate ==
    <<Ask, Parent(Error), CreatePart, SetId, Find(Error), Change>> \o resourceVcdIpAllocationRead
resourceVcdIpAllocationUpdate == <<Ask, Find(Error), Change>> \o resourceVcdIpAllocationRead
resourceVcdIpAllocationDelete == <<Ask, Find(Error), Remove>>
resourceVcdIpAllocationImport == ImportFound \o resourceVcdIpAllocationRead

resourceVcdIpAllocation ==
    [create |-> resourceVcdIpAllocationCreate, read |-> resourceVcdIpAllocationRead,
     update |-> resourceVcdIpAllocationUpdate, delete |-> resourceVcdIpAllocationDelete,
     import |-> resourceVcdIpAllocationImport]

resourceVcdIpSpaceCustomQuotaRead == <<Parent(Error), Observe>>
resourceVcdIpSpaceCustomQuotaCreateUpdate ==
    <<Parent(Error), Ask, Write, SetId>> \o resourceVcdIpSpaceCustomQuotaRead
resourceVcdIpSpaceCustomQuotaDelete == <<Parent(Error), Ask, Reset>>
resourceVcdIpSpaceCustomQuotaImport ==
    <<Ask, Parent(Error), Ask, SetId>> \o resourceVcdIpSpaceCustomQuotaRead

resourceVcdIpSpaceCustomQuota ==
    [create |-> resourceVcdIpSpaceCustomQuotaCreateUpdate, read |-> resourceVcdIpSpaceCustomQuotaRead,
     update |-> resourceVcdIpSpaceCustomQuotaCreateUpdate, delete |-> resourceVcdIpSpaceCustomQuotaDelete,
     import |-> resourceVcdIpSpaceCustomQuotaImport]
-----------------------------------------------------------------------------
NetworkHandlers ==
    [vcd_network_direct |-> resourceVcdNetworkDirect,
     vcd_network_isolated |-> resourceVcdNetworkIsolated,
     vcd_network_routed |-> resourceVcdNetworkRouted,
     vcd_network_isolated_v2 |-> resourceVcdNetworkIsolatedV2,
     vcd_network_routed_v2 |-> resourceVcdNetworkRoutedV2,
     vcd_nsxt_network_imported |-> resourceVcdNsxtNetworkImported,
     vcd_external_network |-> resourceVcdExternalNetwork,
     vcd_external_network_v2 |-> resourceVcdExternalNetworkV2,
     vcd_ip_space |-> resourceVcdIpSpace,
     vcd_ip_space_uplink |-> resourceVcdIpSpaceUplink,
     vcd_ip_space_ip_allocation |-> resourceVcdIpAllocation,
     vcd_ip_space_custom_quota |-> resourceVcdIpSpaceCustomQuota]
===============================================================================
