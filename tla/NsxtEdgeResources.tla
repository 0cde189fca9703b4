--------------------------- MODULE NsxtEdgeResources ---------------------------
(***************************************************************************)
(* The handlers of the resources of an NSX-T edge gateway and of a VDC     *)
(* group (vcd/resource_vcd_nsxt_*.go), in the vocabulary of HandlerSteps.  *)
(* A handler has the name of its Go function.  The checks that the caller  *)
(* is a system administrator and the validation of arguments are left out: *)
(* they come before the first call and do not depend on what Terraform or  *)
(* Cloud Director have.                                                    *)
(*                                                                         *)
(* The resources that open-code "look the owner of the edge gateway up,    *)
(* then lock the VDC group or the gateway" are written with                *)
(* lockParentVdcGroupOrEdgeGateway, which does the same.                   *)
(***************************************************************************)
EXTENDS HandlerSteps

LOCAL lockOwner == lockParentVdcGroupOrEdgeGateway

-----------------------------------------------------------------------------
(* NAT rule *)

resourceVcdNsxtNatRuleRead == <<Parent(Error), Find(ForgetAndFail)>>
resourceVcdNsxtNatRuleCreate ==
    lockOwner \o <<Parent(Error), Create, SetId>> \o resourceVcdNsxtNatRuleRead
resourceVcdNsxtNatRuleUpdate ==
    lockOwner \o <<Parent(Error), Find(Error), Change>> \o resourceVcdNsxtNatRuleRead
resourceVcdNsxtNatRuleDelete ==
    lockOwner \o <<Parent(Error), Find(Error), Remove, ClearId>>
resourceVcdNsxtNatRuleImport == ImportFound \o resourceVcdNsxtNatRuleRead

resourceVcdNsxtNatRule ==
    [create |-> resourceVcdNsxtNatRuleCreate, read |-> resourceVcdNsxtNatRuleRead,
     update |-> resourceVcdNsxtNatRuleUpdate, delete |-> resourceVcdNsxtNatRuleDelete,
     import |-> resourceVcdNsxtNatRuleImport]
-----------------------------------------------------------------------------
(* Firewall of an edge gateway *)

resourceVcdNsxtFirewallRead == <<Parent(Forget), Observe>>
resourceVcdNsxtFirewallCreateUpdate ==
    lockOwner \o <<Parent(Error), Write, SetId>> \o resourceVcdNsxtFirewallRead
resourceVcdNsxtFirewallDelete == lockOwner \o <<Parent(Error), Ask, Reset, ClearId>>
resourceVcdNsxtFirewallImport == ImportSettings \o resourceVcdNsxtFirewallRead

resourceVcdNsxtFirewall ==
    [create |-> resourceVcdNsxtFirewallCreateUpdate, read |-> resourceVcdNsxtFirewallRead,
     update |-> resourceVcdNsxtFirewallCreateUpdate, delete |-> resourceVcdNsxtFirewallDelete,
     import |-> resourceVcdNsxtFirewallImport]
-----------------------------------------------------------------------------
(* IP set and security groups.  An object of a VDC group is looked up in   *)
(* the group, which is asked for first.  Create and Update of a security   *)
(* group drop the error of the lookup of the owner.                        *)

resourceVcdNsxtIpSetRead == <<Ask, Parent(Forget), Ask, Find(Forget)>>

\* Mutant of resourceVcdNsxtIpSetCreate: the ID is kept after the read-back.
resourceVcdNsxtIpSetCreate_LateId == lockOwner \o <<Create>> \o resourceVcdNsxtIpSetRead \o <<SetId>>

resourceVcdNsxtIpSetCreate == lockOwner \o <<Create, SetId>> \o resourceVcdNsxtIpSetRead

\* Mutant of resourceVcdNsxtIpSetUpdate: the error of the update is dropped.
resourceVcdNsxtIpSetUpdate_DropsError ==
    lockOwner \o <<Find(Error), [Change EXCEPT !.fail = Ignore]>> \o resourceVcdNsxtIpSetRead

resourceVcdNsxtIpSetUpdate == lockOwner \o <<Find(Error), Change>> \o resourceVcdNsxtIpSetRead

\* Mutant of resourceVcdNsxtIpSetDelete: looks the IP set up again to see that it is gone.
resourceVcdNsxtIpSetDelete_Confirms ==
    lockOwner \o <<Find(Error), Remove, Find(Error), ClearId>>

resourceVcdNsxtIpSetDelete == lockOwner \o <<Find(Error), Remove, ClearId>>
resourceVcdNsxtIpSetImport == ImportFound \o resourceVcdNsxtIpSetRead

resourceVcdNsxtIpSet ==
    [create |-> resourceVcdNsxtIpSetCreate, read |-> resourceVcdNsxtIpSetRead,
     update |-> resourceVcdNsxtIpSetUpdate, delete |-> resourceVcdNsxtIpSetDelete,
     import |-> resourceVcdNsxtIpSetImport]

resourceVcdSecurityGroupRead == <<Ask, Parent(Forget), Ask, Find(Forget), Ask>>
resourceVcdSecurityGroupCreate(owner, refused) ==
    <<Parent(Error), Ask, Lock("owner", UnlockFixed)>> \o owner
    \o <<[Create EXCEPT !.fail = refused], SetId>> \o resourceVcdSecurityGroupRead
resourceVcdSecurityGroupUpdate(owner, refused) ==
    <<Parent(Error), Ask, Lock("owner", UnlockFixed)>> \o owner
    \o <<Find(Error), [Change EXCEPT !.fail = refused]>> \o resourceVcdSecurityGroupRead
resourceVcdSecurityGroupDelete == lockOwner \o <<Find(Error), Remove, ClearId>>
resourceVcdSecurityGroupImport == ImportFound \o resourceVcdSecurityGroupRead

\* Create and Update look the owner up and drop the error.  They use the owner to
\* word the error of a group that is refused for its members, and without one panic.
resourceVcdSecurityGroup(owner, refused) ==
    [create |-> resourceVcdSecurityGroupCreate(owner, refused),
     read |-> resourceVcdSecurityGroupRead,
     update |-> resourceVcdSecurityGroupUpdate(owner, refused),
     delete |-> resourceVcdSecurityGroupDelete, import |-> resourceVcdSecurityGroupImport]
resourceVcdSecurityGroupWithOwner == resourceVcdSecurityGroup(<<AskOr(Ignore)>>, Error)
resourceVcdSecurityGroupWithoutOwner == resourceVcdSecurityGroup(<<>>, Panic)

resourceVcdDynamicSecurityGroupRead == <<Ask, Parent(Error), Find(Forget), Ask>>
resourceVcdDynamicSecurityGroupCreate ==
    lockParentVdcGroup \o <<Ask, Parent(Error), Create, SetId>>
    \o resourceVcdDynamicSecurityGroupRead
resourceVcdDynamicSecurityGroupUpdate ==
    lockParentVdcGroup \o <<Ask, Parent(Error), Find(Error), Change>>
    \o resourceVcdDynamicSecurityGroupRead
resourceVcdDynamicSecurityGroupDelete == <<Ask, Parent(Error), Find(Error), Remove, ClearId>>
resourceVcdDynamicSecurityGroupImport == ImportFound \o resourceVcdDynamicSecurityGroupRead

resourceVcdDynamicSecurityGroup ==
    [create |-> resourceVcdDynamicSecurityGroupCreate, read |-> resourceVcdDynamicSecurityGroupRead,
     update |-> resourceVcdDynamicSecurityGroupUpdate, delete |-> resourceVcdDynamicSecurityGroupDelete,
     import |-> resourceVcdDynamicSecurityGroupImport]
-----------------------------------------------------------------------------
(* Application port profile: the import of a profile of the provider takes *)
(* the first element of a list that may be empty.                          *)

resourceVcdNsxtAppPortProfileRead == <<Ask, Find(Forget)>>
resourceVcdNsxtAppPortProfileCreate ==
    <<Ask, Create, SetId>> \o resourceVcdNsxtAppPortProfileRead
resourceVcdNsxtAppPortProfileUpdate ==
    <<Ask, Find(Error), Ask, Change>> \o resourceVcdNsxtAppPortProfileRead
resourceVcdNsxtAppPortProfileDelete == <<Ask, Find(Error), Remove, ClearId>>
resourceVcdNsxtAppPortProfileImport(noneFound) ==
    <<Ask, Find(noneFound), SetId>> \o resourceVcdNsxtAppPortProfileRead

resourceVcdNsxtAppPortProfile(noneFound) ==
    [create |-> resourceVcdNsxtAppPortProfileCreate, read |-> resourceVcdNsxtAppPortProfileRead,
     update |-> resourceVcdNsxtAppPortProfileUpdate, delete |-> resourceVcdNsxtAppPortProfileDelete,
     import |-> resourceVcdNsxtAppPortProfileImport(noneFound)]
-----------------------------------------------------------------------------
(* VPN tunnels.  With a customised security profile the IPsec tunnel takes *)
(* two calls; its Update builds the error of a failed lookup, drops it and *)
(* uses what it has not got.  An L2 tunnel is emptied before it is deleted. *)

resourceVcdNsxtIpSecVpnTunnelRead == <<Parent(Error), Find(ForgetAndFail), Ask>>
resourceVcdNsxtIpSecVpnTunnelCreate ==
    lockOwner \o <<Parent(Error), CreatePart, SetId, Change>>
    \o resourceVcdNsxtIpSecVpnTunnelRead
resourceVcdNsxtIpSecVpnTunnelUpdate ==
    lockOwner \o <<Parent(Error), FindOr(Panic), ChangePart, Change>>
    \o resourceVcdNsxtIpSecVpnTunnelRead
resourceVcdNsxtIpSecVpnTunnelDelete ==
    lockOwner \o <<Parent(Error), Find(Error), Remove, ClearId>>
resourceVcdNsxtIpSecVpnTunnelImport == ImportFound \o resourceVcdNsxtIpSecVpnTunnelRead

resourceVcdNsxtIpSecVpnTunnel ==
    [create |-> resourceVcdNsxtIpSecVpnTunnelCreate, read |-> resourceVcdNsxtIpSecVpnTunnelRead,
     update |-> resourceVcdNsxtIpSecVpnTunnelUpdate, delete |-> resourceVcdNsxtIpSecVpnTunnelDelete,
     import |-> resourceVcdNsxtIpSecVpnTunnelImport]

genericNsxtEdgegatewayL2VpnTunnelRead == <<Parent(Error), FindUnchecked, SetId>>
resourceVcdNsxtEdgegatewayL2VpnTunnelCreate ==
    lockOwner \o <<Parent(Error), Create, SetId>> \o genericNsxtEdgegatewayL2VpnTunnelRead
resourceVcdNsxtEdgegatewayL2VpnTunnelUpdate ==
    <<Parent(Error), Find(Error), Change>> \o genericNsxtEdgegatewayL2VpnTunnelRead
resourceVcdNsxtEdgegatewayL2VpnTunnelDestroy ==
    <<Parent(Error), Find(Error), ChangePart, Remove>>
resourceVcdNsxtEdgegatewayL2VpnTunnelImport ==
    ImportFound \o genericNsxtEdgegatewayL2VpnTunnelRead

resourceVcdNsxtEdgegatewayL2VpnTunnel ==
    [create |-> resourceVcdNsxtEdgegatewayL2VpnTunnelCreate,
     read |-> genericNsxtEdgegatewayL2VpnTunnelRead,
     update |-> resourceVcdNsxtEdgegatewayL2VpnTunnelUpdate,
     delete |-> resourceVcdNsxtEdgegatewayL2VpnTunnelDestroy,
     import |-> resourceVcdNsxtEdgegatewayL2VpnTunnelImport]
-----------------------------------------------------------------------------
(* BGP: neighbours and prefix lists, and the configuration of the gateway  *)

resourceVcdEdgeBgpNeighborRead == <<Parent(Forget), Find(Error)>>
resourceVcdEdgeBgpNeighborCreate ==
    lockOwner \o <<Parent(Error), Create, SetId>>
    \o resourceVcdEdgeBgpNeighborRead
resourceVcdEdgeBgpNeighborUpdate ==
    lockOwner \o <<Parent(Error), Find(Error), Change>>
    \o resourceVcdEdgeBgpNeighborRead
resourceVcdEdgeBgpNeighborDelete == lockOwner \o <<Parent(Error), Find(Error), Remove>>
resourceVcdEdgeBgpNeighborImport == ImportFound \o resourceVcdEdgeBgpNeighborRead

resourceVcdEdgeBgpNeighbor ==
    [create |-> resourceVcdEdgeBgpNeighborCreate,
     read |-> resourceVcdEdgeBgpNeighborRead,
     update |-> resourceVcdEdgeBgpNeighborUpdate,
     delete |-> resourceVcdEdgeBgpNeighborDelete,
     import |-> resourceVcdEdgeBgpNeighborImport]

resourceVcdEdgeBgpIpPrefixListRead == <<Parent(Forget), Find(Error)>>
resourceVcdEdgeBgpIpPrefixListCreate ==
    lockOwner \o <<Parent(Error), Create, SetId>>
    \o resourceVcdEdgeBgpIpPrefixListRead
resourceVcdEdgeBgpIpPrefixListUpdate ==
    lockOwner \o <<Parent(Error), Find(Error), Change>>
    \o resourceVcdEdgeBgpIpPrefixListRead
resourceVcdEdgeBgpIpPrefixListDelete ==
    lockOwner \o <<Parent(Error), Find(Error), Remove>>
resourceVcdEdgeBgpIpPrefixListImport ==
    ImportFound
    \o resourceVcdEdgeBgpIpPrefixListRead

resourceVcdEdgeBgpIpPrefixList ==
    [create |-> resourceVcdEdgeBgpIpPrefixListCreate,
     read |-> resourceVcdEdgeBgpIpPrefixListRead,
     update |-> resourceVcdEdgeBgpIpPrefixListUpdate,
     delete |-> resourceVcdEdgeBgpIpPrefixListDelete,
     import |-> resourceVcdEdgeBgpIpPrefixListImport]

resourceVcdEdgeBgpConfigRead == <<Parent(Forget), Observe>>
resourceVcdEdgeBgpConfigCreateUpdate ==
    lockOwner \o <<Parent(Error), Ask, Write, SetId>>
    \o resourceVcdEdgeBgpConfigRead
resourceVcdEdgeBgpConfigDelete == lockOwner \o <<Parent(Error), Reset>>
resourceVcdEdgeBgpConfigImport == ImportSettings \o resourceVcdEdgeBgpConfigRead

resourceVcdEdgeBgpConfig ==
    [create |-> resourceVcdEdgeBgpConfigCreateUpdate,
     read |-> resourceVcdEdgeBgpConfigRead,
     update |-> resourceVcdEdgeBgpConfigCreateUpdate,
     delete |-> resourceVcdEdgeBgpConfigDelete,
     import |-> resourceVcdEdgeBgpConfigImport]

-----------------------------------------------------------------------------
(* Routing: static routes and route advertisement                          *)

resourceVcdNsxtEdgeGatewayStaticRouteRead == <<Parent(ForgetAndFail), Find(Error)>>
resourceVcdNsxtEdgeGatewayStaticRouteCreate ==
    lockOwner \o <<Parent(Error), Create, SetId>>
    \o resourceVcdNsxtEdgeGatewayStaticRouteRead
resourceVcdNsxtEdgeGatewayStaticRouteUpdate ==
    lockOwner \o <<Parent(Error), Find(Error), Change>>
    \o resourceVcdNsxtEdgeGatewayStaticRouteRead
resourceVcdNsxtEdgeGatewayStaticRouteDelete ==
    lockOwner \o <<Parent(Error), Find(Error), Remove>>
resourceVcdNsxtEdgeGatewayStaticRouteImport ==
    ImportFound
    \o resourceVcdNsxtEdgeGatewayStaticRouteRead

resourceVcdNsxtEdgeGatewayStaticRoute ==
    [create |-> resourceVcdNsxtEdgeGatewayStaticRouteCreate,
     read |-> resourceVcdNsxtEdgeGatewayStaticRouteRead,
     update |-> resourceVcdNsxtEdgeGatewayStaticRouteUpdate,
     delete |-> resourceVcdNsxtEdgeGatewayStaticRouteDelete,
     import |-> resourceVcdNsxtEdgeGatewayStaticRouteImport]

resourceVcdNsxtRouteAdvertisementRead == <<Ask, Parent(Forget), Observe>>
resourceVcdNsxtRouteAdvertisementCreateUpdate ==
    lockOwner \o <<Parent(Error), Write, SetId>>
    \o resourceVcdNsxtRouteAdvertisementRead
resourceVcdNsxtRouteAdvertisementDelete ==
    lockOwner \o <<Ask, Parent(Error), Reset, ClearId>>
resourceVcdNsxtRouteAdvertisementImport ==
    ImportSettings
    \o resourceVcdNsxtRouteAdvertisementRead

resourceVcdNsxtRouteAdvertisement ==
    [create |-> resourceVcdNsxtRouteAdvertisementCreateUpdate,
     read |-> resourceVcdNsxtRouteAdvertisementRead,
     update |-> resourceVcdNsxtRouteAdvertisementCreateUpdate,
     delete |-> resourceVcdNsxtRouteAdvertisementDelete,
     import |-> resourceVcdNsxtRouteAdvertisementImport]

-----------------------------------------------------------------------------
(* Settings of the gateway: DHCP forwarding, DHCPv6, rate limiting         *)

genericVcdNsxtEdgegatewayDhcpForwardingRead == <<Parent(Forget), Observe, SetId>>
resourceVcdNsxtEdgegatewayDhcpForwardingCreateUpdate ==
    lockOwner \o <<Parent(Error), Write, SetId>>
    \o genericVcdNsxtEdgegatewayDhcpForwardingRead
resourceVcdNsxtEdgegatewayDhcpForwardingDelete == lockOwner \o <<Parent(Error), Reset>>
resourceVcdNsxtEdgegatewayDhcpForwardingImport ==
    ImportSettings
    \o genericVcdNsxtEdgegatewayDhcpForwardingRead

resourceVcdNsxtEdgegatewayDhcpForwarding ==
    [create |-> resourceVcdNsxtEdgegatewayDhcpForwardingCreateUpdate,
     read |-> genericVcdNsxtEdgegatewayDhcpForwardingRead,
     update |-> resourceVcdNsxtEdgegatewayDhcpForwardingCreateUpdate,
     delete |-> resourceVcdNsxtEdgegatewayDhcpForwardingDelete,
     import |-> resourceVcdNsxtEdgegatewayDhcpForwardingImport]

resourceVcdNsxtEdgegatewayDhcpV6Read == <<Parent(Forget), Observe>>
resourceVcdNsxtEdgegatewayDhcpV6CreateUpdate ==
    lockOwner \o <<Parent(Error), Write, SetId>>
    \o resourceVcdNsxtEdgegatewayDhcpV6Read
resourceVcdNsxtEdgegatewayDhcpV6Delete == lockOwner \o <<Parent(Error), Reset>>
resourceVcdNsxtEdgegatewayDhcpV6Import ==
    ImportSettings
    \o resourceVcdNsxtEdgegatewayDhcpV6Read

resourceVcdNsxtEdgegatewayDhcpV6 ==
    [create |-> resourceVcdNsxtEdgegatewayDhcpV6CreateUpdate,
     read |-> resourceVcdNsxtEdgegatewayDhcpV6Read,
     update |-> resourceVcdNsxtEdgegatewayDhcpV6CreateUpdate,
     delete |-> resourceVcdNsxtEdgegatewayDhcpV6Delete,
     import |-> resourceVcdNsxtEdgegatewayDhcpV6Import]

resourceVcdNsxtEdgegatewayRateLimitingRead == <<Parent(Forget), Observe>>
resourceVcdNsxtEdgegatewayRateLimitingCreateUpdate ==
    lockOwner \o <<Parent(Error), Write, SetId>>
    \o resourceVcdNsxtEdgegatewayRateLimitingRead
resourceVcdNsxtEdgegatewayRateLimitingDelete == lockOwner \o <<Parent(Error), Reset>>
resourceVcdNsxtEdgegatewayRateLimitingImport ==
    ImportSettings
    \o resourceVcdNsxtEdgegatewayRateLimitingRead

resourceVcdNsxtEdgegatewayRateLimiting ==
    [create |-> resourceVcdNsxtEdgegatewayRateLimitingCreateUpdate,
     read |-> resourceVcdNsxtEdgegatewayRateLimitingRead,
     update |-> resourceVcdNsxtEdgegatewayRateLimitingCreateUpdate,
     delete |-> resourceVcdNsxtEdgegatewayRateLimitingDelete,
     import |-> resourceVcdNsxtEdgegatewayRateLimitingImport]

-----------------------------------------------------------------------------
(* Load balancing on the gateway: its settings, the service engine groups  *)
(* assigned to it, pools and virtual services.  Only the gateway is locked. *)

vcdAlbSettingsRead == <<Parent(Forget), Observe, SetId>>
resourceVcdAlbSettingsCreateUpdate ==
    lockParentEdgeGtw \o <<Parent(Error), Write, SetId>>
    \o vcdAlbSettingsRead
resourceVcdAlbSettingsDelete == lockParentEdgeGtw \o <<Parent(Error), Reset>>
resourceVcdAlbSettingsImport == ImportSettings \o vcdAlbSettingsRead

resourceVcdAlbSettings ==
    [create |-> resourceVcdAlbSettingsCreateUpdate,
     read |-> vcdAlbSettingsRead,
     update |-> resourceVcdAlbSettingsCreateUpdate,
     delete |-> resourceVcdAlbSettingsDelete,
     import |-> resourceVcdAlbSettingsImport]

resourceVcdAlbEdgeGatewayServiceEngineGroupRead == <<Find(Forget), SetId>>
resourceVcdAlbEdgeGatewayServiceEngineGroupCreate ==
    <<Parent(Error)>> \o lockParentEdgeGtw \o <<Create, SetId>>
    \o resourceVcdAlbEdgeGatewayServiceEngineGroupRead
resourceVcdAlbEdgeGatewayServiceEngineGroupUpdate ==
    <<Parent(Error)>> \o lockParentEdgeGtw \o <<Find(Error), Change, SetId>>
    \o resourceVcdAlbEdgeGatewayServiceEngineGroupRead
resourceVcdAlbEdgeGatewayServiceEngineGroupDelete ==
    <<Parent(Error)>> \o lockParentEdgeGtw \o <<Find(Error), Remove>>
resourceVcdAlbEdgeGatewayServiceEngineGroupImport ==
    ImportFound
    \o resourceVcdAlbEdgeGatewayServiceEngineGroupRead

resourceVcdAlbEdgeGatewayServiceEngineGroup ==
    [create |-> resourceVcdAlbEdgeGatewayServiceEngineGroupCreate,
     read |-> resourceVcdAlbEdgeGatewayServiceEngineGroupRead,
     update |-> resourceVcdAlbEdgeGatewayServiceEngineGroupUpdate,
     delete |-> resourceVcdAlbEdgeGatewayServiceEngineGroupDelete,
     import |-> resourceVcdAlbEdgeGatewayServiceEngineGroupImport]


\* Mutant of resourceVcdAlbPoolRead: every error is taken for "not found".
resourceVcdAlbPoolRead_AnyError == <<FindOr(Forget), SetId>>

resourceVcdAlbPoolRead == <<Find(Forget), SetId>>
resourceVcdAlbPoolCreate ==
    lockParentEdgeGtw \o <<Create, SetId>>
    \o resourceVcdAlbPoolRead
resourceVcdAlbPoolUpdate ==
    lockParentEdgeGtw \o <<Find(Error), Change>>
    \o resourceVcdAlbPoolRead
resourceVcdAlbPoolDelete == lockParentEdgeGtw \o <<Find(Error), Remove>>
resourceVcdAlbPoolImport == ImportFound \o resourceVcdAlbPoolRead

resourceVcdAlbPool ==
    [create |-> resourceVcdAlbPoolCreate,
     read |-> resourceVcdAlbPoolRead,
     update |-> resourceVcdAlbPoolUpdate,
     delete |-> resourceVcdAlbPoolDelete,
     import |-> resourceVcdAlbPoolImport]

resourceVcdAlbVirtualServiceRead == <<Find(Forget), SetId>>
resourceVcdAlbVirtualServiceCreate ==
    lockParentEdgeGtw \o <<Create, SetId>>
    \o resourceVcdAlbVirtualServiceRead
resourceVcdAlbVirtualServiceUpdate ==
    lockParentEdgeGtw \o <<Find(Error), Change>>
    \o resourceVcdAlbVirtualServiceRead
resourceVcdAlbVirtualServiceDelete == lockParentEdgeGtw \o <<Find(Error), Remove>>
resourceVcdAlbVirtualServiceImport == ImportFound \o resourceVcdAlbVirtualServiceRead

resourceVcdAlbVirtualService ==
    [create |-> resourceVcdAlbVirtualServiceCreate,
     read |-> resourceVcdAlbVirtualServiceRead,
     update |-> resourceVcdAlbVirtualServiceUpdate,
     delete |-> resourceVcdAlbVirtualServiceDelete,
     import |-> resourceVcdAlbVirtualServiceImport]

-----------------------------------------------------------------------------
(* Load balancing of the provider: no lock; a cloud cannot be changed, and *)
(* a service engine group is read a second time after it was synchronised. *)


\* Mutant of resourceVcdAlbCloudRead: "not found" is an error.
resourceVcdAlbCloudRead_Unforgiving == <<Find(Error)>>

resourceVcdAlbCloudRead == <<Find(Forget)>>
resourceVcdAlbCloudCreate == <<Create, SetId>> \o resourceVcdAlbCloudRead
resourceVcdAlbCloudDelete == <<Find(Error), Remove>>
resourceVcdAlbCloudImport == <<Find(Error), SetId>> \o resourceVcdAlbCloudRead

resourceVcdAlbCloud ==
    [create |-> resourceVcdAlbCloudCreate,
     read |-> resourceVcdAlbCloudRead,
     update |-> <<>>,
     delete |-> resourceVcdAlbCloudDelete,
     import |-> resourceVcdAlbCloudImport]

resourceVcdAlbControllerRead == <<Find(Forget)>>
resourceVcdAlbControllerCreate == <<Create, SetId>> \o resourceVcdAlbControllerRead
resourceVcdAlbControllerUpdate ==
    <<Find(Error), Change>>
    \o resourceVcdAlbControllerRead
resourceVcdAlbControllerDelete == <<Find(Error), Remove>>
resourceVcdAlbControllerImport == <<Find(Error), SetId>> \o resourceVcdAlbControllerRead

resourceVcdAlbController ==
    [create |-> resourceVcdAlbControllerCreate,
     read |-> resourceVcdAlbControllerRead,
     update |-> resourceVcdAlbControllerUpdate,
     delete |-> resourceVcdAlbControllerDelete,
     import |-> resourceVcdAlbControllerImport]

resourceVcdAlbServiceEngineGroupRead == <<Find(Forget), Ask, Find(Error)>>
resourceVcdAlbServiceEngineGroupCreate ==
    <<Ask, Create, SetId>>
    \o resourceVcdAlbServiceEngineGroupRead
resourceVcdAlbServiceEngineGroupUpdate ==
    <<Find(Error), Change>>
    \o resourceVcdAlbServiceEngineGroupRead
resourceVcdAlbServiceEngineGroupDelete == <<Find(Error), Remove>>
resourceVcdAlbServiceEngineGroupImport ==
    <<Find(Error), SetId>>
    \o resourceVcdAlbServiceEngineGroupRead

resourceVcdAlbServiceEngineGroup ==
    [create |-> resourceVcdAlbServiceEngineGroupCreate,
     read |-> resourceVcdAlbServiceEngineGroupRead,
     update |-> resourceVcdAlbServiceEngineGroupUpdate,
     delete |-> resourceVcdAlbServiceEngineGroupDelete,
     import |-> resourceVcdAlbServiceEngineGroupImport]

-----------------------------------------------------------------------------
(* Distributed firewall of a VDC group.  All its rules are one document: a *)
(* new rule is put in its place by writing all of them back.               *)

resourceVcdNsxtDistributedFirewallRuleRead == <<Ask, Parent(Error), Find(ForgetAndFail)>>
resourceVcdNsxtDistributedFirewallRuleCreate ==
    lockParentVdcGroup \o <<Ask, Parent(Error), Fetch("dfw"), In(Create, "dfw"), SetId>>
    \o resourceVcdNsxtDistributedFirewallRuleRead
resourceVcdNsxtDistributedFirewallRuleUpdate ==
    lockParentVdcGroup \o <<Ask, Parent(Error), Find(Error), In(Change, "dfw")>>
    \o resourceVcdNsxtDistributedFirewallRuleRead
resourceVcdNsxtDistributedFirewallRuleDelete ==
    lockParentVdcGroup \o <<Ask, Parent(Error), Find(Error), In(Remove, "dfw")>>
resourceVcdNsxtDistributedFirewallRuleImport ==
    ImportFound
    \o resourceVcdNsxtDistributedFirewallRuleRead

resourceVcdNsxtDistributedFirewallRule ==
    [create |-> resourceVcdNsxtDistributedFirewallRuleCreate,
     read |-> resourceVcdNsxtDistributedFirewallRuleRead,
     update |-> resourceVcdNsxtDistributedFirewallRuleUpdate,
     delete |-> resourceVcdNsxtDistributedFirewallRuleDelete,
     import |-> resourceVcdNsxtDistributedFirewallRuleImport]

resourceVcdNsxtDistributedFirewallRead == <<Ask, Parent(Forget), Observe>>
resourceVcdNsxtDistributedFirewallCreateUpdate ==
    lockParentVdcGroup \o <<Ask, Parent(Error), In(Write, "dfw"), SetId>>
    \o resourceVcdNsxtDistributedFirewallRead
resourceVcdNsxtDistributedFirewallDelete ==
    lockParentVdcGroup \o <<Ask, Parent(Error), In(Reset, "dfw")>>
resourceVcdNsxtDistributedFirewallImport ==
    ImportSettings
    \o resourceVcdNsxtDistributedFirewallRead

resourceVcdNsxtDistributedFirewall ==
    [create |-> resourceVcdNsxtDistributedFirewallCreateUpdate,
     read |-> resourceVcdNsxtDistributedFirewallRead,
     update |-> resourceVcdNsxtDistributedFirewallCreateUpdate,
     delete |-> resourceVcdNsxtDistributedFirewallDelete,
     import |-> resourceVcdNsxtDistributedFirewallImport]

-----------------------------------------------------------------------------
(* DHCP of a network: the settings, without a lock, and the bindings       *)

resourceVcdOpenApiDhcpRead == <<Ask, Parent(Forget), Observe>>
resourceVcdOpenApiDhcpCreate ==
    <<Ask, Parent(Error), Write, SetId>>
    \o resourceVcdOpenApiDhcpRead
resourceVcdOpenApiDhcpDelete == <<Ask, Parent(Error), Reset>>
resourceVcdOpenApiDhcpImport == ImportSettings \o resourceVcdOpenApiDhcpRead

resourceVcdOpenApiDhcp ==
    [create |-> resourceVcdOpenApiDhcpCreate,
     read |-> resourceVcdOpenApiDhcpRead,
     update |-> resourceVcdOpenApiDhcpCreate,
     delete |-> resourceVcdOpenApiDhcpDelete,
     import |-> resourceVcdOpenApiDhcpImport]

resourceVcdNsxtDhcpBindingRead == <<Ask, Parent(Error), Find(Error)>>
resourceVcdNsxtDhcpBindingCreate ==
    lockParentOrgNetwork \o <<Ask, Parent(Error), Create, SetId>>
    \o resourceVcdNsxtDhcpBindingRead
resourceVcdNsxtDhcpBindingUpdate ==
    lockParentOrgNetwork \o <<Ask, Parent(Error), Find(Error), Change>>
    \o resourceVcdNsxtDhcpBindingRead
resourceVcdNsxtDhcpBindingDelete ==
    lockParentOrgNetwork \o <<Ask, Parent(Error), Find(Error), Remove>>
resourceVcdNsxtDhcpBindingImport == ImportFound \o resourceVcdNsxtDhcpBindingRead

resourceVcdNsxtDhcpBinding ==
    [create |-> resourceVcdNsxtDhcpBindingCreate,
     read |-> resourceVcdNsxtDhcpBindingRead,
     update |-> resourceVcdNsxtDhcpBindingUpdate,
     delete |-> resourceVcdNsxtDhcpBindingDelete,
     import |-> resourceVcdNsxtDhcpBindingImport]

-----------------------------------------------------------------------------
(* The edge gateway.  One that is made for a VDC group is made in a VDC and *)
(* moved to the group.                                                     *)

resourceVcdNsxtEdgeGatewayRead == <<Ask, Find(Forget), Ask>>
resourceVcdNsxtEdgeGatewayCreate ==
    <<Ask, Parent(Error), CreatePart, SetId, Change>>
    \o resourceVcdNsxtEdgeGatewayRead
resourceVcdNsxtEdgeGatewayUpdate ==
    <<Ask, Find(Error), Ask, Change>>
    \o resourceVcdNsxtEdgeGatewayRead
resourceVcdNsxtEdgeGatewayDelete == <<Ask, Find(Error), Remove>>
resourceVcdNsxtEdgeGatewayImport == ImportFound \o resourceVcdNsxtEdgeGatewayRead

resourceVcdNsxtEdgeGateway ==
    [create |-> resourceVcdNsxtEdgeGatewayCreate,
     read |-> resourceVcdNsxtEdgeGatewayRead,
     update |-> resourceVcdNsxtEdgeGatewayUpdate,
     delete |-> resourceVcdNsxtEdgeGatewayDelete,
     import |-> resourceVcdNsxtEdgeGatewayImport]

-----------------------------------------------------------------------------
(* The provider's names of the resource types *)

NsxtEdgeHandlers ==
    [vcd_nsxt_nat_rule |-> resourceVcdNsxtNatRule,
     vcd_nsxt_firewall |-> resourceVcdNsxtFirewall,
     vcd_nsxt_ip_set |-> resourceVcdNsxtIpSet,
     vcd_nsxt_security_group |-> resourceVcdSecurityGroupWithOwner,
     vcd_nsxt_security_group_without_owner |-> resourceVcdSecurityGroupWithoutOwner,
     vcd_nsxt_dynamic_security_group |-> resourceVcdDynamicSecurityGroup,
     vcd_nsxt_app_port_profile |-> resourceVcdNsxtAppPortProfile(Error),
     vcd_nsxt_app_port_profile_of_provider |-> resourceVcdNsxtAppPortProfile(Panic),
     vcd_nsxt_ipsec_vpn_tunnel |-> resourceVcdNsxtIpSecVpnTunnel,
     vcd_nsxt_edgegateway_l2_vpn_tunnel |-> resourceVcdNsxtEdgegatewayL2VpnTunnel,
     vcd_nsxt_edgegateway_bgp_neighbor |-> resourceVcdEdgeBgpNeighbor,
     vcd_nsxt_edgegateway_bgp_ip_prefix_list |-> resourceVcdEdgeBgpIpPrefixList,
     vcd_nsxt_edgegateway_bgp_configuration |-> resourceVcdEdgeBgpConfig,
     vcd_nsxt_edgegateway_static_route |-> resourceVcdNsxtEdgeGatewayStaticRoute,
     vcd_nsxt_route_advertisement |-> resourceVcdNsxtRouteAdvertisement,
     vcd_nsxt_edgegateway_dhcp_forwarding |-> resourceVcdNsxtEdgegatewayDhcpForwarding,
     vcd_nsxt_edgegateway_dhcpv6 |-> resourceVcdNsxtEdgegatewayDhcpV6,
     vcd_nsxt_edgegateway_rate_limiting |-> resourceVcdNsxtEdgegatewayRateLimiting,
     vcd_nsxt_alb_settings |-> resourceVcdAlbSettings,
     vcd_nsxt_alb_edgegateway_service_engine_group |-> resourceVcdAlbEdgeGatewayServiceEngineGroup,
     vcd_nsxt_alb_pool |-> resourceVcdAlbPool,
     vcd_nsxt_alb_virtual_service |-> resourceVcdAlbVirtualService,
     vcd_nsxt_alb_cloud |-> resourceVcdAlbCloud,
     vcd_nsxt_alb_controller |-> resourceVcdAlbController,
     vcd_nsxt_alb_service_engine_group |-> resourceVcdAlbServiceEngineGroup,
     vcd_nsxt_distributed_firewall_rule |-> resourceVcdNsxtDistributedFirewallRule,
     vcd_nsxt_distributed_firewall |-> resourceVcdNsxtDistributedFirewall,
     vcd_nsxt_network_dhcp |-> resourceVcdOpenApiDhcp,
     vcd_nsxt_network_dhcp_binding |-> resourceVcdNsxtDhcpBinding,
     vcd_nsxt_edgegateway |-> resourceVcdNsxtEdgeGateway]
===============================================================================
