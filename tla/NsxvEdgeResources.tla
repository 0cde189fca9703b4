--------------------------- MODULE NsxvEdgeResources ---------------------------
(***************************************************************************)
(* The handlers of the NSX-V edge gateway and of the resources that name   *)
(* one (vcd/resource_vcd_edgegateway*.go, resource_vcd_lb_*.go,            *)
(* resource_vcd_nsxv_*.go, nsxv_nat.go), in the vocabulary of              *)
(* HandlerSteps.  A handler has the name of its Go function.               *)
(***************************************************************************)
EXTENDS HandlerSteps

-----------------------------------------------------------------------------
(* The edge gateway: made and then configured in two more calls.  Its Read *)
(* takes every error of the lookup for "not found", its Update takes one   *)
(* for success.                                                            *)

genericVcdEdgeGatewayRead == <<Parent(Error), FindOr(Forget), SetId, Ask>>
resourceVcdEdgeGatewayCreate ==
    <<Parent(Error), Ask, CreatePart, SetId, ChangePart, Change, Ask>> \o genericVcdEdgeGatewayRead
resourceVcdEdgeGatewayUpdate ==
    lockEdgeGateway \o <<FindOr(Succeed), ChangePart, Change>> \o genericVcdEdgeGatewayRead
resourceVcdEdgeGatewayDelete == lockEdgeGateway \o <<FindOr(Error), Remove>>
resourceVcdEdgeGatewayImport == ImportFound \o genericVcdEdgeGatewayRead

resourceVcdEdgeGateway ==
    [create |-> resourceVcdEdgeGatewayCreate, read |-> genericVcdEdgeGatewayRead,
     update |-> resourceVcdEdgeGatewayUpdate, delete |-> resourceVcdEdgeGatewayDelete,
     import |-> resourceVcdEdgeGatewayImport]

\* The IPsec tunnels of a gateway are one setting of it.
resourceVcdEdgeGatewayVpnRead == <<Parent(Error), Find(Forget)>>
resourceVcdEdgeGatewayVpnCreate ==
    lockNamedEdgeGtw \o <<Parent(Error), Ask, Write, SetId>> \o resourceVcdEdgeGatewayVpnRead
resourceVcdEdgeGatewayVpnDelete == lockNamedEdgeGtw \o <<Parent(Error), Ask, Reset, SetId>>

resourceVcdEdgeGatewayVpn ==
    [create |-> resourceVcdEdgeGatewayVpnCreate, read |-> resourceVcdEdgeGatewayVpnRead,
     update |-> <<>>, delete |-> resourceVcdEdgeGatewayVpnDelete, import |-> <<>>]
-----------------------------------------------------------------------------
(* Load balancer.  The Reads clear the ID on every error of the lookup and *)
(* return the error.                                                       *)

resourceVcdLBAppProfileRead == <<Parent(Error), FindOr(ForgetAndFail)>>
resourceVcdLBAppProfileCreate ==
    lockNamedEdgeGtw \o <<Parent(Error), Create, SetId>> \o resourceVcdLBAppProfileRead
resourceVcdLBAppProfileUpdate == lockNamedEdgeGtw \o <<Parent(Error), Change>>
resourceVcdLBAppProfileDelete == lockNamedEdgeGtw \o <<Parent(Error), Remove, ClearId>>
resourceVcdLBAppProfileImport == <<Parent(Error), Find(Error), SetId>> \o resourceVcdLBAppProfileRead

resourceVcdLBAppProfile ==
    [create |-> resourceVcdLBAppProfileCreate, read |-> resourceVcdLBAppProfileRead,
     update |-> resourceVcdLBAppProfileUpdate, delete |-> resourceVcdLBAppProfileDelete,
     import |-> resourceVcdLBAppProfileImport]

resourceVcdLBAppRuleRead == <<Parent(Error), FindOr(ForgetAndFail)>>
resourceVcdLBAppRuleCreate ==
    lockNamedEdgeGtw \o <<Parent(Error), Create, SetId>> \o resourceVcdLBAppRuleRead
resourceVcdLBAppRuleUpdate == lockNamedEdgeGtw \o <<Parent(Error), Change>>
resourceVcdLBAppRuleDelete == lockNamedEdgeGtw \o <<Parent(Error), Remove, ClearId>>
resourceVcdLBAppRuleImport == <<Parent(Error), Find(Error), SetId>> \o resourceVcdLBAppRuleRead

resourceVcdLBAppRule ==
    [create |-> resourceVcdLBAppRuleCreate, read |-> resourceVcdLBAppRuleRead,
     update |-> resourceVcdLBAppRuleUpdate, delete |-> resourceVcdLBAppRuleDelete,
     import |-> resourceVcdLBAppRuleImport]

resourceVcdLBServerPoolRead == <<Parent(Error), FindOr(ForgetAndFail)>>
resourceVcdLBServerPoolCreate ==
    lockNamedEdgeGtw \o <<Parent(Error), Create, SetId>> \o resourceVcdLBServerPoolRead
resourceVcdLBServerPoolUpdate == lockNamedEdgeGtw \o <<Parent(Error), Change>>
resourceVcdLBServerPoolDelete == lockNamedEdgeGtw \o <<Parent(Error), Remove, ClearId>>
resourceVcdLBServerPoolImport == <<Parent(Error), Find(Error), SetId>> \o resourceVcdLBServerPoolRead

resourceVcdLBServerPool ==
    [create |-> resourceVcdLBServerPoolCreate, read |-> resourceVcdLBServerPoolRead,
     update |-> resourceVcdLBServerPoolUpdate, delete |-> resourceVcdLBServerPoolDelete,
     import |-> resourceVcdLBServerPoolImport]

resourceVcdLbServiceMonitorRead == <<Parent(Error), FindOr(ForgetAndFail)>>
resourceVcdLbServiceMonitorCreate ==
    lockNamedEdgeGtw \o <<Parent(Error), Create, SetId>> \o resourceVcdLbServiceMonitorRead
resourceVcdLbServiceMonitorUpdate == lockNamedEdgeGtw \o <<Parent(Error), Change>>
resourceVcdLbServiceMonitorDelete == lockNamedEdgeGtw \o <<Parent(Error), Remove, ClearId>>
resourceVcdLbServiceMonitorImport ==
    <<Parent(Error), Find(Error), SetId>> \o resourceVcdLbServiceMonitorRead

resourceVcdLbServiceMonitor ==
    [create |-> resourceVcdLbServiceMonitorCreate, read |-> resourceVcdLbServiceMonitorRead,
     update |-> resourceVcdLbServiceMonitorUpdate, delete |-> resourceVcdLbServiceMonitorDelete,
     import |-> resourceVcdLbServiceMonitorImport]

resourceVcdLBVirtualServerRead == <<Parent(Error), FindOr(ForgetAndFail)>>
resourceVcdLBVirtualServerCreate ==
    lockNamedEdgeGtw \o <<Parent(Error), Create, SetId>> \o resourceVcdLBVirtualServerRead
resourceVcdLBVirtualServerUpdate == lockNamedEdgeGtw \o <<Parent(Error), Change>>
resourceVcdLBVirtualServerDelete == lockNamedEdgeGtw \o <<Parent(Error), Remove, ClearId>>
resourceVcdLBVirtualServerImport ==
    <<Parent(Error), Find(Error), SetId>> \o resourceVcdLBVirtualServerRead

resourceVcdLBVirtualServer ==
    [create |-> resourceVcdLBVirtualServerCreate, read |-> resourceVcdLBVirtualServerRead,
     update |-> resourceVcdLBVirtualServerUpdate, delete |-> resourceVcdLBVirtualServerDelete,
     import |-> resourceVcdLBVirtualServerImport]
-----------------------------------------------------------------------------
(* Firewall rule, NAT rules and DHCP relay                                 *)

resourceVcdNsxvFirewallRuleRead == <<Parent(Error), Ask, FindOr(ForgetAndFail), Ask>>
resourceVcdNsxvFirewallRuleCreate ==
    lockNamedEdgeGtw \o <<Parent(Error), Ask, Create, SetId>> \o resourceVcdNsxvFirewallRuleRead
resourceVcdNsxvFirewallRuleUpdate ==
    lockNamedEdgeGtw \o <<Parent(Error), Ask, Change>> \o resourceVcdNsxvFirewallRuleRead
resourceVcdNsxvFirewallRuleDelete == lockNamedEdgeGtw \o <<Parent(Error), Remove, ClearId>>
resourceVcdNsxvFirewallRuleImport ==
    <<Parent(Error), Ask, Find(Error), SetId>> \o resourceVcdNsxvFirewallRuleRead

resourceVcdNsxvFirewallRule ==
    [create |-> resourceVcdNsxvFirewallRuleCreate, read |-> resourceVcdNsxvFirewallRuleRead,
     update |-> resourceVcdNsxvFirewallRuleUpdate, delete |-> resourceVcdNsxvFirewallRuleDelete,
     import |-> resourceVcdNsxvFirewallRuleImport]

\* Source and destination NAT share their handlers.
natRuleRead == <<Parent(Error), FindOr(ForgetAndFail), SetId, Ask>>
natRuleCreate == lockNamedEdgeGtw \o <<Parent(Error), Ask, Create, SetId>> \o natRuleRead
natRuleUpdate == lockNamedEdgeGtw \o <<Parent(Error), Ask, Change, Ask>> \o natRuleRead
natRuleDelete == lockNamedEdgeGtw \o <<Parent(Error), Remove, ClearId>>
natRuleImport == <<Parent(Error), Find(Error), SetId>> \o natRuleRead

resourceVcdNsxvDnat ==
    [create |-> natRuleCreate, read |-> natRuleRead, update |-> natRuleUpdate,
     delete |-> natRuleDelete, import |-> natRuleImport]
resourceVcdNsxvSnat ==
    [create |-> natRuleCreate, read |-> natRuleRead, update |-> natRuleUpdate,
     delete |-> natRuleDelete, import |-> natRuleImport]

genericVcdNsxvDhcpRelayRead == <<Parent(Forget), Ask, Observe, Ask, SetId>>
resourceVcdNsxvDhcpRelayCreate ==
    lockNamedEdgeGtw \o <<Parent(Error), Ask, Write, SetId>> \o genericVcdNsxvDhcpRelayRead
resourceVcdNsxvDhcpRelayDelete == lockNamedEdgeGtw \o <<Parent(Error), Reset>>
resourceVcdNsxvDhcpRelayImport == <<Parent(Error), SetId>> \o genericVcdNsxvDhcpRelayRead

resourceVcdNsxvDhcpRelay ==
    [create |-> resourceVcdNsxvDhcpRelayCreate, read |-> genericVcdNsxvDhcpRelayRead,
     update |-> resourceVcdNsxvDhcpRelayCreate, delete |-> resourceVcdNsxvDhcpRelayDelete,
     import |-> resourceVcdNsxvDhcpRelayImport]
-----------------------------------------------------------------------------
(* What takes no lock: the settings of a gateway, the firewall and the IP  *)
(* sets of a VDC.  The settings and the firewall get their ID in Read.     *)

getVcdEdgeGateway(miss) == <<Parent(miss)>>

resourceVcdEdgeGatewaySettingsRead == getVcdEdgeGateway(Forget) \o <<Observe, SetId>>
resourceVcdEdgeGatewaySettingsUpdate ==
    getVcdEdgeGateway(Error) \o <<WritePart, Write>> \o resourceVcdEdgeGatewaySettingsRead

\* Delete is Update without a change: the settings stay.
resourceVcdEdgeGatewaySettingsDelete ==
    getVcdEdgeGateway(Error) \o resourceVcdEdgeGatewaySettingsRead
resourceVcdEdgeGatewaySettingsImport == ImportSettings \o resourceVcdEdgeGatewaySettingsRead

resourceVcdEdgeGatewaySettings ==
    [create |-> resourceVcdEdgeGatewaySettingsUpdate, read |-> resourceVcdEdgeGatewaySettingsRead,
     update |-> resourceVcdEdgeGatewaySettingsUpdate,
     delete |-> resourceVcdEdgeGatewaySettingsDelete,
     import |-> resourceVcdEdgeGatewaySettingsImport]

\* A firewall that is off is read as one without rules.
genericVcdNsxvDistributedFirewallRead == <<ObserveOr(Forget), SetId>>
resourceVcdNsxvDistributedFirewallCreateUpdate ==
    <<Ask, WritePart, Write>> \o genericVcdNsxvDistributedFirewallRead
resourceVcdNsxvDistributedFirewallDelete == <<Reset>>
resourceVcdNsxvDistributedFirewallImport ==
    <<Ask, Parent(Error), Find(Error), SetId>> \o genericVcdNsxvDistributedFirewallRead

resourceVcdNsxvDistributedFirewall ==
    [create |-> resourceVcdNsxvDistributedFirewallCreateUpdate,
     read |-> genericVcdNsxvDistributedFirewallRead,
     update |-> resourceVcdNsxvDistributedFirewallCreateUpdate,
     delete |-> resourceVcdNsxvDistributedFirewallDelete,
     import |-> resourceVcdNsxvDistributedFirewallImport]

genericVcdIpSetRead == <<Ask, Find(Forget), Ask>>
resourceVcdIpSetCreate == <<Ask, Create, SetId>> \o genericVcdIpSetRead
resourceVcdIpSetUpdate == <<Ask, Change>> \o genericVcdIpSetRead
resourceVcdIpSetDelete == <<Ask, Remove, ClearId>>
resourceVcdIpSetImport == <<Ask, Find(Error), SetId>> \o genericVcdIpSetRead

resourceVcdIpSet ==
    [create |-> resourceVcdIpSetCreate, read |-> genericVcdIpSetRead,
     update |-> resourceVcdIpSetUpdate, delete |-> resourceVcdIpSetDelete,
     import |-> resourceVcdIpSetImport]
-----------------------------------------------------------------------------
NsxvEdgeHandlers ==
    [vcd_edgegateway_settings |-> resourceVcdEdgeGatewaySettings,
     vcd_nsxv_distributed_firewall |-> resourceVcdNsxvDistributedFirewall,
     vcd_nsxv_ip_set |-> resourceVcdIpSet,
     vcd_edgegateway |-> resourceVcdEdgeGateway,
     vcd_edgegateway_vpn |-> resourceVcdEdgeGatewayVpn,
     vcd_lb_app_profile |-> resourceVcdLBAppProfile,
     vcd_lb_app_rule |-> resourceVcdLBAppRule,
     vcd_lb_server_pool |-> resourceVcdLBServerPool,
     vcd_lb_service_monitor |-> resourceVcdLbServiceMonitor,
     vcd_lb_virtual_server |-> resourceVcdLBVirtualServer,
     vcd_nsxv_firewall_rule |-> resourceVcdNsxvFirewallRule,
     vcd_nsxv_dnat |-> resourceVcdNsxvDnat,
     vcd_nsxv_snat |-> resourceVcdNsxvSnat,
     vcd_nsxv_dhcp_relay |-> resourceVcdNsxvDhcpRelay]
===============================================================================
