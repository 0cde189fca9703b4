----------------------------- MODULE VappResources -----------------------------
(***************************************************************************)
(* The handlers of the vApp and of what is inside one                      *)
(* (vcd/resource_vcd_*vapp*.go, without the VMs), in the vocabulary of     *)
(* HandlerSteps.  A handler has the name of its Go function.               *)
(***************************************************************************)
EXTENDS HandlerSteps

-----------------------------------------------------------------------------
(* vApp.  Guest properties, when there are any, are set before the ID is   *)
(* kept; Create ends with Update.  Read takes every error of the lookup    *)
(* for "not found".                                                        *)

GuestProperties == <<Ask, ChangePart>>

genericVcdVAppRead == <<Parent(Error), FindOr(Forget), Ask, SetId, Ask>>
resourceVcdVAppUpdate == <<Parent(Error), Find(Error), Ask, ChangePart, Change>> \o genericVcdVAppRead
resourceVcdVAppCreate(guestProperties) ==
    <<Parent(Error)>> \o lockVapp \o <<CreatePart>> \o guestProperties
    \o <<SetId>> \o resourceVcdVAppUpdate
resourceVcdVAppDelete ==
    lockVapp \o <<Parent(Error), Find(Error), ChangePart, ChangePart, Remove>>
resourceVcdVappImport == <<Parent(Error), Find(Error), SetId>> \o genericVcdVAppRead

resourceVcdVApp(guestProperties) ==
    [create |-> resourceVcdVAppCreate(guestProperties), read |-> genericVcdVAppRead,
     update |-> resourceVcdVAppUpdate, delete |-> resourceVcdVAppDelete,
     import |-> resourceVcdVappImport]

resourceVcdClonedVAppRead == <<Parent(Error), FindOr(Forget), SetId>>
resourceVcdClonedVAppCreate ==
    <<Parent(Error), Ask, CreatePart, SetId, Ask, Change>> \o resourceVcdClonedVAppRead

resourceVcdClonedVApp ==
    [create |-> resourceVcdClonedVAppCreate, read |-> resourceVcdClonedVAppRead,
     update |-> <<>>, delete |-> resourceVcdVAppDelete, import |-> <<>>]
-----------------------------------------------------------------------------
(* Networks of a vApp.  They are one section of the vApp, which comes with *)
(* the lookup of the vApp and is written back whole.                       *)

LOCAL fetchVapp == <<Ask, Fetch("networks")>>

\* With reboot_vapp_on_removal the vApp is stopped before and started after.
resourceVappAndVappOrgNetworkDelete(reboot) ==
    lockParentVapp \o fetchVapp \o (IF reboot THEN <<Ask, PowerParentOff>> ELSE <<>>)
    \o <<In(Remove, "networks")>> \o (IF reboot THEN <<PowerParentBack>> ELSE <<>>) \o <<ClearId>>

genericVappNetworkRead == <<Ask, Parent(Forget), Find(Forget)>>

\* Mutant of resourceVappNetworkCreate: the vApp is not locked.
resourceVappNetworkCreate_Unlocked ==
    fetchVapp \o <<Ask, In(Create, "networks"), SetId>> \o genericVappNetworkRead

resourceVappNetworkCreate ==
    lockParentVapp \o fetchVapp \o <<Ask, In(Create, "networks"), SetId>> \o genericVappNetworkRead
resourceVappNetworkUpdate ==
    lockParentVapp \o fetchVapp \o <<Ask, In(Change, "networks")>> \o genericVappNetworkRead
resourceVcdVappNetworkImport == ImportFound \o genericVappNetworkRead

resourceVcdVappNetwork(reboot) ==
    [create |-> resourceVappNetworkCreate, read |-> genericVappNetworkRead,
     update |-> resourceVappNetworkUpdate, delete |-> resourceVappAndVappOrgNetworkDelete(reboot),
     import |-> resourceVcdVappNetworkImport]

genericVappOrgNetworkRead == <<Ask, Parent(Forget), Find(Forget)>>
resourceVappOrgNetworkCreate ==
    lockParentVapp \o fetchVapp \o <<Ask, In(Create, "networks"), SetId>> \o genericVappOrgNetworkRead
resourceVappOrgNetworkUpdate ==
    lockParentVapp \o fetchVapp \o <<In(Change, "networks")>> \o genericVappOrgNetworkRead
resourceVcdVappOrgNetworkImport == ImportFound \o genericVappOrgNetworkRead

resourceVcdVappOrgNetwork ==
    [create |-> resourceVappOrgNetworkCreate, read |-> genericVappOrgNetworkRead,
     update |-> resourceVappOrgNetworkUpdate, delete |-> resourceVappAndVappOrgNetworkDelete(FALSE),
     import |-> resourceVcdVappOrgNetworkImport]
-----------------------------------------------------------------------------
(* Rules of a vApp network.  The vApp is looked up before it is locked; a  *)
(* lost vApp is an error, a lost network is not.  NAT and static routing   *)
(* that are switched off altogether are read as if nothing had changed.    *)

LOCAL lockRules == <<Outer(Error)>> \o lockParentVappWithName

getNetworkRules == <<Outer(Error), Parent(Error), SetId>>  \* the import of all three

resourceVappNetworkNatRulesRead == <<Outer(Error), Parent(Forget), Find(Succeed)>>
resourceVappNetworkNatRulesUpdate ==
    lockRules \o <<Ask, Write, SetId>> \o resourceVappNetworkNatRulesRead
resourceVAppNetworkNatRulesDelete == lockRules \o <<Reset>>
vappNetworkNatRulesImport == getNetworkRules \o resourceVappNetworkNatRulesRead

resourceVcdVappNetworkNatRules ==
    [create |-> resourceVappNetworkNatRulesUpdate, read |-> resourceVappNetworkNatRulesRead,
     update |-> resourceVappNetworkNatRulesUpdate, delete |-> resourceVAppNetworkNatRulesDelete,
     import |-> vappNetworkNatRulesImport]

resourceVappFirewallRulesRead == <<Outer(Error), Parent(Forget), Observe>>
resourceVcdVappFirewallRulesUpdate ==
    lockRules \o <<Ask, Write, SetId>> \o resourceVappFirewallRulesRead
resourceVappFirewallRulesDelete == lockRules \o <<Reset>>
vappFirewallRulesImport == getNetworkRules \o resourceVappFirewallRulesRead

resourceVcdVappFirewallRules ==
    [create |-> resourceVcdVappFirewallRulesUpdate, read |-> resourceVappFirewallRulesRead,
     update |-> resourceVcdVappFirewallRulesUpdate, delete |-> resourceVappFirewallRulesDelete,
     import |-> vappFirewallRulesImport]

resourceVappNetworkStaticRoutingRead == <<Outer(Error), Parent(Forget), Find(Succeed)>>
resourceVappNetworkStaticRoutingUpdate ==
    lockRules \o <<Write, SetId>> \o resourceVappNetworkStaticRoutingRead
resourceVAppNetworkStaticRoutingDelete == lockRules \o <<Reset>>
vappNetworkStaticRoutingImport == getNetworkRules \o resourceVappNetworkStaticRoutingRead

resourceVcdVappNetworkStaticRouting ==
    [create |-> resourceVappNetworkStaticRoutingUpdate, read |-> resourceVappNetworkStaticRoutingRead,
     update |-> resourceVappNetworkStaticRoutingUpdate, delete |-> resourceVAppNetworkStaticRoutingDelete,
     import |-> vappNetworkStaticRoutingImport]
-----------------------------------------------------------------------------
(* Access control of a vApp.  Only Read sets the ID, Delete takes no lock. *)

resourceAccessControlVappRead == <<Ask, Parent(Forget), Observe, SetId>>
resourceAccessControlVappUpdate ==
    <<Ask, Parent(Error)>> \o lockParentVappWithName \o <<Ask, Write>> \o resourceAccessControlVappRead
resourceAccessControlVappDelete == <<Ask, Parent(Error), Reset, ClearId>>
accessControlVappImport == ImportSettings \o resourceAccessControlVappRead

resourceVcdAccessControlVapp ==
    [create |-> resourceAccessControlVappUpdate, read |-> resourceAccessControlVappRead,
     update |-> resourceAccessControlVappUpdate, delete |-> resourceAccessControlVappDelete,
     import |-> accessControlVappImport]
-----------------------------------------------------------------------------
VappHandlers ==
    [vcd_vapp |-> resourceVcdVApp(<<>>),
     vcd_vapp_with_guest_properties |-> resourceVcdVApp(GuestProperties),
     vcd_cloned_vapp |-> resourceVcdClonedVApp,
     vcd_vapp_network |-> resourceVcdVappNetwork(FALSE),
     vcd_vapp_network_with_reboot |-> resourceVcdVappNetwork(TRUE),
     vcd_vapp_org_network |-> resourceVcdVappOrgNetwork,
     vcd_vapp_nat_rules |-> resourceVcdVappNetworkNatRules,
     vcd_vapp_firewall_rules |-> resourceVcdVappFirewallRules,
     vcd_vapp_static_routing |-> resourceVcdVappNetworkStaticRouting,
     vcd_vapp_access_control |-> resourceVcdAccessControlVapp]
===============================================================================
