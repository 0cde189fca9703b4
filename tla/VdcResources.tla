------------------------------ MODULE VdcResources ------------------------------
(***************************************************************************)
(* The handlers of VDCs, VDC groups, provider VDCs and compute policies    *)
(* (vcd/resource_vcd_*vdc*.go, resource_vcd_vm_*_policy.go), in the        *)
(* vocabulary of HandlerSteps.  A handler has the name of its Go function. *)
(***************************************************************************)
EXTENDS HandlerSteps

-----------------------------------------------------------------------------
(* VDCs (their parent is the organisation).  Delete takes any failure of   *)
(* the lookup for "already gone"; after the removal it asks again, and     *)
(* fails only when the VDC is still there.                                 *)

createOrUpdateOrgMetadata(change) == <<Parent(Error), Find(Error), change>>
addAssignedComputePolicies == <<Parent(Error), Find(Error), ChangePart>>
updateAssignedVmComputePolicies == <<Ask, ChangePart>>
setVdcEdgeCluster == <<Change>>
setOrgVdcData == <<Ask>>

resourceVcdVdcRead == <<Parent(Error), Find(Forget)>> \o setOrgVdcData
resourceVcdVdcCreate ==
    <<Parent(Error), AskOr(Ignore), Ask, CreatePart, SetId>>
    \o createOrUpdateOrgMetadata(ChangePart) \o addAssignedComputePolicies
    \o setVdcEdgeCluster \o resourceVcdVdcRead
resourceVcdVdcUpdate ==
    <<Parent(Error), Find(Error), Ask, ChangePart>> \o createOrUpdateOrgMetadata(ChangePart)
    \o updateAssignedVmComputePolicies \o setVdcEdgeCluster \o resourceVcdVdcRead
resourceVcdVdcDelete == <<Parent(Error), FindOr(Forget), Remove>>
resourceVcdOrgVdcImport == <<Parent(Error), Find(Error), SetId>> \o resourceVcdVdcRead

resourceVcdOrgVdc ==
    [create |-> resourceVcdVdcCreate, read |-> resourceVcdVdcRead,
     update |-> resourceVcdVdcUpdate, delete |-> resourceVcdVdcDelete,
     import |-> resourceVcdOrgVdcImport]
-----------------------------------------------------------------------------
(* Who may use a VDC (the parent).  Delete builds the errors of its two    *)
(* lookups and does not return them: it goes on with a nil pointer.        *)

resourceVcdVdcAccessControlRead == <<Ask, Parent(Forget), Observe>>
resourceVcdVdcAccessControlCreateUpdate ==
    <<Ask, Parent(Error), Write, SetId>> \o resourceVcdVdcAccessControlRead
resourceVcdVdcAccessControlDelete == <<AskOr(Panic), ParentOr(Panic), Reset, ClearId>>
resourceVcdVdcAccessControlImport ==
    <<Parent(Error), SetId>> \o resourceVcdVdcAccessControlRead

resourceVcdOrgVdcAccessControl ==
    [create |-> resourceVcdVdcAccessControlCreateUpdate,
     read |-> resourceVcdVdcAccessControlRead,
     update |-> resourceVcdVdcAccessControlCreateUpdate,
     delete |-> resourceVcdVdcAccessControlDelete,
     import |-> resourceVcdVdcAccessControlImport]
-----------------------------------------------------------------------------
(* VDC groups.  The firewall and its policies are set one by one; the ID   *)
(* is kept after the last.                                                 *)

resourceVcdVdcGroupRead == <<Parent(Error), Find(Forget), Ask>>
resourceVcdVdcGroupCreate ==
    <<Parent(Error), CreatePart, ChangePart, Change, SetId>> \o resourceVcdVdcGroupRead
resourceVcdVdcGroupUpdate ==
    <<Parent(Error), Find(Error), ChangePart, Change>> \o resourceVcdVdcGroupRead
resourceVcdVdcGroupDelete == <<Parent(Error), Find(Error), ChangePart, Remove>>
resourceVdcGroupImport ==
    <<Parent(Error), Find(Error), Ask, SetId>> \o resourceVcdVdcGroupRead

resourceVdcGroup ==
    [create |-> resourceVcdVdcGroupCreate, read |-> resourceVcdVdcGroupRead,
     update |-> resourceVcdVdcGroupUpdate, delete |-> resourceVcdVdcGroupDelete,
     import |-> resourceVdcGroupImport]
-----------------------------------------------------------------------------
(* Provider VDCs.                                                          *)

updateProviderVdcResourcePools == <<Ask, ChangePart>>
updateProviderVdcStorageProfiles == <<ChangePart>>

genericResourceVcdProviderVdcRead == <<FindOr(Forget), Ask, SetId>>
resourceVcdProviderVdcCreate == <<Ask, Create, SetId>> \o genericResourceVcdProviderVdcRead
resourceVcdProviderVdcUpdate ==
    <<Find(Error), ChangePart>> \o updateProviderVdcResourcePools
    \o updateProviderVdcStorageProfiles \o <<Change>> \o genericResourceVcdProviderVdcRead
resourceVcdProviderVdcDelete == <<Find(Error), ChangePart, Remove>>
resourceProviderVdcImport == <<Find(Error), SetId>> \o genericResourceVcdProviderVdcRead

resourceVcdProviderVdc ==
    [create |-> resourceVcdProviderVdcCreate, read |-> genericResourceVcdProviderVdcRead,
     update |-> resourceVcdProviderVdcUpdate, delete |-> resourceVcdProviderVdcDelete,
     import |-> resourceProviderVdcImport]
-----------------------------------------------------------------------------
(* Compute policies.  Both Deletes take any failure of the lookup for      *)
(* "already gone"; the Read of a sizing policy does too, with an error.    *)

genericVcdVmSizingPolicyRead == <<FindOr(ForgetAndFail)>>
resourceVmSizingPolicyCreate == <<Create, SetId>> \o genericVcdVmSizingPolicyRead
resourceVmSizingPolicyUpdate == <<Find(Error), Change>> \o genericVcdVmSizingPolicyRead
resourceVmSizingPolicyDelete == <<FindOr(Forget), Remove>>
getVmSizingPolicy == <<Find(Error), SetId>>
resourceVmSizingPolicyImport == getVmSizingPolicy \o genericVcdVmSizingPolicyRead

resourceVcdVmSizingPolicy ==
    [create |-> resourceVmSizingPolicyCreate, read |-> genericVcdVmSizingPolicyRead,
     update |-> resourceVmSizingPolicyUpdate, delete |-> resourceVmSizingPolicyDelete,
     import |-> resourceVmSizingPolicyImport]

getPvdcNamedVmGroupsMap == <<Ask>>
setVmPlacementPolicy == <<Ask, SetId>>

sharedVcdVmPlacementPolicyRead == <<Find(Forget)>> \o setVmPlacementPolicy
resourceVmPlacementPolicyCreate ==
    <<Ask>> \o getPvdcNamedVmGroupsMap \o <<Create, SetId>> \o sharedVcdVmPlacementPolicyRead
resourceVmPlacementPolicyUpdate ==
    <<Find(Error)>> \o getPvdcNamedVmGroupsMap \o <<Change>> \o sharedVcdVmPlacementPolicyRead
resourceVmPlacementPolicyDelete == <<FindOr(Forget), Remove>>
getVmPlacementPolicy == <<Find(Error), Ask, SetId>>
resourceVmPlacementPolicyImport == getVmPlacementPolicy \o sharedVcdVmPlacementPolicyRead

resourceVcdVmPlacementPolicy ==
    [create |-> resourceVmPlacementPolicyCreate, read |-> sharedVcdVmPlacementPolicyRead,
     update |-> resourceVmPlacementPolicyUpdate, delete |-> resourceVmPlacementPolicyDelete,
     import |-> resourceVmPlacementPolicyImport]
-----------------------------------------------------------------------------
VdcHandlers ==
    [vcd_org_vdc |-> resourceVcdOrgVdc,
     vcd_org_vdc_access_control |-> resourceVcdOrgVdcAccessControl,
     vcd_vdc_group |-> resourceVdcGroup,
     vcd_provider_vdc |-> resourceVcdProviderVdc,
     vcd_vm_sizing_policy |-> resourceVcdVmSizingPolicy,
     vcd_vm_placement_policy |-> resourceVcdVmPlacementPolicy]
===============================================================================
