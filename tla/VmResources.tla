------------------------------ MODULE VmResources ------------------------------
(***************************************************************************)
(* The handlers of virtual machines, of their disks and media, of the      *)
(* rules that place them and of the independent disks                      *)
(* (vcd/resource_vcd_vapp_vm*.go, resource_vcd_vm*.go,                     *)
(* resource_vcd_inserted_media.go, resource_vcd_independent_disk.go), in   *)
(* the vocabulary of HandlerSteps.  A handler has the name of its Go       *)
(* function.                                                               *)
(***************************************************************************)
EXTENDS HandlerSteps

-----------------------------------------------------------------------------
(* A VM is in a vApp, or alone in a vApp that is made and lost with it.    *)

vappVmType == "vcd_vapp_vm"
standaloneVmType == "vcd_vm"

LOCAL GetVApp(vmType, miss) == IF vmType = vappVmType THEN Parent(miss) ELSE Find(miss)

getVmFromResource(vmType) == <<Ask, GetVApp(vmType, Error), FindOr(ForgetAndFail)>>

\* Helpers of Create and Update, each for what it asks and changes.
updateTemplateInternalDisks == <<Ask, ChangePart, Ask>>
updateHardwareVersionAndOsType == <<ChangePart, Ask>>
handleExposeHardwareVirtualization == <<ChangePart>>
addRemoveGuestProperties == <<ChangePart, Ask>>
updateGuestCustomizationSetting == <<Ask, ChangePart>>
attachDetachIndependentDisks == <<Ask, ChangePart>>
updateAdvancedComputeSettings == <<ChangePart, Ask>>
createOrUpdateVmSecurityTags == <<Change>>

\* The settings of the VM: its NICs with their networks, properties, disks,
\* customization, tags and metadata; its power state is not among them.
readNetworks == <<Ask>>
readVmSettings == readNetworks

genericVcdVmRead(vmType, lookupFails) ==
    <<Ask, GetVApp(vmType, Forget), FindOr(lookupFails), SetId>> \o readVmSettings
resourceVcdVAppVmRead == genericVcdVmRead(vappVmType, Forget)
resourceVcdVStandaloneVmRead == genericVcdVmRead(standaloneVmType, Forget)
-----------------------------------------------------------------------------
(* Create.  The VM is made powered off and powered on by the last call.    *)

lookupvAppTemplateforVm == <<Ask>>

\* The vApp of a standalone VM is looked up after the VM is made, and a
\* failure clears the ID.
addStandaloneVmFromTemplate == <<CreateOff, SetId, AskOr(ForgetAndFail)>>
addVappVmFromTemplate == <<Parent(Error), CreateOff, SetId>>

\* Networks, disks, hardware, CPU and memory, each with a refresh.
changeVmFromTemplate ==
    <<ChangePart, Ask>> \o updateTemplateInternalDisks \o updateHardwareVersionAndOsType
    \o <<ChangePart, Ask>>

createVmFromTemplate(vmType) ==
    (IF vmType = vappVmType
     THEN <<Ask, Parent(Error)>> \o lookupvAppTemplateforVm \o addVappVmFromTemplate
     ELSE <<Ask>> \o lookupvAppTemplateforVm \o addStandaloneVmFromTemplate)
    \o changeVmFromTemplate

\* The networks are emptied, then set.
addEmptyVm == <<CreateOff, SetId, Ask, ChangePart, Ask, ChangePart>>

createVmEmpty(vmType) ==
    (IF vmType = vappVmType THEN <<Ask, Parent(Error), Ask>> ELSE <<Ask>>) \o addEmptyVm

\* Properties, customization, disks, reservations, tags, power.
completeVm ==
    handleExposeHardwareVirtualization
    \o addRemoveGuestProperties \o updateGuestCustomizationSetting \o <<Ask, ChangePart, Ask>>
    \o attachDetachIndependentDisks \o updateAdvancedComputeSettings
    \o createOrUpdateVmSecurityTags \o <<PowerOn>>

genericResourceVmCreate(created) == created \o <<Ask, ChangePart>> \o completeVm

resourceVcdVAppVmCreate(created) ==
    lockParentVapp \o genericResourceVmCreate(created) \o resourceVcdVAppVmRead
resourceVcdStandaloneVmCreate(created) ==
    genericResourceVmCreate(created) \o genericVcdVmRead(standaloneVmType, Error)
-----------------------------------------------------------------------------
(* Update: what can be changed while the VM runs, then what needs it off,  *)
(* then power.                                                             *)

resourceVmHotUpdate(vmType) == getVmFromResource(vmType) \o <<Ask, ChangePart, Ask>>

\* CPU, memory, disks, hardware, firmware, boot image.  A failure returns at
\* once.
coldChanges ==
    <<PowerOff>> \o attachDetachIndependentDisks \o <<ChangePart, Ask, ChangePart, Ask, ChangePart>>

\* Mutant of ensurePoweredOn: trusts the power state that Update has read first.
ensurePoweredOn_StaleStatus == <<Ask>>

ensurePoweredOn == <<Ask, PowerOn>>

\* A VM whose customization is forced is restarted, whatever has changed.
forceCustomization == <<Ask, PowerOff, PowerOn>>

resourceVcdVAppVmUpdateExecute(vmType, cold, powerStep) ==
    getVmFromResource(vmType) \o <<Ask>> \o updateGuestCustomizationSetting
    \o updateAdvancedComputeSettings \o cold \o createOrUpdateVmSecurityTags \o powerStep
    \o genericVcdVmRead(vmType, Forget)

genericResourceVcdVmUpdate(vmType, cold, powerStep) ==
    (IF vmType = vappVmType THEN lockParentVapp ELSE <<>>)
    \o resourceVmHotUpdate(vmType) \o resourceVcdVAppVmUpdateExecute(vmType, cold, powerStep)
-----------------------------------------------------------------------------
(* A standalone VM is deleted whole, with its vApp.                        *)

resourceVcdVAppVmDelete(vmType) ==
    lockParentVapp \o <<Ask, GetVApp(vmType, Error), Find(Error)>>
    \o (IF vmType = standaloneVmType THEN <<>> ELSE <<Ask, PowerOff, Ask, ChangePart>>)
    \o <<Remove>>

resourceVcdVappVmImport(vmType) ==
    <<Ask, GetVApp(vmType, Error), Find(Error), SetId>> \o genericVcdVmRead(vmType, Forget)

resourceVcdVAppVm(created, cold, powerStep) ==
    [create |-> resourceVcdVAppVmCreate(created), read |-> resourceVcdVAppVmRead,
     update |-> genericResourceVcdVmUpdate(vappVmType, cold, powerStep),
     delete |-> resourceVcdVAppVmDelete(vappVmType), import |-> resourceVcdVappVmImport(vappVmType)]

resourceVcdStandaloneVm(created, cold, powerStep) ==
    [create |-> resourceVcdStandaloneVmCreate(created), read |-> resourceVcdVStandaloneVmRead,
     update |-> genericResourceVcdVmUpdate(standaloneVmType, cold, powerStep),
     delete |-> resourceVcdVAppVmDelete(standaloneVmType),
     import |-> resourceVcdVappVmImport(standaloneVmType)]
-----------------------------------------------------------------------------
(* Internal disk of a VM: the VM is the parent, its vApp the outer parent. *)
(* With allow_vm_reboot the VM is off while an IDE disk changes.           *)

getVm == <<Ask, Outer(Error), Parent(Error)>>
powerOffIfNeeded == <<Ask, PowerParentOff>>
powerOnIfNeeded == <<Ask, PowerParentBack>>

resourceVmInternalDiskRead == <<Ask, Outer(Forget), Parent(Forget), Find(Forget)>>
resourceVmInternalDiskCreate ==
    lockParentVapp \o getVm \o <<Ask>> \o powerOffIfNeeded \o <<Create, SetId>>
    \o powerOnIfNeeded \o resourceVmInternalDiskRead
resourceVmInternalDiskUpdate ==
    lockParentVapp \o getVm \o powerOffIfNeeded \o <<Find(Error), Ask, Change>>
    \o powerOnIfNeeded \o resourceVmInternalDiskRead
resourceVmInternalDiskDelete ==
    lockParentVapp \o getVm \o powerOffIfNeeded \o <<Remove>> \o powerOnIfNeeded \o <<ClearId>>
getInternalDiskForImport ==
    getVm \o <<Find(Error), SetId>> \o resourceVmInternalDiskRead

resourceVmInternalDisk ==
    [create |-> resourceVmInternalDiskCreate, read |-> resourceVmInternalDiskRead,
     update |-> resourceVmInternalDiskUpdate, delete |-> resourceVmInternalDiskDelete,
     import |-> getInternalDiskForImport]
-----------------------------------------------------------------------------
(* Media in the drive of a VM.  getVM clears the ID on any error of the    *)
(* lookup, in Delete too; the Read takes every other error for success.    *)

getVM(asked) == <<AskOr(asked), ParentOr(ForgetAndFail), AskOr(asked)>>

resourceVcdVmInsertedMediaRead ==
    <<AskOr(Succeed), ParentOr(Forget), AskOr(Succeed), FindElse(Succeed, Forget)>>
resourceVcdMediaInsert ==
    lockParentVapp \o getVM(Error) \o <<Ask, Create, SetId>> \o resourceVcdVmInsertedMediaRead
resourceVcdMediaEject == lockParentVapp \o getVM(Error) \o <<Ask, Remove>>

resourceVcdInsertedMedia ==
    [create |-> resourceVcdMediaInsert, read |-> resourceVcdVmInsertedMediaRead,
     update |-> <<>>, delete |-> resourceVcdMediaEject, import |-> <<>>]
-----------------------------------------------------------------------------
(* Affinity rule.  A rule that Update cannot look up is forgotten, without *)
(* an error.                                                               *)

resourceToAffinityRule == <<Ask>>
getVmAffinityRule(fails) == <<AskOr(fails), FindOr(fails)>>

genericVcdVmAffinityRuleRead == getVmAffinityRule(Forget) \o <<SetId>>
resourceVcdVmAffinityRuleCreate ==
    <<Ask>> \o resourceToAffinityRule \o <<Create, SetId>> \o genericVcdVmAffinityRuleRead
resourceVcdVmAffinityRuleUpdate ==
    resourceToAffinityRule \o getVmAffinityRule(Forget) \o <<Change>>
    \o genericVcdVmAffinityRuleRead
resourceVcdVmAffinityRuleDelete == getVmAffinityRule(Error) \o <<Remove>>
resourceVcdVmAffinityRuleImport == <<Ask, Find(Error), SetId>> \o genericVcdVmAffinityRuleRead

resourceVcdVmAffinityRule ==
    [create |-> resourceVcdVmAffinityRuleCreate, read |-> genericVcdVmAffinityRuleRead,
     update |-> resourceVcdVmAffinityRuleUpdate, delete |-> resourceVcdVmAffinityRuleDelete,
     import |-> resourceVcdVmAffinityRuleImport]
-----------------------------------------------------------------------------
(* Independent disk.  Create keeps the ID after one more lookup; Delete    *)
(* finds the disk by its name and clears the ID on every later error.      *)
(* What Update does to the VMs around the disk is the module DiskUpdate.   *)

resourceVcdIndependentDiskRead == <<Ask, Find(Forget), SetId, Ask>>
resourceVcdIndependentDiskCreate ==
    <<Ask, CreatePart, Ask, SetId, Change>> \o resourceVcdIndependentDiskRead
resourceVcdIndependentDiskUpdate ==
    <<Ask, Find(Error), Ask, ChangePart, Change>> \o resourceVcdIndependentDiskRead
resourceVcdIndependentDiskDelete ==
    <<Ask, FindOr(ForgetAndFail), AskOr(ForgetAndFail), RemoveOr(ForgetAndFail)>>
getDiskForImport == <<Ask, Find(Error), SetId>> \o resourceVcdIndependentDiskRead

resourceVcdIndependentDisk ==
    [create |-> resourceVcdIndependentDiskCreate, read |-> resourceVcdIndependentDiskRead,
     update |-> resourceVcdIndependentDiskUpdate, delete |-> resourceVcdIndependentDiskDelete,
     import |-> getDiskForImport]
-----------------------------------------------------------------------------
VmHandlers ==
    [vcd_vapp_vm |-> resourceVcdVAppVm(createVmFromTemplate(vappVmType), coldChanges,
                                       ensurePoweredOn),
     vcd_vapp_vm_empty |-> resourceVcdVAppVm(createVmEmpty(vappVmType), <<>>, forceCustomization),
     vcd_vm |-> resourceVcdStandaloneVm(createVmFromTemplate(standaloneVmType), coldChanges,
                                        ensurePoweredOn),
     vcd_vm_empty |-> resourceVcdStandaloneVm(createVmEmpty(standaloneVmType), <<>>,
                                              forceCustomization),
     vcd_vm_internal_disk |-> resourceVmInternalDisk,
     vcd_inserted_media |-> resourceVcdInsertedMedia,
     vcd_vm_affinity_rule |-> resourceVcdVmAffinityRule,
     vcd_independent_disk |-> resourceVcdIndependentDisk]
===============================================================================
