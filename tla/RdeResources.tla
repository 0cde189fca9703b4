------------------------------ MODULE RdeResources ------------------------------
(***************************************************************************)
(* The handlers of runtime defined entities (vcd/resource_vcd_rde*.go), in *)
(* the vocabulary of HandlerSteps.  A handler has the name of its Go       *)
(* function.  Read is the only handler of most of these types that sets    *)
(* the ID, also in Create.                                                 *)
(***************************************************************************)
EXTENDS HandlerSteps

-----------------------------------------------------------------------------
(* Interfaces, and their behaviors (whose parent is the interface).        *)

genericVcdRdeInterfaceRead == <<Find(Forget), SetId>>
resourceVcdRdeInterfaceCreate == <<Create>> \o genericVcdRdeInterfaceRead
resourceVcdRdeInterfaceUpdate == <<Find(Error), Change>> \o genericVcdRdeInterfaceRead
resourceVcdRdeInterfaceDelete == <<Find(Error), Remove>>
resourceVcdRdeInterfaceImport == <<Find(Error), SetId>> \o genericVcdRdeInterfaceRead

resourceVcdRdeInterface ==
    [create |-> resourceVcdRdeInterfaceCreate, read |-> genericVcdRdeInterfaceRead,
     update |-> resourceVcdRdeInterfaceUpdate, delete |-> resourceVcdRdeInterfaceDelete,
     import |-> resourceVcdRdeInterfaceImport]

genericVcdRdeInterfaceBehaviorRead == <<Parent(Error), Find(Forget), SetId>>
resourceVcdRdeInterfaceBehaviorCreateOrUpdate(call) ==
    <<Parent(Error), call>> \o genericVcdRdeInterfaceBehaviorRead
resourceVcdRdeInterfaceBehaviorDelete == <<Parent(Error), Remove>>
resourceVcdRdeInterfaceBehaviorImport ==
    <<Parent(Error), Find(Error), SetId>> \o genericVcdRdeInterfaceBehaviorRead

resourceVcdRdeInterfaceBehavior ==
    [create |-> resourceVcdRdeInterfaceBehaviorCreateOrUpdate(Create),
     read |-> genericVcdRdeInterfaceBehaviorRead,
     update |-> resourceVcdRdeInterfaceBehaviorCreateOrUpdate(Change),
     delete |-> resourceVcdRdeInterfaceBehaviorDelete,
     import |-> resourceVcdRdeInterfaceBehaviorImport]
-----------------------------------------------------------------------------
(* Types.  A lock of all types is held for the time of one write call; the *)
(* schema may have to be downloaded before.                                *)

executeRdeTypeFunctionWithMutex(write) == <<Lock("rdeType", UnlockFixed), write, Unlock>>

getRdeTypeSchema == <<Ask>>

genericVcdRdeTypeRead == <<Find(Forget), SetId>>
resourceVcdRdeTypeCreate ==
    getRdeTypeSchema \o executeRdeTypeFunctionWithMutex(Create) \o genericVcdRdeTypeRead
resourceVcdRdeTypeUpdate ==
    <<Find(Succeed)>> \o getRdeTypeSchema \o executeRdeTypeFunctionWithMutex(Change)
    \o genericVcdRdeTypeRead
resourceVcdRdeTypeDelete == <<Find(Succeed)>> \o executeRdeTypeFunctionWithMutex(Remove)
resourceVcdRdeTypeImport == <<Find(Error), SetId>> \o genericVcdRdeTypeRead

resourceVcdRdeType ==
    [create |-> resourceVcdRdeTypeCreate, read |-> genericVcdRdeTypeRead,
     update |-> resourceVcdRdeTypeUpdate, delete |-> resourceVcdRdeTypeDelete,
     import |-> resourceVcdRdeTypeImport]
-----------------------------------------------------------------------------
(* Overrides of an interface's behavior (the parent) in a type (the outer  *)
(* parent).  Read asks the type for the behavior, which is there, as the   *)
(* interface has it, when the override is gone.                            *)

genericVcdRdeTypeBehaviorRead == <<Outer(Error), Parent(Forget), Observe, SetId>>
resourceVcdRdeTypeBehaviorCreateOrUpdate == <<Outer(Error), Write>> \o genericVcdRdeTypeBehaviorRead
resourceVcdRdeTypeBehaviorDelete == <<Outer(Error), Reset>>
resourceVcdRdeTypeBehaviorImport ==
    <<Outer(Error), Parent(Error), SetId>> \o genericVcdRdeTypeBehaviorRead

resourceVcdRdeTypeBehavior ==
    [create |-> resourceVcdRdeTypeBehaviorCreateOrUpdate, read |-> genericVcdRdeTypeBehaviorRead,
     update |-> resourceVcdRdeTypeBehaviorCreateOrUpdate, delete |-> resourceVcdRdeTypeBehaviorDelete,
     import |-> resourceVcdRdeTypeBehaviorImport]

(* Access levels of a behavior.  Those of all behaviors of a type are one  *)
(* list: it is read and written back under a lock of the type.             *)

LOCAL lockAccessLevels == <<Lock("acl", UnlockFixed), Outer(Error)>>

genericVcdRdeTypeBehaviorAccessLevelRead == <<Outer(Error), Parent(Error), Observe, SetId>>
resourceVcdRdeTypeBehaviorAccessLevelCreateOrUpdate ==
    lockAccessLevels \o <<Parent(Error), Fetch("acl"), In(Write, "acl")>>
    \o genericVcdRdeTypeBehaviorAccessLevelRead
resourceVcdRdeTypeBehaviorAccessLevelDelete ==
    lockAccessLevels \o <<Fetch("acl"), In(Reset, "acl")>>
resourceVcdRdeTypeBehaviorAccessLevelImport ==
    <<Outer(Error), Parent(Error), SetId>> \o genericVcdRdeTypeBehaviorAccessLevelRead

resourceVcdRdeTypeBehaviorAccessLevel ==
    [create |-> resourceVcdRdeTypeBehaviorAccessLevelCreateOrUpdate,
     read |-> genericVcdRdeTypeBehaviorAccessLevelRead,
     update |-> resourceVcdRdeTypeBehaviorAccessLevelCreateOrUpdate,
     delete |-> resourceVcdRdeTypeBehaviorAccessLevelDelete,
     import |-> resourceVcdRdeTypeBehaviorAccessLevelImport]
-----------------------------------------------------------------------------
(* Entities.  Resolve moves an entity from one lifecycle state to another  *)
(* and leaves its configuration alone; the JSON may be downloaded.         *)

getRde == <<Find(Error)>>
getRdeJson == <<Ask>>
Resolve == <<Ask>>

resourceVcdRdeRead == <<Find(Forget)>> \o getRdeJson \o <<SetId>>
resourceVcdRdeCreate ==
    <<Parent(Error), Ask>> \o getRdeJson \o <<Create, SetId>> \o Resolve \o resourceVcdRdeRead
resourceVcdRdeUpdate == getRde \o getRdeJson \o <<Change>> \o Resolve \o resourceVcdRdeRead
resourceVcdRdeDelete == getRde \o Resolve \o <<Remove>>
resourceVcdRdeImport == <<Find(Error), SetId>> \o resourceVcdRdeRead

resourceVcdRde ==
    [create |-> resourceVcdRdeCreate, read |-> resourceVcdRdeRead,
     update |-> resourceVcdRdeUpdate, delete |-> resourceVcdRdeDelete,
     import |-> resourceVcdRdeImport]
-----------------------------------------------------------------------------
RdeHandlers ==
    [vcd_rde_interface |-> resourceVcdRdeInterface,
     vcd_rde_interface_behavior |-> resourceVcdRdeInterfaceBehavior,
     vcd_rde_type |-> resourceVcdRdeType,
     vcd_rde_type_behavior |-> resourceVcdRdeTypeBehavior,
     vcd_rde_type_behavior_acl |-> resourceVcdRdeTypeBehaviorAccessLevel,
     vcd_rde |-> resourceVcdRde]
===============================================================================
