------------------------------ MODULE MCLifecycle ------------------------------
(***************************************************************************)
(* Lifecycle with the handlers of the provider's resources: every kind on  *)
(* its own, then pairs of kinds that share a lock or a document.  The      *)
(* kinds that do not keep a promise are named, so that each promise is     *)
(* checked for all the others.                                             *)
(***************************************************************************)
EXTENDS Lifecycle, HandlerRules, NsxtEdgeResources, NsxvEdgeResources, VappResources,
        NetworkResources, RdeResources, OrgResources, VdcResources, CatalogResources,
        VmResources, TLC

AllHandlers ==
    NsxtEdgeHandlers @@ NsxvEdgeHandlers @@ VappHandlers @@ NetworkHandlers @@ RdeHandlers
    @@ OrgHandlers @@ VdcHandlers @@ CatalogHandlers @@ VmHandlers
Types == DOMAIN AllHandlers

\* Read answers a lost object, or a lost parent, with an error: the entry
\* stays and no later refresh succeeds.
Unforgiving ==
    {"vcd_nsxt_nat_rule", "vcd_nsxt_ipsec_vpn_tunnel", "vcd_nsxt_dynamic_security_group",
     "vcd_nsxt_edgegateway_bgp_neighbor", "vcd_nsxt_edgegateway_bgp_ip_prefix_list",
     "vcd_nsxt_edgegateway_static_route", "vcd_nsxt_distributed_firewall_rule",
     "vcd_nsxt_network_dhcp_binding", "vcd_nsxt_edgegateway_l2_vpn_tunnel",
     "vcd_edgegateway_vpn", "vcd_vapp_firewall_rules", "vcd_vapp_nat_rules",
     "vcd_vapp_static_routing", "vcd_ip_space_ip_allocation", "vcd_ip_space_custom_quota",
     "vcd_rde_interface_behavior", "vcd_rde_type_behavior", "vcd_rde_type_behavior_acl",
     "vcd_api_token", "vcd_catalog_item"}

\* So do these, whose parent is the organisation or the catalog.
UnforgivingOfParent ==
    {"vcd_org_group", "vcd_service_account", "vcd_library_certificate", "vcd_security_tag",
     "vcd_role", "vcd_org_vdc", "vcd_vdc_group", "vcd_catalog", "vcd_subscribed_catalog",
     "vcd_catalog_media"}

\* Read takes any error for "not found", also in Create, where the ID is lost.
Hasty ==
    {"vcd_edgegateway", "vcd_vapp", "vcd_vapp_with_guest_properties", "vcd_cloned_vapp",
     "vcd_network_routed", "vcd_network_isolated", "vcd_network_direct", "vcd_org",
     "vcd_provider_vdc", "vcd_vapp_vm", "vcd_vapp_vm_empty", "vcd_vm", "vcd_vm_empty",
     "vcd_inserted_media", "vcd_vm_affinity_rule"}

\* The same of the settings of a parent, which the next Create finds again.
HastyAboutSettings == {"vcd_nsxv_distributed_firewall"}

\* Delete leaves the settings as they are.
KeepsSettings == {"vcd_edgegateway_settings"}

\* The same, and Read returns the error too.
HastyAndUnforgiving ==
    {"vcd_lb_app_profile", "vcd_lb_app_rule", "vcd_lb_server_pool", "vcd_lb_service_monitor",
     "vcd_lb_virtual_server", "vcd_nsxv_firewall_rule", "vcd_nsxv_dnat", "vcd_nsxv_snat",
     "vcd_vm_sizing_policy"}

\* Named for something else, and their Read returns an error for a lost VDC, too (or
\* panics on a lost template).
UnforgivingToo ==
    {"vcd_edgegateway", "vcd_vapp", "vcd_vapp_with_guest_properties", "vcd_cloned_vapp",
     "vcd_network_direct", "vcd_catalog_vapp_template"}

\* Create sets the ID only after a later call, or in the Read at its end.
LateId ==
    {"vcd_vapp_access_control", "vcd_org_saml", "vcd_org_ldap"}

\* The same, and the name of the unknown object is taken: the Create of the
\* next apply is refused.
LateIdOfTakenName ==
    {"vcd_external_network", "vcd_rde_interface", "vcd_rde_interface_behavior", "vcd_rde_type",
     "vcd_rde_type_behavior", "vcd_rde_type_behavior_acl", "vcd_org_user", "vcd_role",
     "vcd_global_role", "vcd_rights_bundle", "vcd_ui_plugin", "vcd_vdc_group",
     "vcd_catalog_item", "vcd_catalog_vapp_template", "vcd_catalog_media",
     "vcd_independent_disk"}

\* Delete takes a failed lookup for an object that is gone.
Careless ==
    {"vcd_org_vdc", "vcd_vm_sizing_policy", "vcd_vm_placement_policy", "vcd_catalog",
     "vcd_subscribed_catalog"}

\* The edge gateway is looked up by name to lock it, or to unlock it; its ID is
\* the key, and Read clears it; an error, a nil or an empty list is not checked.
Panicky ==
    {"vcd_edgegateway", "vcd_edgegateway_vpn", "vcd_nsxv_firewall_rule", "vcd_nsxv_dnat",
     "vcd_nsxv_snat", "vcd_nsxv_dhcp_relay", "vcd_lb_app_profile", "vcd_lb_app_rule",
     "vcd_lb_server_pool", "vcd_lb_service_monitor", "vcd_lb_virtual_server",
     "vcd_nsxt_edgegateway_l2_vpn_tunnel", "vcd_nsxt_ipsec_vpn_tunnel",
     "vcd_nsxt_security_group_without_owner", "vcd_nsxt_app_port_profile_of_provider",
     "vcd_network_routed", "vcd_org_vdc_access_control", "vcd_catalog_access_control",
     "vcd_catalog_item", "vcd_catalog_vapp_template"}

\* Update, or Create after the object is made, takes a failure for success.
Dishonest ==
    {"vcd_edgegateway", "vcd_catalog_item", "vcd_vm_affinity_rule"} \cup Careless \cup KeepsSettings

Orphaning ==
    Hasty \cup HastyAboutSettings \cup HastyAndUnforgiving \cup LateId \cup LateIdOfTakenName
    \cup Careless \cup KeepsSettings
FailsOnLoss ==
    Unforgiving \cup UnforgivingOfParent \cup HastyAndUnforgiving \cup UnforgivingToo
Unsettling == Orphaning \cup Dishonest \cup FailsOnLoss
Stuck ==
    Unforgiving \cup UnforgivingOfParent \cup Hasty \cup HastyAndUnforgiving
    \cup LateIdOfTakenName \cup Careless

\* Kinds with the same handlers behave alike: one of each group is enough.
Kinds == {k \in Types : k = CHOOSE j \in Types : AllHandlers[j] = AllHandlers[k]}

Alone(k, f) == [kind |-> <<k>>, inGroup |-> FALSE, mishaps |-> 2, edits |-> 2, foreign |-> f]

Pair(j, k, g) == [kind |-> <<j, k>>, inGroup |-> g, mishaps |-> 2, edits |-> 1, foreign |-> FALSE]

\* Pairs that share a lock of either kind, that hold different locks, and that
\* write one document.
Pairs ==
    {Pair("vcd_nsxt_security_group", "vcd_nsxt_firewall", g) : g \in BOOLEAN}
    \cup {Pair("vcd_nsxt_alb_pool", "vcd_nsxt_ip_set", g) : g \in BOOLEAN}
    \cup {Pair("vcd_nsxt_distributed_firewall_rule", "vcd_nsxt_distributed_firewall_rule", TRUE),
          Pair("vcd_vapp_network", "vcd_vapp_org_network", FALSE),
          Pair("vcd_lb_server_pool", "vcd_nsxv_dnat", FALSE),
          Pair("vcd_rde_type_behavior_acl", "vcd_rde_type_behavior_acl", FALSE),
          Pair("vcd_network_isolated_v2", "vcd_nsxt_security_group", TRUE),
          Pair("vcd_nsxv_distributed_firewall", "vcd_nsxv_ip_set", FALSE)}

SomeScenario ==
    {s \in {Alone(k, f) : k \in Kinds, f \in BOOLEAN} :
        s.foreign => AllHandlers[s.kind[1]].import # <<>>}
    \cup Pairs

Vapp == {Alone("vcd_vapp", FALSE)}
-----------------------------------------------------------------------------
InEvery(Rule(_), h) == \A o \in Operation : Rule(h[o])

\* The handlers of kind k keep the rules of HandlerRules, all but those it is
\* named for above: a Create that keeps the ID too late, a Read or Delete that takes
\* any error for "not found", a success that is none, a lock that panics.
KeepsRules(k) ==
    LET h == Handlers[k] IN
    /\ k \in Orphaning <=> ~TracksObject(h)
    /\ k \in Dishonest <=> ~TellsTheTruth(h)
    /\ k \in Hasty \cup HastyAboutSettings <=> ~ForgetsWhenGone(h)
    /\ k \in FailsOnLoss <=> ~ForgivesLoss(h.read)
    /\ k \in Panicky <=> ~InEvery(NeverPanics, h)
    /\ WorksAtOnce(h)
    /\ InEvery(RestoresPower, h)
    /\ InEvery(SharesUnderLock, h)
    /\ InEvery(LocksInTurn, h)

\* The kinds that keep the rules with all that have the same handlers.
RuleKeeping ==
    {k \in DOMAIN Handlers :
        \A j \in DOMAIN Handlers : Handlers[j] = Handlers[k] => KeepsRules(j)}

\* Each exception the other promises make has its reason in the handlers and none
\* is missing: a kind is named exactly when its handlers break the rule that the
\* promise rests on, and no kind leaves a machine off or a shared document unlocked.
RulesKept == \A r \in R : kind[r] \in RuleKeeping

\* Every object that was made is known to Terraform, whatever call has failed,
\* for the kinds that keep the ID from the moment the object exists.
AllTracked == \A r \in R : kind[r] \notin Orphaning /\ ~crashed => Tracked(r)

\* The provider does not panic: not in a lock, not in a deferred unlock, and
\* not on an answer it has not checked.
NoPanic == crashed => \E r \in R : kind[r] \in Panicky

\* No write of a shared document undoes the write of another resource.
NoLostUpdate == \A r \in R : WritesFresh(r)

\* No handler reports a success it has not had.
AllHonest == [][\A r \in R : kind[r] \notin Dishonest => Honest(r)]_vars

\* A failed call does not make Read drop an entry.
AllForgetOnlyTheGone ==
    [][\A r \in R : kind[r] \notin Hasty \cup HastyAboutSettings => ForgetsOnlyTheGone(r)]_vars

\* A change that needs a machine off, of the VM itself, of a disk or network in
\* it, leaves it running when it reports success.
AllKeepPower == [][\A r \in R : KeepsPower(r)]_vars

\* When the mishaps are over, applying again gets the user what they asked for:
\* no failure and no loss leaves a resource that needs manual repair.  (A
\* resource whose Read fails keeps the others of its configuration back too.)
Converges == <>[]((\E r \in R : kind[r] \in Stuck) \/ (\A r \in R : Settled(r)))

\* When the mishaps are over, every refresh succeeds, whatever they have destroyed: no
\* Read takes a loss for a failure.  (The plan that puts it right comes only after it.)
ReadsSucceed == \A r \in R : kind[r] \notin FailsOnLoss /\ op[r] = "read" => ~err[r]
LossesAreForgiven == [](mishaps = 0 /\ phase = "idle" => []ReadsSucceed)

\* When the mishaps are over, one refresh and one apply are enough: no operation fails either,
\* and a resource whose part of the plan is done is what the user asked for.
SettlesAtOnce ==
    \A r \in R : kind[r] \notin Unsettling /\ ~crashed =>
        /\ op[r] \in {"create", "update", "delete"} => ~err[r]
        /\ phase = "apply" /\ op[r] = Idle /\ plan[r] = <<>> => Settled(r)
ApplySettles == [](mishaps = 0 /\ phase = "idle" => [](ReadsSucceed /\ SettlesAtOnce))

\* "only when an entity is not found, but not because of other causes like
\* network error" (CODING_GUIDELINES.md): not so for the vApp.
OnlyGoneIsForgotten == [][ForgetsOnlyTheGone(1)]_vars
===============================================================================
