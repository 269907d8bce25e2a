---------------------------- MODULE ToolRegistry ----------------------------
(***************************************************************************)
(* Which tools the server offers (pkg/mcp/handlers/registry.go and         *)
(* readonly.go): every tool has one class, and the write policy decides    *)
(* which classes are registered.                                           *)
(***************************************************************************)
EXTENDS WritePolicy

\* map readOnlyTools
readOnlyTools ==
    {"capi_list_clusters", "capi_get_cluster", "capi_cluster_status",
     "capi_cluster_health", "capi_backup_cluster", "capi_move_cluster",
     "capi_list_machines", "capi_get_machine", "capi_list_machinesets",
     "capi_get_machineset", "capi_node_status", "capi_list_machinedeployments",
     "capi_list_infrastructure_providers", "capi_get_provider_config",
     "capi_aws_list_clusters", "capi_aws_get_cluster",
     "capi_aws_get_machine_template", "capi_azure_list_clusters",
     "capi_azure_get_cluster", "capi_gcp_list_clusters", "capi_gcp_get_cluster",
     "capi_vsphere_list_clusters", "capi_vsphere_get_cluster",
     "capi_list_cluster_resource_sets", "capi_get_cluster_resource_set"}

\* map mutatingTools
mutatingTools ==
    {"capi_create_cluster", "capi_scale_cluster", "capi_pause_cluster",
     "capi_resume_cluster", "capi_delete_cluster", "capi_upgrade_cluster",
     "capi_update_cluster", "capi_delete_machine", "capi_remediate_machine",
     "capi_create_machinedeployment", "capi_scale_machinedeployment",
     "capi_update_machinedeployment", "capi_rollout_machinedeployment",
     "capi_drain_node", "capi_cordon_node", "capi_create_cluster_resource_set",
     "capi_delete_cluster_resource_set", "capi_kubectl", "capi_helm"}

\* map credentialTools
credentialTools == {"capi_get_kubeconfig"}

\* map additiveTools, the writes whose destructiveHint is false
additiveTools ==
    {"capi_create_cluster", "capi_create_machinedeployment",
     "capi_create_cluster_resource_set"}

buildClusterTools ==
    {"capi_create_cluster", "capi_list_clusters", "capi_get_cluster",
     "capi_cluster_status", "capi_cluster_health", "capi_scale_cluster",
     "capi_get_kubeconfig", "capi_kubectl", "capi_helm", "capi_pause_cluster",
     "capi_resume_cluster", "capi_delete_cluster", "capi_upgrade_cluster",
     "capi_update_cluster", "capi_move_cluster", "capi_backup_cluster"}

buildResourceSetTools ==
    {"capi_create_cluster_resource_set", "capi_list_cluster_resource_sets",
     "capi_get_cluster_resource_set", "capi_delete_cluster_resource_set"}

buildMachineTools ==
    {"capi_list_machines", "capi_get_machine", "capi_delete_machine",
     "capi_remediate_machine", "capi_list_machinedeployments",
     "capi_create_machinedeployment", "capi_scale_machinedeployment",
     "capi_update_machinedeployment", "capi_rollout_machinedeployment",
     "capi_list_machinesets", "capi_get_machineset", "capi_drain_node",
     "capi_cordon_node", "capi_node_status"}

\* The AWS, Azure, GCP and vSphere tools that would write are not built.
buildProviderTools ==
    {"capi_list_infrastructure_providers", "capi_get_provider_config",
     "capi_aws_list_clusters", "capi_aws_get_cluster",
     "capi_aws_get_machine_template", "capi_azure_list_clusters",
     "capi_azure_get_cluster", "capi_gcp_list_clusters", "capi_gcp_get_cluster",
     "capi_vsphere_list_clusters", "capi_vsphere_get_cluster"}

buildTools ==
    buildClusterTools \cup buildResourceSetTools \cup buildMachineTools \cup buildProviderTools

\* Mutant of BuildAllTools: only the credential tools are filtered.
BuildAllToolsUnfiltered(policy) ==
    {name \in buildTools : name \in credentialTools => policy.exposeKubeconfig}

\* A tool is hidden when its class is refused by the policy; a name that is in
\* no class is offered.
BuildAllTools(policy) ==
    {name \in buildTools :
        IF name \in credentialTools THEN policy.exposeKubeconfig
        ELSE name \in mutatingTools => ~policy.readOnly}

\* annotationsFor: a tool that neither reads only nor hands out credentials is
\* destructive, unless it is additive.
destructiveHint(name) ==
    name \notin readOnlyTools \cup credentialTools /\ name \notin additiveTools
=============================================================================
