---------------------------- MODULE CoreExtension ---------------------------
(***************************************************************************)
(* The item types of core_extension.py and their migrations                *)
(* (etc/migrations/core_extension).  A type is its properties, with the    *)
(* default or "None", and its collections, with the type they hold; views, *)
(* references and optional children, which have no row before they are     *)
(* created, are left out.  The version of the extension is the number of   *)
(* migrations it has, in the order of the releases they are for, 1.8.19 to *)
(* 1.80.6.  An earlier version of a type is the type of today without what *)
(* later migrations bring.                                                 *)
(***************************************************************************)
EXTENDS Integers, TLC

\* What a type has from some version on.
Since(n, v, fields) == IF v >= n THEN fields ELSE << >>

CoreVersions == 1..15

Type(props, colls) == [props |-> props, colls |-> colls]
BaseType == Type(<< >>, << >>)

\* A type with nothing but properties, or nothing but collections.
Properties(props) == Type(props, << >>)
Collections(colls) == Type(<< >>, colls)

RootType(v) ==
    Collections("plans" :> "plan" @@ "deployments" :> "deployment" @@ "snapshots" :> "snapshot-base"
                @@ Since(2, v, "litp" :> "litp-service-base"))
SoftwareType(v) ==
    Collections("profiles" :> "profile" @@ "runtimes" :> "runtime-entity"
                @@ "deployables" :> "deployable-entity" @@ "items" :> "software-item"
                @@ Since(1, v, "services" :> "service-base") @@ Since(10, v, "images" :> "image-base"))
RuntimeEntityType ==
    Type("start_command" :> "None" @@ "stop_command" :> "None" @@ "status_command" :> "None"
         @@ "cleanup_command" :> "/bin/true" @@ "user" :> "None",
         "packages" :> "software-item")
HaConfigType == Properties("status_interval" :> "None" @@ "status_timeout" :> "None")
HaServiceConfigType(v) ==
    Properties("restart_limit" :> "None" @@ "startup_retry_limit" :> "None"
               @@ Since(11, v, "service_id" :> "None" @@ "dependency_list" :> "None")
               @@ Since(12, v, "fault_on_monitor_timeouts" :> "4" @@ "tolerance_limit" :> "0"
                               @@ "clean_timeout" :> "60"))
ServiceType ==
    Type("service_name" :> "None" @@ "start_command" :> "None" @@ "stop_command" :> "None"
         @@ "status_command" :> "None" @@ "cleanup_command" :> "/bin/true",
         "packages" :> "software-item")
OsProfileType ==
    Properties("name" :> "None" @@ "arch" :> "x86_64" @@ "breed" :> "redhat" @@ "version" :> "rhel6"
               @@ "path" :> "None" @@ "kopts_post" :> "console=ttyS0,115200")
NetworkInterfaceType ==
    Properties("network_name" :> "None" @@ "ipaddress" :> "None" @@ "ipv6address" :> "None"
               @@ "ipv6_autoconf" :> "None")
SystemType ==
    Type("serial" :> "None" @@ "system_name" :> "None",
         "disks" :> "disk-base" @@ "controllers" :> "controller-base")
BladeRackType == Collections("blades" :> "blade")
DiskType(v) ==
    Properties("bootable" :> "false" @@ "name" :> "None" @@ "size" :> "None" @@ "uuid" :> "None"
               @@ Since(9, v, "disk_part" :> "false"))
SnapshotBaseType ==
    Properties("timestamp" :> "None" @@ "reboot_issued_at" :> "None" @@ "rebooted_clusters" :> "None"
               @@ "active" :> "true" @@ "force" :> "false")
DeploymentType(v) ==
    Type(Since(13, v, "in_restore_mode" :> "false"),
         "clusters" :> IF v >= 8 THEN "cluster-base" ELSE "cluster")
ClusterType(v) ==
    Type("ha_manager" :> "None" @@ "dependency_list" :> "None",
         "nodes" :> "node" @@ "services" :> "clustered-service" @@ "software" :> "software-item"
         @@ "configs" :> "cluster-config" @@ Since(14, v, "managed_files" :> "managed-file-base"))
ClusteredServiceType(v) ==
    Type("node_list" :> "None" @@ "dependency_list" :> "None" @@ "active" :> "None"
         @@ "standby" :> "None" @@ "name" :> "None",
         "runtimes" :> "runtime-entity" @@ Since(5, v, "applications" :> "service")
         @@ Since(7, v, "ha_configs" :> "ha-config-base"))
StorageType(v) ==
    Collections("storage_profiles" :> "storage-profile-base" @@ "nfs_mounts" :> "file-system-base"
                @@ "storage_providers" :> "storage-provider-base"
                @@ Since(14, v, "managed_files" :> "managed-file-base"))
NodeType(v) ==
    Type("hostname" :> "None" @@ "domain" :> "None" @@ "node_id" :> "None"
         @@ Since(3, v, "is_locked" :> "false"),
         "items" :> "software-item" @@ "file_systems" :> "file-system-base"
         @@ "routes" :> "route-base" @@ "network_interfaces" :> "network-interface"
         @@ "configs" :> "node-config" @@ Since(1, v, "services" :> "service-base")
         @@ Since(14, v, "managed_files" :> "managed-file-base"))
MsType(v) ==
    Type("hostname" :> "ms" @@ "domain" :> "None" @@ "ilo_ipaddress" :> "None",
         "items" :> "software-item" @@ "file_systems" :> "file-system-base"
         @@ "routes" :> "route-base" @@ "network_interfaces" :> "network-interface"
         @@ "configs" :> "node-config"
         @@ "services" :> (IF v >= 6 THEN "service-base" ELSE "ms-service")
         @@ Since(14, v, "managed_files" :> "managed-file-base"))
InfrastructureType ==
    Collections("items" :> "infra-item" @@ "systems" :> "system"
                @@ "system_providers" :> "system-provider" @@ "service_providers" :> "service-provider")
NetworkingType == Collections("networks" :> "network" @@ "routes" :> "route-base")
NetworkType ==
    Properties("name" :> "None" @@ "subnet" :> "None" @@ "litp_management" :> "false")
PhaseType == Collections("tasks" :> "task")
PlanType == Type("state" :> "None", "phases" :> "phase")
LoggingType(v) ==
    Properties("force_debug" :> "false" @@ Since(15, v, "force_postgres_debug" :> "false"))
RestoreType == Properties("update_trigger" :> "updatable")
ImportIsoType == Properties("source_path" :> "/")
MaintenanceType == Properties("enabled" :> "false" @@ "status" :> "None" @@ "initiator" :> "")
SshdConfigType == Properties("permit_root_login" :> "true")
UpgradeType ==
    Properties([p \in {"hash", "requires_reboot", "reboot_performed", "disable_reboot",
                       "os_reinstall", "ha_manager_only", "redeploy_ms", "infra_update",
                       "pre_os_reinstall"} |-> "None"])
PrepareRestoreType ==
    Properties("path" :> "/" @@ "actions" :> "all" @@ "force_remove_snapshot" :> "false")

\* The types that other types extend or that collections hold, with nothing of their own.
BaseTypes == {"deployable-entity", "software-item", "ha-config-base", "service-base", "profile",
              "bmc-base", "disk-base", "cluster-base", "cluster-config", "storage-profile-base",
              "node-config", "controller-base", "storage-provider-base", "file-system-base",
              "managed-file-base", "route-base", "service-provider", "system-provider",
              "infra-item", "task", "litp-service-base", "image-base"}
\* Types that only rename the one they extend.
DerivedTypes == {"blade", "scsi-block-device", "sata-block-device", "ms-service"}

CoreTypes ==
    BaseTypes \cup DerivedTypes \cup
    {"root", "software", "runtime-entity", "ha-config", "ha-service-config", "service",
     "os-profile", "network-interface", "system", "blade-rack", "disk", "snapshot-base",
     "deployment", "cluster", "clustered-service", "storage", "node", "ms", "infrastructure",
     "networking", "network", "phase", "plan", "logging", "restore", "import-iso",
     "maintenance", "sshd-config", "upgrade", "prepare-restore"}
CoreType(t, v) ==
    CASE t = "root"              -> RootType(v)
      [] t = "software"          -> SoftwareType(v)
      [] t = "node"              -> NodeType(v)
      [] t = "ha-service-config" -> HaServiceConfigType(v)
      [] t = "disk"              -> DiskType(v)
      [] t = "deployment"        -> DeploymentType(v)
      [] t = "cluster"           -> ClusterType(v)
      [] t = "clustered-service" -> ClusteredServiceType(v)
      [] t = "storage"           -> StorageType(v)
      [] t = "ms"                -> MsType(v)
      [] t = "infrastructure"    -> InfrastructureType
      [] t = "networking"        -> NetworkingType
      [] t = "network"           -> NetworkType
      [] t = "logging"           -> LoggingType(v)
      [] t = "restore"           -> RestoreType
      [] t = "import-iso"        -> ImportIsoType
      [] t = "maintenance"       -> MaintenanceType
      [] t = "prepare-restore"   -> PrepareRestoreType
      [] t = "ha-config"         -> HaConfigType
      [] t = "runtime-entity"    -> RuntimeEntityType
      [] t = "service"           -> ServiceType
      [] t = "os-profile"        -> OsProfileType
      [] t = "network-interface" -> NetworkInterfaceType
      [] t = "system"            -> SystemType
      [] t = "blade-rack"        -> BladeRackType
      [] t = "snapshot-base"     -> SnapshotBaseType
      [] t = "phase"             -> PhaseType
      [] t = "plan"              -> PlanType
      [] t = "sshd-config"       -> SshdConfigType
      [] t = "upgrade"           -> UpgradeType
      [] OTHER                   -> BaseType

CoreExtends ==
    "ha-config" :> "ha-config-base" @@ "ha-service-config" :> "ha-config"
    @@ "service" :> "service-base" @@ "ms-service" :> "service-base" @@ "os-profile" :> "profile"
    @@ "blade" :> "system" @@ "blade-rack" :> "system" @@ "disk" :> "disk-base"
    @@ "scsi-block-device" :> "disk" @@ "sata-block-device" :> "disk"
    @@ "cluster" :> "cluster-base" @@ "sshd-config" :> "node-config"
    @@ [t \in {"logging", "restore", "import-iso", "maintenance", "prepare-restore"} |->
           "litp-service-base"]
    @@ [t \in CoreTypes |-> "None"]

-----------------------------------------------------------------------------
AddProperty(t, p, v) == [op |-> "AddProperty", type |-> t, name |-> p, value |-> v]
AddsCollection(t, c, of) == [op |-> "AddCollection", type |-> t, name |-> c, of |-> of]
UpdatesCollectionType(t, c, old, new) ==
    [op |-> "UpdateCollectionType", type |-> t, name |-> c, old |-> old, new |-> new]
Migration(v, ops) == [version |-> v, operations |-> ops]

Migration001 == Migration(1, <<AddsCollection("software", "services", "service-base"),
                               AddsCollection("node", "services", "service-base")>>)
Migration002 == Migration(2, <<AddsCollection("root", "litp", "litp-service-base")>>)
Migration003 == Migration(3, <<AddProperty("node", "is_locked", "false")>>)
SubnetPrefix(prefixed) ==
    Migration(4, <<[op |-> "NetworkPrefix", type |-> "network", name |-> "subnet",
                    prefixed |-> prefixed]>>)
Migration005 == Migration(5, <<AddsCollection("clustered-service", "applications", "service")>>)
Migration004 == Migration(6, <<UpdatesCollectionType("ms", "services", "ms-service", "service-base")>>)
Migration006 == Migration(7, <<AddsCollection("clustered-service", "ha_configs", "ha-config-base")>>)
Migration007 == Migration(8, <<UpdatesCollectionType("deployment", "clusters", "cluster", "cluster-base")>>)
Migration008 == Migration(9, <<AddProperty("disk", "disk_part", "false")>>)
Migration009 == Migration(10, <<AddsCollection("software", "images", "image-base")>>)
Migration010 == Migration(11, <<AddProperty("ha-service-config", "service_id", "None"),
                                AddProperty("ha-service-config", "dependency_list", "None")>>)
Migration011 == Migration(12, <<AddProperty("ha-service-config", "fault_on_monitor_timeouts", "4"),
                                AddProperty("ha-service-config", "tolerance_limit", "0"),
                                AddProperty("ha-service-config", "clean_timeout", "60")>>)
Migration012 == Migration(13, <<AddProperty("deployment", "in_restore_mode", "false")>>)
Migration013 == Migration(14, <<AddsCollection("storage", "managed_files", "managed-file-base"),
                                AddsCollection("node", "managed_files", "managed-file-base"),
                                AddsCollection("cluster", "managed_files", "managed-file-base"),
                                AddsCollection("ms", "managed_files", "managed-file-base")>>)
Migration014 == Migration(15, <<AddProperty("logging", "force_postgres_debug", "false")>>)

CoreMigrations(prefixed) ==
    {Migration001, Migration002, Migration003, SubnetPrefix(prefixed), Migration005,
     Migration004, Migration006, Migration007, Migration008, Migration009, Migration010,
     Migration011, Migration012, Migration013, Migration014}
=============================================================================
