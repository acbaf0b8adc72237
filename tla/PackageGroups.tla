---------------------------- MODULE PackageGroups ----------------------------
(***************************************************************************)
(* The mapping from the settings of a plan to package groups (packages.c)   *)
(* and the previews of the settings pages.  The settings are the platform,  *)
(* kernel and desktop of SystemPlan and the set `on` of its enabled flags.  *)
(***************************************************************************)
EXTENDS Naturals

Platforms == {"intel", "amd", "vm"}
Kernels   == {"linux", "lts", "zen", "hardened"}
Desktops  == {"kde", "gnome", "hyprland", "none"}
Identities == {"good", "bad", "taken"}   \* taken: see Startup!ValidSettings

(* Flags that stand for packages of their own, whatever else is selected,   *)
(* and the group a preview shows for them.                                  *)
OwnGroup ==
    [intel_graphics |-> "intel_graphics", nvidia_graphics |-> "nvidia_graphics",
     bluetooth |-> "bluetooth", firewall |-> "firewall", printer |-> "printer",
     archive_tools |-> "archive_tools", terminal_tools |-> "terminal_tools",
     extra_tools |-> "extra_tools", desktop_apps |-> "desktop_apps"]

Flags == DOMAIN OwnGroup \cup
    {"laptop", "desktop_recommended", "chinese_input", "local_mirror", "china_mirrors",
     "secure_boot", "create_efi_entry"}

KernelGroups == [linux |-> "kernel_linux", lts |-> "kernel_lts", zen |-> "kernel_zen",
                 hardened |-> "kernel_hardened"]

Groups == {"bootstrap", "core", "laptop_firmware", "laptop_tools", "gnome_laptop", "kde",
           "kde_recommended", "fcitx", "gnome", "gnome_recommended", "ibus", "hyprland",
           "fonts", "platform_intel", "platform_amd", "local_mirror_live", "secure_boot_live"}
    \cup {OwnGroup[f] : f \in DOMAIN OwnGroup} \cup {KernelGroups[k] : k \in Kernels}

(* The settings of SystemPlan that packages depend on. *)
Settings ==
    [platform : Platforms, kernel : Kernels, desktop : Desktops, identity : Identities, on : SUBSET Flags]

LiveGroups  == {"local_mirror_live", "secure_boot_live"}
FixedGroups == {"bootstrap", "core", "fonts"}

Only(condition, groups) == IF condition THEN groups ELSE {}

KernelGroup(kernel) == {KernelGroups[kernel]}
PlatformGroup(platform) ==
    Only(platform = "intel", {"platform_intel"}) \cup Only(platform = "amd", {"platform_amd"})
DesktopGroup(desktop) == {desktop} \ {"none"}
RecommendedGroup(desktop) ==
    Only(desktop = "kde", {"kde_recommended"}) \cup Only(desktop = "gnome", {"gnome_recommended"})
InputGroupTwo(desktop) == Only(desktop = "gnome", {"ibus"}) \cup Only(desktop = "kde", {"fcitx"})
InputGroup(desktop) ==
    Only(desktop = "gnome", {"ibus"}) \cup Only(desktop \in {"kde", "hyprland"}, {"fcitx"})

LaptopFirmware(s) == Only("laptop" \in s.on, {"laptop_firmware", "laptop_tools"})
LaptopGroups(s) ==
    LaptopFirmware(s) \cup Only(s.desktop = "gnome" /\ "laptop" \in s.on, {"gnome_laptop"})

(* packages_collect_required_groups. *)
RequiredGroups(s) ==
    FixedGroups \cup KernelGroup(s.kernel) \cup PlatformGroup(s.platform)
    \cup {OwnGroup[f] : f \in s.on \cap DOMAIN OwnGroup}
    \cup LaptopGroups(s) \cup DesktopGroup(s.desktop)
    \cup Only("desktop_recommended" \in s.on, RecommendedGroup(s.desktop))
    \cup Only("chinese_input" \in s.on, InputGroup(s.desktop))
    \cup Only("local_mirror" \in s.on, {"local_mirror_live"})
    \cup Only("secure_boot" \in s.on, {"secure_boot_live"})

(* The rows of the settings pages that Enter previews, and what it shows.   *)
(* A row shows the packages of its selection even while it is off, except   *)
(* laptop mode and the local mirror.                                        *)
PreviewRows == {"platform", "kernel", "desktop", "laptop", "desktop_recommended",
                "chinese_input", "local_mirror", "secure_boot"} \cup DOMAIN OwnGroup

Preview(row, s) ==
    Only(row = "platform", PlatformGroup(s.platform))
    \cup Only(row = "kernel", KernelGroup(s.kernel))
    \cup Only(row = "desktop", DesktopGroup(s.desktop))
    \cup Only(row = "laptop" /\ "laptop" \in s.on,
              {"laptop_firmware", "laptop_tools"} \cup Only(s.desktop = "gnome", {"gnome_laptop"}))
    \cup Only(row = "desktop_recommended", RecommendedGroup(s.desktop))
    \cup Only(row = "chinese_input", InputGroup(s.desktop))
    \cup Only(row = "local_mirror" /\ "local_mirror" \in s.on, {"local_mirror_live"})
    \cup Only(row = "secure_boot", {"secure_boot_live"})
    \cup {OwnGroup[f] : f \in DOMAIN OwnGroup \cap {row}}

(* What the operator has seen who opens the preview of every selected row.  *)
Shown(s) ==
    UNION {Preview(row, s) : row \in {"platform", "kernel", "desktop"} \cup (PreviewRows \cap s.on)}

(* The groups the script installs, by the functions that install them.      *)
BaseGroups(s) ==
    {"bootstrap"} \cup KernelGroup(s.kernel) \cup PlatformGroup(s.platform)
    \cup Only("laptop" \in s.on, {"laptop_firmware"})
CoreGroups(s)   == {"core"} \cup Only("laptop" \in s.on, {"laptop_tools"})
DriverGroups(s) == {OwnGroup[f] : f \in s.on \cap {"intel_graphics", "nvidia_graphics", "bluetooth"}}
DesktopGroups(s) ==
    Only(s.desktop = "kde",
        {"kde"} \cup Only("desktop_recommended" \in s.on, {"kde_recommended"})
                \cup Only("chinese_input" \in s.on, {"fcitx"}))
    \cup Only(s.desktop = "gnome",
        {"gnome"} \cup Only("laptop" \in s.on, {"gnome_laptop"})
                  \cup Only("desktop_recommended" \in s.on, {"gnome_recommended"})
                  \cup Only("chinese_input" \in s.on, {"ibus"}))
    \cup Only(s.desktop = "hyprland",
        {"hyprland"} \cup Only("chinese_input" \in s.on, {"fcitx"}))
OptionalGroups(s) ==
    {OwnGroup[f] : f \in s.on \cap {"firewall", "printer", "archive_tools",
                                     "terminal_tools", "extra_tools", "desktop_apps"}}

(* The default plan of plan_init. *)
DefaultSystem ==
    [platform |-> "intel", kernel |-> "linux", desktop |-> "kde", identity |-> "good",
     on |-> {"desktop_recommended", "archive_tools", "terminal_tools", "china_mirrors",
             "create_efi_entry"}]
=============================================================================
