----------------------------- MODULE TargetSystem -----------------------------
(***************************************************************************)
(* What the generated script makes of the settings and packages it was      *)
(* generated from: the package source, the early resolution, the base       *)
(* installation, and the chroot script, which runs under set -e.  Storage,  *)
(* signing, firmware and cleanup are Installer's.                           *)
(***************************************************************************)
EXTENDS SettingsPages

VARIABLES
    installed,   \* groups whose packages are in the target
    erased,      \* the disks have been written to
    initramfs,   \* "none", "fresh", or "stale": older than what it is built from
    mirrors,     \* the mirror list of the Live system, then of the target
    entry        \* the files a loader entry names, by the groups that bring them

targetVars == <<installed, erased, initramfs, mirrors, entry>>

TargetInit == installed = {} /\ erased = FALSE /\ initramfs = "none" /\ mirrors = "live" /\ entry = {}

(* The emitted constants of the script. *)
System == script_file.settings
On(flag) == flag \in System.on
Empty   == script_file.packages.empty
Unknown == script_file.packages.unknown

Has(group) == group \in installed

LiveSteps   == {"sources", "signing", "resolve", "erase", "base"}
ChrootSteps == {"identity", "core", "drivers", "desktop", "fonts", "optional", "initramfs",
                "loader", "units", "account", "mirrors"}
Steps       == LiveSteps \cup ChrootSteps

-----------------------------------------------------------------------------
(* The groups whose packages have the units configure_system enables. *)
UnitGroups ==
    {"core"} \cup Only(On("bluetooth"), {"bluetooth"}) \cup Only(On("laptop"), {"laptop_tools"})
    \cup Only(On("firewall"), {"firewall"}) \cup Only(On("printer"), {"printer"})
    \cup DesktopGroup(System.desktop)

Unresolved(groups)   == groups \cap Unknown # {}
Unobtainable(groups) == Unresolved(groups) \/ groups \subseteq Empty

(* What makes a command of a step fail for certain, whatever the network    *)
(* and the operator do: pacman does not know a package, a package list that *)
(* must not be empty is, or a file, unit, command or account is not as the  *)
(* command needs it.  `base` has pacman, and kernels pull in mkinitcpio.    *)
Obstructed(step) ==
    \/ step = "sources" /\ On("local_mirror") /\ "local_mirror_live" \in Empty \cup Unknown
    \/ step = "signing" /\ On("secure_boot") /\ "secure_boot_live" \in Empty \cup Unknown
    \/ step = "resolve" /\ Unobtainable(RequiredGroups(System))
    \/ step = "base" /\ Unobtainable(BaseGroups(System))
    \/ step = "identity" /\ ~Has("bootstrap")
    \/ step = "core" /\ Unresolved(CoreGroups(System))
    \/ step = "drivers" /\ \/ Unresolved(DriverGroups(System))
                           \/ On("nvidia_graphics") /\ ~Has(KernelGroups[System.kernel])
    \/ step = "desktop" /\ Unresolved(DesktopGroups(System))
    \/ step = "fonts" /\ Unresolved({"fonts"})
    \/ step = "optional" /\ Unresolved(OptionalGroups(System))
    \/ step = "initramfs" /\ ~Has(KernelGroups[System.kernel])
    \/ step = "units" /\ ~(UnitGroups \subseteq installed)
    \/ step = "account" /\ (~Has("core") \/ System.identity = "taken")

Step(from, to) ==
    /\ Goes(from, to) /\ ~Obstructed(from)
    /\ UNCHANGED <<captureVars, mode, configVars, fileVars, plan, devices, inventory, sessionVars>>
Installs(groups) == installed' = installed \cup (groups \ Empty)

-----------------------------------------------------------------------------
(* prepare_package_source: the ranked list of reflector, or the loopback    *)
(* server with the packages it needs; the signing tools; then the one check *)
(* of every required package before the disks are touched.                  *)
SelectSource ==
    /\ Step("sources", "signing")
    /\ mirrors' = IF On("local_mirror") THEN "loopback" ELSE "ranked"
    /\ UNCHANGED <<installed, erased, initramfs, entry>>
InstallSigningTools == Step("signing", "resolve") /\ UNCHANGED targetVars
ResolvePackages     == Step("resolve", "erase") /\ UNCHANGED targetVars

(* The destructive part, one step here. *)
PrepareStorage ==
    /\ Step("erase", "base") /\ erased' = TRUE
    /\ UNCHANGED <<installed, initramfs, mirrors, entry>>

(* install_base_system: pacstrap takes the mirror list of the Live system   *)
(* over, and the hook of mkinitcpio builds a first initramfs.               *)
InstallBaseSystem ==
    /\ Step("base", "identity") /\ Installs(BaseGroups(System))
    /\ initramfs' = IF KernelGroups[System.kernel] \in Empty THEN "none" ELSE "fresh"
    /\ UNCHANGED <<erased, mirrors, entry>>

(* configure_base, with three tries for the password of root. *)
ConfigureBase == Step("identity", "core") /\ UNCHANGED targetVars

InstallCorePackages ==
    Step("core", "drivers") /\ Installs(CoreGroups(System)) /\ UNCHANGED <<erased, initramfs, mirrors, entry>>

(* install_drivers changes mkinitcpio.conf before it installs the NVIDIA    *)
(* modules that belong in the initramfs; a hook may rebuild it then.        *)
InstallDrivers ==
    /\ Step("drivers", "desktop") /\ Installs(DriverGroups(System))
    /\ initramfs' \in IF On("nvidia_graphics") THEN {"stale", "fresh"} ELSE {initramfs}
    /\ UNCHANGED <<erased, mirrors, entry>>

InstallDesktop ==
    Step("desktop", "fonts") /\ Installs(DesktopGroups(System)) /\ UNCHANGED <<erased, initramfs, mirrors, entry>>
InstallFonts ==
    Step("fonts", "optional") /\ Installs({"fonts"}) /\ UNCHANGED <<erased, initramfs, mirrors, entry>>
InstallOptionalSoftware ==
    Step("optional", "initramfs") /\ Installs(OptionalGroups(System)) /\ UNCHANGED <<erased, initramfs, mirrors, entry>>

SkipRebuild == Step("initramfs", "loader") /\ UNCHANGED targetVars

(* mkinitcpio -P. *)
RebuildInitramfs ==
    Step("initramfs", "loader") /\ initramfs' = "fresh" /\ UNCHANGED <<installed, erased, mirrors, entry>>

(* configure_bootloader: both entries name the kernel, its initramfs and,   *)
(* on a physical CPU, the microcode image.                                  *)
ConfigureBootloader ==
    /\ Step("loader", "units")
    /\ entry' = KernelGroup(System.kernel) \cup PlatformGroup(System.platform)
    /\ UNCHANGED <<installed, erased, initramfs, mirrors>>

(* configure_system: units, then the account with its shell and password. *)
EnableUnits   == Step("units", "account") /\ UNCHANGED targetVars
CreateAccount == Step("account", "mirrors") /\ UNCHANGED targetVars

ConfigureMirrors ==
    /\ Step("mirrors", "finished")
    /\ mirrors' = IF On("china_mirrors") THEN "china" ELSE mirrors
    /\ UNCHANGED <<installed, erased, initramfs, entry>>

(* An obstacle ends the script, and so may anything else: the network, the  *)
(* disks, a full file system, three wrong passwords, the operator, or fonts *)
(* emptied with no other package that makes /etc/fonts.                     *)
Refuse ==
    /\ at \in Steps /\ Obstructed(at)
    /\ at' = IF erased THEN "refused_late" ELSE "refused_early"
    /\ UNCHANGED <<captureVars, mode, configVars, fileVars, plan, devices, inventory, sessionVars, targetVars>>
Fail ==
    /\ at \in Steps /\ at' = "failed"
    /\ UNCHANGED <<captureVars, mode, configVars, fileVars, plan, devices, inventory, sessionVars, targetVars>>

TargetNext ==
    \/ SelectSource \/ InstallSigningTools \/ ResolvePackages \/ PrepareStorage
    \/ InstallBaseSystem \/ ConfigureBase \/ InstallCorePackages \/ InstallDrivers
    \/ InstallDesktop \/ InstallFonts \/ InstallOptionalSoftware \/ RebuildInitramfs
    \/ ConfigureBootloader \/ EnableUnits \/ CreateAccount \/ ConfigureMirrors
    \/ Refuse \/ Fail
=============================================================================
