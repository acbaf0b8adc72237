-------------------------- MODULE InstallerPackages --------------------------
(***************************************************************************)
(* Package source preparation: the Live pacman configuration and the        *)
(* loopback mirror server (runtime-package-source.sh, setup_local_mirror    *)
(* and stop_local_mirror_server of runtime-filesystems.sh).                 *)
(***************************************************************************)
EXTENDS InstallerState

(* A copy either completes, or is cut short and ends the script. *)
Copied(from, to, source, target) ==
    \/ target' = source /\ Goto(from, to)
    \/ target' = "torn" /\ Die(from)

-----------------------------------------------------------------------------
(* confirm_package_preparation: network mode returns at once and            *)
(* setup_local_mirror never runs.                                           *)
ConfirmPackage ==
    /\ Goto("confirm_package", IF plan.local THEN "claim_mirror" ELSE "backup_conf")
    /\ TouchesNothing

(* The mountpoint must be free; ownership is published before mount. *)
ClaimMirror ==
    /\ IF mount["mirror"] = "none"
       THEN Goto("claim_mirror", "mount_mirror") /\ claim' = [claim EXCEPT !["mirror"] = TRUE]
       ELSE Die("claim_mirror") /\ UNCHANGED claim
    /\ UNCHANGED <<mount, sub, raced>>
    /\ TouchesMounts

(* Without the backups: the policy would be restored from nothing. *)
MountMirrorWithoutBackup ==
    /\ mount' = [mount EXCEPT !["mirror"] = WithOwn(@)]
    /\ IF mount["mirror"] = "none" THEN Goto("mount_mirror", "siglevel")
                                   ELSE Die("mount_mirror")
    /\ UNCHANGED <<claim, sub, raced>>
    /\ TouchesMounts

(* mount, then findmnt must report the selected source alone. *)
MountMirror ==
    /\ mount' = [mount EXCEPT !["mirror"] = WithOwn(@)]
    /\ IF mount["mirror"] = "none" THEN Goto("mount_mirror", "backup_conf")
                                   ELSE Die("mount_mirror")
    /\ UNCHANGED <<claim, sub, raced>>
    /\ TouchesMounts

(* The flag set before the backups are whole. *)
BackupConfFlagFirst ==
    /\ Copied("backup_conf", "backup_list", conf, backupConf) /\ HOST_PACMAN_CHANGED' = TRUE
    /\ UNCHANGED <<conf, list, backupList>>
    /\ TouchesHost

BackupConf ==
    /\ Copied("backup_conf", "backup_list", conf, backupConf)
    /\ UNCHANGED <<conf, list, backupList, HOST_PACMAN_CHANGED>>
    /\ TouchesHost

BackupList ==
    /\ Copied("backup_list", "set_changed", list, backupList)
    /\ UNCHANGED <<conf, list, backupConf, HOST_PACMAN_CHANGED>>
    /\ TouchesHost

SetChanged ==
    /\ Goto("set_changed", IF plan.local THEN "siglevel" ELSE "rank")
    /\ HOST_PACMAN_CHANGED' = TRUE
    /\ UNCHANGED <<conf, list, backupConf, backupList>>
    /\ TouchesHost

(* reflector ranks the mirrors and install replaces the list. *)
RankMirrors ==
    /\ \/ list' = "ranked" /\ Goto("rank", "resolve")
       \/ list' = "torn" /\ Die("rank")
    /\ UNCHANGED <<conf, backupConf, backupList, HOST_PACMAN_CHANGED>>
    /\ TouchesHost

-----------------------------------------------------------------------------
(* SigLevel = Never, then the file:// list, then the nginx bootstrap. *)
StripSigLevel ==
    /\ Goto("siglevel", "file_list") /\ conf' = "stripped"
    /\ UNCHANGED <<list, backupConf, backupList, HOST_PACMAN_CHANGED>>
    /\ TouchesHost

FileList ==
    /\ Goto("file_list", "bootstrap") /\ list' = "file"
    /\ UNCHANGED <<conf, backupConf, backupList, HOST_PACMAN_CHANGED>>
    /\ TouchesHost

Bootstrap ==
    /\ Goto("bootstrap", "start_nginx")
    /\ TouchesNothing

(* The port must be free; nginx then runs as a background child. *)
StartNginx ==
    /\ IF nginx \in {"running", "stopping"}
       THEN Die("start_nginx") /\ UNCHANGED nginx
       ELSE Goto("start_nginx", "record_nginx") /\ nginx' = "running"
    /\ UNCHANGED LOCAL_MIRROR_SERVER_RUNNING
    /\ TouchesServer

RecordNginx ==
    /\ Goto("record_nginx", "await_nginx") /\ LOCAL_MIRROR_SERVER_RUNNING' = TRUE
    /\ UNCHANGED nginx
    /\ TouchesServer

(* The readiness loop: the port answers, or the dead child is reaped.  Its  *)
(* time limit is a failure like any other (Abort).                          *)
AwaitNginx ==
    /\ \/ nginx = "running" /\ Goto("await_nginx", "restore_conf") /\ UNCHANGED nginxVars
       \/ /\ nginx = "failed" /\ Die("await_nginx")
          /\ nginx' = "reaped" /\ LOCAL_MIRROR_SERVER_RUNNING' = FALSE
    /\ TouchesServer

(* The stripped policy left in place for HTTP. *)
PolicyNotRestored ==
    /\ Goto("restore_conf", "http_list") /\ UNCHANGED hostVars
    /\ TouchesHost

RestorePolicy ==
    /\ Copied("restore_conf", "http_list", backupConf, conf)
    /\ UNCHANGED <<list, backupConf, backupList, HOST_PACMAN_CHANGED>>
    /\ TouchesHost

HttpList ==
    /\ Goto("http_list", "resolve") /\ list' = "http"
    /\ UNCHANGED <<conf, backupConf, backupList, HOST_PACMAN_CHANGED>>
    /\ TouchesHost

(* Live signing tools and the pacman -Sp resolution of the whole selection. *)
ResolvePackages ==
    /\ Goto("resolve", IF plan.secure THEN "snapshot_dir" ELSE "probe")
    /\ TouchesNothing

PackageActions ==
    \/ ConfirmPackage \/ ClaimMirror \/ MountMirror \/ BackupConf \/ BackupList
    \/ SetChanged \/ RankMirrors \/ StripSigLevel \/ FileList \/ Bootstrap
    \/ StartNginx \/ RecordNginx \/ AwaitNginx \/ RestorePolicy \/ HttpList
    \/ ResolvePackages

-----------------------------------------------------------------------------
(* stop_local_mirror_server in the main flow, one action per command; a     *)
(* status of 1 from kill or wait ends the script once the flag is cleared.  *)
AfterStop == IF plan.secure THEN "sign" ELSE "firmware"

StopKill ==
    /\ Goto("stop_kill", "stop_wait")
    /\ nginx' = IF nginx = "running" THEN "stopping" ELSE nginx
    /\ UNCHANGED LOCAL_MIRROR_SERVER_RUNNING
    /\ TouchesServer

(* wait blocks until the child has ended; its status 1 is kept in status.   *)
StopWait ==
    /\ nginx \in {"stopped", "failed"} /\ nginx' = "reaped"
    /\ pc = "stop_wait" /\ pc' = "stop_clear" /\ idx' = 1
    /\ status' = IF nginx = "failed" THEN 1 ELSE 0
    /\ UNCHANGED LOCAL_MIRROR_SERVER_RUNNING
    /\ TouchesServer

StopClear ==
    /\ IF status = 0 THEN Goto("stop_clear", AfterStop) ELSE Die("stop_clear")
    /\ LOCAL_MIRROR_SERVER_RUNNING' = FALSE /\ UNCHANGED nginx
    /\ TouchesServer

StopActions == StopKill \/ StopWait \/ StopClear
=============================================================================
