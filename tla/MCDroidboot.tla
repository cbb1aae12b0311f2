---------------------------- MODULE MCDroidboot ----------------------------
(* Droidboot on a small disk: the sdcard volume is emulated on the data   *)
(* partition (so provisioning checks data in place and erases cache), and *)
(* it declares a secondary device of its own.                             *)
EXTENDS Droidboot

MCDevices == {"mmc_cache", "mmc_data", "sd_whole"}
MCCacheDevice == "mmc_cache"
MCDataDevice == "mmc_data"
MCVolDevice == "mmc_data"
MCVolDevice2 == "sd_whole"

(* A recovery.fstab whose sdcard entry names a real sdcard, with the     *)
(* data partition declared as its secondary device.                       *)
MCVolDevice2OnData == "mmc_data"
MCVolDeviceCard == "sd_whole"
=============================================================================
