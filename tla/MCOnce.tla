------------------------------- MODULE MCOnce -------------------------------
(***************************************************************************)
(* The instance of Once for TLC.  Two thermal zones and two hwmon inputs,  *)
(* of which one may fail when the other was read, and one GPU.             *)
(***************************************************************************)
EXTENDS Once

Backends == <<"sysfs", "hwmon", "nvidia">>
Machine  == [b \in {"sysfs", "hwmon", "nvidia"} |->
               CASE b = "sysfs"  -> {"zone0", "zone1"}
                 [] b = "hwmon"  -> {"cpu", "wifi"}
                 [] b = "nvidia" -> {"gpu0"}]
=============================================================================
