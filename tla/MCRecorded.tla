---------------------------- MODULE MCRecorded ----------------------------
(***************************************************************************)
(* A small calendar and a machine for Recorded: a zone named like a chip,  *)
(* two NVMe drives, a device without a name whose inputs have no label, a  *)
(* label and a chip that read like the default ones, a device with a colon *)
(* in its name and one whose label goes on like it, GPUs of one model.     *)
(***************************************************************************)
EXTENDS Recorded

T(y, s, m, u, n) == [year |-> y, second |-> s, milli |-> m, micro |-> u, nano |-> n]

MCTimes ==
    { T(2024, 1, 0, 0, 0),     T(2024, 1, 500, 0, 0), T(2024, 1, 500, 250, 0),
      T(2024, 1, 500, 250, 1), T(2024, 1, 0, 0, 7),   T(2024, 2, 0, 0, 0),
      T(-1, 2, 0, 0, 0),       T(0, 0, 0, 0, 0),      T(9999, 2, 999, 0, 0),
      T(10000, 0, 0, 0, 0),    T(10000, 0, 0, 1, 0) }

MCWords ==
    { "thermal_zone0", "hwmon1", "hwmon2", "hwmon3", "hwmon4", "hwmon5", "hwmon6",
      "nvme", "ucsi", "Composite", "temp", "0", "1", "2", "3", "A4000", ":" }

Hwmon(dir, chip, id, label) ==
    [kind |-> "hwmon", dir |-> dir, chip |-> chip, id |-> id, label |-> label]

MCFound ==
    { [kind |-> "zone", dir |-> "thermal_zone0", type |-> <<"nvme">>],
      Hwmon("hwmon1", <<"nvme">>, "1", <<"Composite">>),
      Hwmon("hwmon2", <<"nvme">>, "1", <<"Composite">>),
      Hwmon("hwmon3", <<>>, "1", <<>>),
      Hwmon("hwmon3", <<>>, "2", <<>>),
      Hwmon("hwmon3", <<>>, "3", <<"temp", "2">>),
      Hwmon("hwmon4", <<"hwmon3">>, "1", <<"temp", "1">>),
      Hwmon("hwmon5", <<"ucsi", ":", "1">>, "1", <<"Composite">>),
      Hwmon("hwmon6", <<"ucsi">>, "1", <<"1", ":", "Composite">>),
      [kind |-> "gpu", id |-> "0", type |-> <<"A4000">>],
      [kind |-> "gpu", id |-> "1", type |-> <<"A4000">>] }
=============================================================================
