---------------------------- MODULE MCRadioProbe ----------------------------
(* The option sets of the documented probes, each extending the one before *)
(* it, two that are refused, and the baselines that differ from the clean  *)
(* one in a single register.                                               *)
EXTENDS RadioProbe

Ready ==
  {"cycle", "force_active", "snapshot", "prepare_port", "inspect_prefix",
   "test_refclk", "inspect_rc", "inspect_dart"}

Trained == Ready \cup {"pulse_radio", "train_link"}

Scanned == Trained \cup {"identify_endpoint", "scan_pci"}

Msi == Scanned \cup {"scan_iommu", "scan_msi"}

Firmware == Msi \cup {"assign_memory", "bind_firmware"}

MCOptionSets ==
  { {}, {"cycle"}, {"cycle", "force_active"}, {"cycle", "snapshot"},
    Ready \cup {"probe_msi"},
    Ready \cup {"probe_dart", "map_dart"}, Ready \cup {"pulse_radio"},
    Trained \cup {"identify_endpoint", "identify_chip"}, Scanned,
    Firmware \cup {"hold_seconds"}, Firmware \cup {"hold_until_signal"},
    {"train_link"} }

Session == { Firmware \cup {"hold_until_signal"} }

MCBaselines ==
  { Clean, [Clean EXCEPT !.bus = "set"], [Clean EXCEPT !.pmu = "on"] }

OnlyClean == { Clean }
=============================================================================
