------------------------------ MODULE PciConfig ------------------------------
(***************************************************************************)
(* Configuration space as a1625_pci_scan lends it to the PCI core and the  *)
(* Wi-Fi driver: the table of saved controls, the policy on writes         *)
(* (a1625_scan_write), and the restoration.                                *)
(*                                                                         *)
(* A register is <<bus, name>>, bus 0 being the root port and bus 1 the    *)
(* radio; "other" stands for all that is not listed.  A written value is   *)
(* "plain" or the "danger" the policy looks for in that register: bus      *)
(* mastering (cmd), other bus numbers (bus), a bus reset (bridge), the ROM *)
(* enabled (rom), a sleep state (pm), the link disabled (lnkctl, linkword),*)
(* an address outside the chip (window), another command (mailbox), or a   *)
(* value that does not just acknowledge (secstatus).                       *)
(***************************************************************************)
EXTENDS Integers

VARIABLES
  saved,           \* the registers in the table of controls
  dirty,           \* registers that do not hold the value found
  master,          \* buses whose device has bus mastering enabled
  rejected         \* scan.rejected

Common == {"pm", "devctl2", "lnkctl", "l1ss1", "l1ss2"}

RootWindows == {"memory", "prefbase", "preflimit", "iohigh"}

Firmware == {"window", "dc", "228", "4e0", "4f4"}

\* What the endpoint's MSI capability has beyond flags, address and data.
MsiRegs(caps) == {<<1, name>> : name \in {"msiflags", "msilow", "msidata"} \cup caps}

\* Registers kept in variables of a1625_pci_scan rather than in the table.
Named ==
  {<<b, name>> : b \in {0, 1}, name \in {"cmd", "bar", "rom"}}
    \cup {<<0, "bus">>, <<0, "bridge">>}

Commands == {<<0, "secstatus">>, <<1, "mailbox">>}

Regs ==
  Named \cup Commands
    \cup {<<b, name>> : b \in {0, 1}, name \in Common \cup {"other"}}
    \cup {<<0, name>> : name \in RootWindows \cup {"io", "pref"}}
    \cup {<<1, name>> : name \in Firmware \cup {"linkword"}}
    \cup MsiRegs({"msihigh", "msimask"})

ConfigTypeOK ==
  /\ saved \subseteq Regs /\ dirty \subseteq Regs
  /\ master \subseteq {0, 1}
  /\ rejected \in BOOLEAN

ConfigInit == saved = {} /\ dirty = {} /\ master = {} /\ rejected = FALSE

-----------------------------------------------------------------------------
\* Mutated: one register of the watchdog replay is forgotten.
ForgetReplayed(opts, caps) ==
  {<<b, name>> : b \in {0, 1}, name \in Common}
    \cup {<<0, "io">>, <<0, "pref">>}
    \cup (IF "memory" \in opts THEN {<<0, name>> : name \in RootWindows} ELSE {})
    \cup (IF "msi" \in opts THEN MsiRegs(caps) ELSE {})
    \cup (IF "firmware" \in opts
            THEN {<<1, name>> : name \in Firmware \ {"4f4"}} ELSE {})

\* Mutated: one register more is saved on each bus.
SaveOneMore(opts, caps) ==
  {<<b, name>> : b \in {0, 1}, name \in Common}
    \cup {<<0, "io">>, <<0, "pref">>, <<1, "linkword">>}
    \cup (IF "memory" \in opts THEN {<<0, name>> : name \in RootWindows} ELSE {})
    \cup (IF "msi" \in opts THEN MsiRegs(caps) ELSE {})
    \cup (IF "firmware" \in opts THEN {<<1, name>> : name \in Firmware} ELSE {})

\* a1625_scan_save_controls: what the options and the capabilities ask for.
Controls(opts, caps) ==
  {<<b, name>> : b \in {0, 1}, name \in Common}
    \cup {<<0, "io">>, <<0, "pref">>}
    \cup (IF "memory" \in opts THEN {<<0, name>> : name \in RootWindows} ELSE {})
    \cup (IF "msi" \in opts THEN MsiRegs(caps) ELSE {})
    \cup (IF "firmware" \in opts THEN {<<1, name>> : name \in Firmware} ELSE {})

Save(opts, caps) ==
  /\ saved' = Controls(opts, caps)
  /\ UNCHANGED <<dirty, master, rejected>>

\* The policy; active is scan.firmware_active.
Allowed(active, reg, value) ==
  \/ reg[2] = "bar"
  \/ reg \in Named /\ value = "plain"
  \/ reg[2] = "cmd" /\ active
  \/ reg \in saved /\ reg[2] \notin {"pm", "lnkctl", "window"}
  \/ reg \in saved /\ value = "plain"
  \/ reg \in saved /\ reg[2] = "window" /\ ~active
  \/ reg \in {<<1, "linkword">>, <<1, "mailbox">>} /\ active /\ value = "plain"
  \/ reg = <<0, "secstatus">> /\ value = "plain"

\* Of the dword of link control and status only the control is written.
Target(reg) == IF reg = <<1, "linkword">> THEN <<1, "lnkctl">> ELSE reg

Masters(reg, value) ==
  IF reg[2] # "cmd" THEN master
  ELSE IF value = "danger" THEN master \cup {reg[1]} ELSE master \ {reg[1]}

\* a1625_scan_write.
Write(active, reg, value) ==
  /\ IF Allowed(active, reg, value)
       THEN /\ dirty' = dirty \cup ({Target(reg)} \ Commands)
            /\ master' = Masters(reg, value)
            /\ UNCHANGED rejected
       ELSE /\ rejected' = TRUE
            /\ UNCHANGED <<dirty, master>>
  /\ UNCHANGED saved

\* Writes that the policy lets through whole, such as an MSI set-up.
WriteAll(regs) ==
  /\ IF \A r \in regs : Allowed(TRUE, r, "plain")
       THEN dirty' = dirty \cup regs /\ UNCHANGED rejected
       ELSE rejected' = TRUE /\ UNCHANGED dirty
  /\ UNCHANGED <<saved, master>>

\* External: the driver's watchdog replay writes these through the chip's
\* own window (CONFIGADDR and CONFIGDATA), past the policy.
Replayed(caps) ==
  MsiRegs(caps \ {"msimask"})
    \cup {<<1, name>> : name \in {"cmd", "pm", "l1ss1", "l1ss2"} \cup (Firmware \ {"window"})}

Replay(reg) ==
  /\ dirty' = dirty \cup {reg}
  /\ UNCHANGED <<saved, master, rejected>>

\* pci_clear_master on the endpoint.
ClearMaster ==
  /\ master' = master \ {1}
  /\ UNCHANGED <<saved, dirty, rejected>>

\* The table and then the named registers are written back and compared;
\* those in stuck do not take their old value.
Restore(stuck) ==
  /\ dirty' = (dirty \ (saved \cup Named)) \cup stuck
  /\ master' = {b \in master : <<b, "cmd">> \in stuck}
  /\ UNCHANGED <<saved, rejected>>
=============================================================================
