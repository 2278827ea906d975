--------------------------- MODULE MCChangeAlerts ---------------------------
(***************************************************************************)
(* ChangeAlerts on small instances.                                        *)
(***************************************************************************)
EXTENDS ChangeAlerts

MCSignatures == {[clue |-> "camera module", severity |-> "medium"]}

\* Rules like those of identity_rules.yaml: a vendor, two kinds of device, and
\* a service that only supports them.
MCRules ==
  << [when |-> {"vendor"}, weight |-> 15, asserts |-> [manufacturer |-> "HP"]],
     [when |-> {"phone name"}, weight |-> 30, asserts |-> [category |-> "Phone"]],
     [when |-> {"printing"}, weight |-> 30, asserts |-> [category |-> "Printer"]],
     [when |-> {"vendor", "printing"}, weight |-> 20,
      asserts |-> [manufacturer |-> "HP", category |-> "Printer"]] >>

MCPhone == {"vendor", "phone name"}
\* Prints, has the name of a phone, and a module that rogue devices use.
MCPrinter == {"vendor", "printing", "phone name", "camera module"}

MCProfiles == {MCPhone, MCPrinter}
MCArounds == {{}, {"dhcp_server", "lingering"}}

\* A trusted phone, a trusted printer, and the printer of a stranger who stays.
MCBeginnings ==
  {[trusted |-> TRUE, clues |-> MCPhone, offers |-> {}, around |-> {}],
   [trusted |-> TRUE, clues |-> MCPrinter, offers |-> {"http"}, around |-> {}],
   [trusted |-> FALSE, clues |-> MCPrinter, offers |-> {},
    around |-> {"dhcp_server", "lingering"}]}

MCIncidents == [type : {"new_device", "disconnected", "reappeared"}, grave : {TRUE}]

=============================================================================
