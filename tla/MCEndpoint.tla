----------------------------- MODULE MCEndpoint -----------------------------
(***************************************************************************)
(* Instances of Endpoint for TLC: two invocations, of tasks that get in    *)
(* each other's way.  Invocations are interchangeable.                     *)
(***************************************************************************)
EXTENDS Endpoint, TLC

Task(m, w, c) == [module |-> m, want |-> w, check |-> c]

SomeTasks ==
    {Task("amt_power", "sleep-deep", FALSE), Task("amt_power", "off", FALSE),
     Task("amt_power", "cycle", FALSE), Task("amt_power", "on", FALSE),
     Task("amt_power", "reset", TRUE), Task("amt_redirection", "ider", FALSE),
     Task("amt_redirection", "disabled", FALSE), Task("amt_boot", "pxe", FALSE),
     Task("amt_boot", "bios", FALSE), Task("amt_boot", "ider_cdrom", FALSE),
     Task("amt_boot", "pxe", TRUE)}

Machine(fields, sources, p, e) ==
    [caps |-> [fields |-> fields, sources |-> sources], power |-> p, enabled |-> e]

\* One that can do all that is asked, and one without IDE-R and a PXE source.
SomeEndpoints ==
    {Machine({"IDER", "SOL", "BIOSSetup", "ForcePXEBoot"}, {"pxe", "hdd"},
             "off_soft", "all"),
     Machine({"SOL", "BIOSSetup", "ForcePXEBoot"}, {"hdd"}, "unknown", "other")}

Symmetry == Permutations(Callers)
=============================================================================
