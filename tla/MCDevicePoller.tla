--------------------------- MODULE MCDevicePoller ---------------------------
(***************************************************************************)
(* Instances of DevicePoller.  Two panels are needed for the record of one *)
(* to spoil the batch of the other; a third would behave as the second.    *)
(***************************************************************************)
EXTENDS DevicePoller

CONSTANTS p1, p2

Case(k, f) == [known |-> k, faults |-> f]

\* The faults whose absence the properties are about are left out in turn.
SafetyCases ==
  { Case({p1}, {"stop", "store", "auth"}),
    Case({p1}, {"stop", "net", "auth", "reboot", "garbled"}),
    Case({p1, p2}, {"stop", "net", "garbled"}),
    Case({}, {"stop", "net"}) }
=============================================================================
