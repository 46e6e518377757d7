--------------------------- MODULE MCKernelReader ---------------------------
(***************************************************************************)
(* Instances of KernelReader: the processes of the handover at boot.       *)
(***************************************************************************)
EXTENDS KernelReader

CONSTANTS boot, normal

=============================================================================
