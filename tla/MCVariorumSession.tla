-------------------------- MODULE MCVariorumSession --------------------------
(***************************************************************************)
(* Instances of VariorumSession: which builds.                             *)
(***************************************************************************)
EXTENDS VariorumSession

\* An Intel CPU with an NVIDIA GPU.
IntelWithNvidia == {<<"intel_cpu", "nvidia_gpu">>}

=============================================================================
