-------------------------- MODULE MCVendorFeatures --------------------------
(***************************************************************************)
(* Two sockets, three cores and five GPUs, so that both divisions leave a  *)
(* rest; a request under the ceiling and one well above it.                *)
(***************************************************************************)
EXTENDS VendorFeatures

MCRequests == {2, 12}
=============================================================================
