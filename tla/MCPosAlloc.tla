------------------------------ MODULE MCPosAlloc ------------------------------
(* The allocator on a heap of a few granules; the configuration gives the    *)
(* sizes.  Callers respect the allocator's own assumptions.                   *)
EXTENDS PosAlloc

ASSUME SaneRequests
=============================================================================
