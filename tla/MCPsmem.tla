------------------------------ MODULE MCPsmem ------------------------------
(***************************************************************************)
(* Small instances of Psmem for TLC: a region of 16 bytes at address 32,   *)
(* completions of at most 8 bytes, a length field of 8 values.  Addresses  *)
(* from 40 on need the long header.                                        *)
(***************************************************************************)
EXTENDS Psmem

Base == 32

\* Addresses before, in and after the region.
AroundRegion == Base - 2 .. Base + 17
FirstDw      == Base .. Base + 4

Counts1to17 == 1 .. 17
Counts1to9  == 1 .. 9

\* The instances are in the scope of the theorems that need orderly use.
ASSUME OrderlyInstance == OrderlyUse
=============================================================================
