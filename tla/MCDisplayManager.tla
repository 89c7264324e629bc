-------------------------- MODULE MCDisplayManager --------------------------
(***************************************************************************)
(* Two pages that differ in the middle, and screens that differ from one   *)
(* of them at the edge and from the other all over.                        *)
(***************************************************************************)
EXTENDS DisplayManager

MCPages == {{}, {2}}
MCScreens == {{5}}
=============================================================================
