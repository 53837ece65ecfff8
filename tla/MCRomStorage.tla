---------------------------- MODULE MCRomStorage ----------------------------
(***************************************************************************)
(* RomStorage on a small cartridge.                                        *)
(***************************************************************************)
EXTENDS RomStorage, TLC

\* Two names, in directory order.
MCNames == {1, 2}
MCRomSizes == {1, 2}

\* Images are interchangeable: the code never looks at ROM data.
ImageSymmetry == Permutations(Images)

(***************************************************************************)
(* Everything but saves and the two history variables.  No guard and no    *)
(* other variable's next value reads them, and the properties of the run   *)
(* that uses this view are about the ROMs alone.                           *)
(***************************************************************************)
RestartsView ==
  <<flash, files, indexVars, transferVars, fileName, noInitVars, loaded, served, pc>>
=============================================================================
