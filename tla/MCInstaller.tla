---------------------------- MODULE MCInstaller ----------------------------
(***************************************************************************)
(* Instances of Installer: three of the four files (the arguments are a    *)
(* second text file, handled like the list), or the first two.             *)
(***************************************************************************)
EXTENDS Installer, TLC

ThreeFiles == <<"controls", "list", "proxy">>
TwoDlls == {"controls", "proxy"}

MCOrder == <<"controls", "list">>
MCDlls == {"controls"}
Symmetry == Permutations(Installers)
=============================================================================
