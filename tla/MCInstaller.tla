---------------------------- MODULE MCInstaller ----------------------------
(***************************************************************************)
(* Values for the constants of Installer.  One installer at a time never   *)
(* has more than four inodes in use: two names as seen and two on disk.    *)
(***************************************************************************)
EXTENDS Installer

MCInodes == 1 .. 4
=============================================================================
