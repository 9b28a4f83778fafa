------------------------------ MODULE MCScripts ------------------------------
(* Scripts for TLC.                                                        *)
EXTENDS Scripts

(* All scripts but those that meet in a file.                              *)
Apart == DOMAIN Script \ {"cooperation", "dataTransfer"}

(* The scripts whose "state" prints what was set.                          *)
Telling == {s \in Apart : Script[s].shows # "nothing"}
             \ {"kwin", "licenseAgent", "licenseAppgui", "licenseCmd", "licenseGui",
                "supportAgent", "supportGui"}
=============================================================================
