---------------------------- MODULE MC_AppResources ----------------------------
(* Instances of AppResources for TLC.                                        *)
EXTENDS AppResources

================================================================================
