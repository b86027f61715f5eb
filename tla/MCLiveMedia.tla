---------------------------- MODULE MCLiveMedia ----------------------------
(* A class of two that is split into two groups of one; one of the pupils   *)
(* has the page of the lesson open.                                        *)
EXTENDS LiveMedia

MCSizes == {1}
MCCallers == {1}
MCKinds == {"split", "gather", "end", "remove"}
=============================================================================
