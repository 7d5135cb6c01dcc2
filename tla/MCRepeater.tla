----------------------------- MODULE MCRepeater -----------------------------
(***************************************************************************)
(* Model checking Repeater: two networks the survey can show, so that each *)
(* radio may hear either, both or none.                                    *)
(***************************************************************************)
EXTENDS Repeater

Air == {"home", "shop"}
WithBlank == {}
=============================================================================
