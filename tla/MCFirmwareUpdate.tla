-------------------------- MODULE MCFirmwareUpdate --------------------------
(***************************************************************************)
(* Model checking FirmwareUpdate with releases of up to three images.      *)
(***************************************************************************)
EXTENDS FirmwareUpdate

Good(p) == [part |-> p, good |-> TRUE]
Bad(p) == [part |-> p, good |-> FALSE]

\* A sound release, one whose root file system is bad, one that goes on with
\* something unknown, one that begins with it, one with two sections of settings,
\* and one with settings before bad web pages.
AllReleases ==
    { <<Good("kernel"), Good("root")>>,
      <<Good("kernel"), Bad("root")>>,
      <<Good("kernel"), Good("other"), Good("root")>>,
      <<Good("other"), Good("kernel")>>,
      <<Good("default"), Good("current"), Good("root")>>,
      <<Good("current"), Bad("web")>> }
=============================================================================
