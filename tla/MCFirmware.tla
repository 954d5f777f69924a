----------------------------- MODULE MCFirmware -----------------------------
(***************************************************************************)
(* Properties of the installation of a firmware, for small instances.      *)
(***************************************************************************)
EXTENDS FirmwareUpdate

\* The link points to a version all of whose files are those of its package, at
\* every moment: the device may lose power now and must boot then.
\* cleanFirmwareFile (upgrade.lua:495) removes versions "that will not be used".
LinkComplete == link # None => Complete(link)

\* At every moment some version on the flash is complete, even while there is no
\* link: the device can be repaired from what it holds.
SomeComplete == \E v \in Versions : Complete(v)

\* Users who try again end up with the version they want, however often the
\* installation was interrupted, unless it was interrupted between the removal
\* of the link and the creation of the new one.
Upgraded == \A v \in Versions : <>(link = v \/ ~Bootable)
=============================================================================
