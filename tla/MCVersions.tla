---- MODULE MCVersions ----
(* Two keys, so that tables overlap and tie; three sessions.               *)
EXTENDS Versions
====
