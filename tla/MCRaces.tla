------------------------------- MODULE MCRaces -------------------------------
(* Small instances of Races. *)
EXTENDS Races

\* One window that has begun and one that has not.
NowOrLater == {<<0, 2>>, <<1, 2>>}

=============================================================================
