---------------------------- MODULE MCSnapshots ----------------------------
EXTENDS Snapshots

\* One volume, a second one in the default group, a phase after the last volume.
ThreeShapes == {<<"tagged">>, <<"tagged", "default">>, <<"tagged", "post">>}
=============================================================================
