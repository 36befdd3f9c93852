--------------------------- MODULE MCCommandLine ---------------------------
(* Small instances of CommandLine.                                         *)
EXTENDS CommandLine

(* Bound: of the owner's acts and the stops of a tour at most two.         *)
AtMostTwo == bounds.acts + bounds.stops <= 2

MCAdapters == {<<1, 1>>, <<2, 1>>, <<3, 2>>}
=============================================================================
