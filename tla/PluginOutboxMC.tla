--------------------------- MODULE PluginOutboxMC ---------------------------
(* Manifests for TLC. *)
EXTENDS PluginOutbox

CONSTANT ReaderExit

TypesMC == {SleepEnter, ReaderExit}

\* A sync plugin and a sleep image, both with a password; a consumer without requests.
Sync  == [events |-> {ReaderExit}, runnable |-> {ReaderExit}, download |-> {},
          connect |-> {}, grant |-> TRUE]
Image == [events |-> {SleepEnter, ReaderExit}, runnable |-> {SleepEnter}, download |-> {SleepEnter},
          connect |-> {}, grant |-> TRUE]
Bare  == [events |-> {ReaderExit}, runnable |-> {}, download |-> {},
          connect |-> {ReaderExit}, grant |-> FALSE]

ManifestsMC == {Sync, Image, Bare}
=============================================================================
