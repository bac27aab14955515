--------------------------- MODULE MCImageStore ---------------------------
(* Instances of ImageStore for TLC.                                        *)
EXTENDS ImageStore, TLC

MCRegistry == {"fs", "json"}

\* two valid manifests, one that covers "/", and one that asks for grep without fs
WithGrep == [root |-> FALSE, modules |-> [fs |-> "on", grep |-> "ripgrep"]]
MCManifests ==
  {WithGrep,
   [root |-> TRUE,  modules |-> [fs |-> "off", json |-> "on"]],
   [root |-> FALSE, modules |-> [fs |-> "off", grep |-> "fff"]]}

StoreSymmetry == Permutations(Cmds) \cup Permutations(Names)
=============================================================================
