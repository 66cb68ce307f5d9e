-------------------------------- MODULE MCBoot --------------------------------
(***************************************************************************)
(* An instance of Boot for TLC: a catalogue of two sports and three events, *)
(* one demo match more, and an address and two codes wanted twice.          *)
(***************************************************************************)
EXTENDS Boot, TLC

CONSTANTS england, australia, ravensburg, next1, rugby

DemoFixtures ==
    <<[sport |-> Cricket, events |-> <<england, australia>>],
      [sport |-> "FOOTBALL", events |-> <<ravensburg>>]>>

Alike == Permutations(Sessions)
===============================================================================
