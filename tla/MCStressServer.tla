--------------------------- MODULE MCStressServer ---------------------------
(***************************************************************************)
(* What the stress server must do, and the instances TLC checks.           *)
(***************************************************************************)
EXTENDS StressProps, TLC

Cfg(c, p) == [channels |-> c, p2p |-> p]

SomeConfigs == {Cfg({}, FALSE), Cfg(1 .. NChan, TRUE)}
AllConfigs  == {Cfg(c, p) : c \in SUBSET (1 .. NChan), p \in BOOLEAN}
ChannelOnly == {Cfg(1 .. NChan, FALSE)}

Symmetry == Permutations(Handlers)
=============================================================================
