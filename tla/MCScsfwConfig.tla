--------------------------- MODULE MCScsfwConfig ---------------------------
(***************************************************************************)
(* Instances of ScsfwConfig for TLC: a two-bit word, a log of two slots    *)
(* and configurations of two words.  As in the real block, the first       *)
(* sub-sector holds the magic, used_slots and the first configurations, and    *)
(* a configuration straddles the boundary.                                 *)
(***************************************************************************)
EXTENDS ScsfwConfig

MCBit == {1, 2}
MCMagic == [k \in MagicIdx |-> IF k = 0 THEN {1} ELSE {2}]
MCSlotMagic == {1, 2}
MCConfWord == {{1}, {2}}

\* Word j of confs[i] is word i * ConfLen + j after the marks; the first
\* sub-sector ends after the first of them.
MCConfSub ==
  [ij \in Slots \X ConfIdx |->
    IF ij[1] * ConfLen + ij[2] = 0 THEN 0 ELSE 1]

\* A block as the flasher leaves it: erased, or filled with another image
FreshInit ==
  /\ \E w \in {Erased, Bit} :
       /\ magic = [k \in MagicIdx |-> w]
       /\ used_slots = [i \in Slots |-> w]
       /\ confs = [i \in Slots |-> [j \in ConfIdx |-> w]]
  /\ Init

FreshSpec == FreshInit /\ [][Next]_vars
=============================================================================
