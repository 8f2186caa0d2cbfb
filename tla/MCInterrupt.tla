---------------------------- MODULE MCInterrupt ----------------------------
(* Instances of Interrupt for TLC. *)
EXTENDS Interrupt

CONSTANTS t1, t2, t3, p1, p2

OneThread    == {t1}
TwoThreads   == {t1, t2}
ThreeThreads == {t1, t2, t3}
OnePort  == {p1}
TwoPorts == {p1, p2}

\* The forms of interrupt that the Create functions make.
VirtualForm == {"VIRTUAL"}
EdgeForm    == {}
LevelForm   == {"UNMASK_PREWAIT", "MASK_POSTWAIT"}
PciForm     == {"UNMASK_PREWAIT_UNLOCKED"}
AllForms    == {VirtualForm, EdgeForm, LevelForm, PciForm}
VirtualOnly == {VirtualForm}
EventForms  == {EdgeForm, LevelForm}
=============================================================================
