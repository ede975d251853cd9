------------------------- MODULE MCRegisterWindows -------------------------
(***************************************************************************)
(* TLC instance of RegisterWindows: two register values and one written    *)
(* register of each windowed group.  The machine starts as Cpu() leaves    *)
(* it: every register zero but R7, which holds the memory size.            *)
(***************************************************************************)
EXTENDS RegisterWindows

MCInit ==
  /\ r = [reg \in Reg |-> IF reg = 7 THEN 65536 ELSE 0]
  /\ WindowInit

MCSpec == MCInit /\ [][WindowNext]_windowVars
=============================================================================
