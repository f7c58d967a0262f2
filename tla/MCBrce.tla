------------------------------ MODULE MCBrce ------------------------------
(* Model-checking instance of Brce. *)
EXTENDS Brce, TLC

CONSTANTS c1, c2, ship

(* One authority per branch of admit/2: no map, a map that admits nothing,   *)
(* one that holds the :do capability, one that lists the operation.          *)
MCAuthority == {Nil,
                [capabilities |-> {"read"}, allow |-> {}],
                [capabilities |-> {"do"}, allow |-> {}],
                [capabilities |-> {}, allow |-> {ship}]}

(* Only authorities that admit, for the runs about what follows admission.   *)
MCAdmitted == {[capabilities |-> {"do"}, allow |-> {}]}

MCClock == {0, 1}
=============================================================================
