---------------------------- MODULE MCMostrador ----------------------------
(* A desk for TLC with two devices of one class, two loans, two requests at  *)
(* a time and a closing of the school after the class.                       *)
EXTENDS Custodia, TLC

CONSTANTS pc1, pc2, fisica, admin, p1, p2

MCEquipos == {pc1, pc2}
MCMaterias == {fisica}
MCUsuarios == {admin}
MCSinDocentes == [m \in MCMaterias |-> {}]
MCSinMarcas == [m \in MCMaterias |-> [e \in MCEquipos |-> 0]]

Manana == [dia |-> 0, ini |-> 1, fin |-> 3]
MCFranjas == {Manana}
MCSueltas == {{Manana}}
MCCierres == {[dia |-> 0, fin |-> 3]}

MCPlazos == {Nada}
MCAtencion == 0..Horizonte
MCSimetria == Permutations(Prestamos) \cup Permutations(Procesos)
=============================================================================
