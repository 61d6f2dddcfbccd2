----------------------------- MODULE MCReservas -----------------------------
(* A small school for TLC: two devices, a subject that prefers each of them, *)
(* a day of three instants and three slots, one of which crosses midnight    *)
(* and one of which is the same hour of another day.                         *)
EXTENDS Reservas, TLC

CONSTANTS pc1, pc2, fisica, quimica, ana, admin

MCEquipos == {pc1, pc2}
MCMaterias == {fisica, quimica}
MCDocentes == {ana}
MCNadie == {}
MCAdmins == {admin}
MCUnaMateria == {fisica}
MCAsignadosUna == fisica :> {ana}
MCPrioridadUna == fisica :> (pc1 :> 1 @@ pc2 :> 0)
MCSinAsignar == (fisica :> {}) @@ (quimica :> {})
MCPrioridad == (fisica :> (pc1 :> 1 @@ pc2 :> 0)) @@ (quimica :> (pc1 :> 2 @@ pc2 :> 1))

Temprano == [dia |-> 0, ini |-> 2, fin |-> 3]
Nocturna == [dia |-> 0, ini |-> 2, fin |-> 4]
Primera == [dia |-> 0, ini |-> 1, fin |-> 2]
OtroDia == [dia |-> 2, ini |-> 2, fin |-> 3]

MCFranjas == {Temprano, Nocturna}
MCSueltas == {{Temprano}, {Nocturna}}

MCFranjasDeSerie == {Primera, OtroDia}
MCSeries == {{Primera}, {Primera, OtroDia}}
MCSimetria == Permutations(Grupos)
=============================================================================
