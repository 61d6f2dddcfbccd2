------------------------------ MODULE MCCierre ------------------------------
(* Three days of three instants for TLC: the first closes past midnight, the *)
(* second in the afternoon, the third does not open; one device, one class   *)
(* in the evening of the first day.                                          *)
EXTENDS CierreDeJornada, TLC

CONSTANTS pc1, fisica, admin, p1

MCEquipos == {pc1}
MCMaterias == {fisica}
MCUsuarios == {admin}
MCSinDocentes == [m \in MCMaterias |-> {}]
MCSinMarcas == [m \in MCMaterias |-> [e \in MCEquipos |-> 0]]

Noche == [dia |-> 0, ini |-> 2, fin |-> 4]
MCFranjas == {Noche}
MCSueltas == {{Noche}}
MCPlazos == {Nada, 5}

MCCierres == {[dia |-> 0, fin |-> 4], [dia |-> 3, fin |-> 5]}
\* The blocks of the first day reach into the second, which closes before them.
MCCierresCruzados == {[dia |-> 0, fin |-> 6], [dia |-> 4, fin |-> 5]}
MCAtencion == 0..Horizonte
MCSimetria == Permutations(Prestamos)
=============================================================================
