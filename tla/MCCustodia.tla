----------------------------- MODULE MCCustodia -----------------------------
(* Two small desks for TLC. "preferencia": two devices and two classes that   *)
(* prefer each other's, on one slot, one request at a time. "adelanto": one   *)
(* device with two classes in a row, two requests at a time, a late clock.    *)
EXTENDS Custodia, TLC

CONSTANTS pc1, pc2, fisica, quimica, admin, p1, p2

MCEquipos == {pc1, pc2}
MCMaterias == {fisica, quimica}
MCUsuarios == {admin}
MCSinAsignar == [m \in MCMaterias |-> {}]
MCPrioridad == [m \in MCMaterias |-> [e \in MCEquipos |-> IF m = fisica THEN 1 ELSE 0]]

Hora == [dia |-> 0, ini |-> 1, fin |-> 2]
Tarde == [dia |-> 0, ini |-> 3, fin |-> 4]
MCFranjas == {Hora, Tarde}
MCSueltas == {{Hora}, {Tarde}}

MCPlazos == {Nada}
MCAtencion == 0..Horizonte
MCSimetria == Permutations(Grupos) \cup Permutations(Prestamos) \cup Permutations(Procesos)

EnUso == {e \in Equipos : equipos[e] # "reservable"}
         \cup UNION {{i[2], reservas[i].equipo} : i \in {j \in Ids : reservas[j] # Nada}}
         \cup {prestamos[p].equipo : p \in {q \in Prestamos : prestamos[q] # Nada}}
Clases == {grupos[g] : g \in {h \in Grupos : grupos[h] # Nada}}

EnPreferencia ==
    /\ ahora <= 1
    /\ Cardinality({p \in Procesos : abierta[p] # Nada}) <= 1
    /\ \A p \in Procesos : ~En(p, "barrer")
    /\ \A c \in Clases : c.franja = Hora
    /\ \A e \in Equipos : equipos[e] = "reservable"

EnAdelanto ==
    /\ EnUso \subseteq {pc1}
    /\ \A c \in Clases : c.tipo = "NORMAL" => c.materia = fisica

\* The states that are explored.
DeUnaParte == EnPreferencia \/ EnAdelanto

\* The desk of "adelanto" does nothing to the calendar that Reservas does not allow:
\* CumpleReservas of Custodia, in that part.
AdelantoCumple == [][EnAdelanto => PasoDeReservas]_vars
=============================================================================
