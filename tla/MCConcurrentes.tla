--------------------------- MODULE MCConcurrentes ---------------------------
(* Two connections on two devices, in two parts: "sueltos", single requests  *)
(* that meet each other while time passes - bookings that displace, blocks,  *)
(* tickers, the inventory; "series", whole series with the clock stopped.    *)
EXTENDS ReservasConcurrentes, TLC

CONSTANTS p1, p2, pc1, pc2, g1, g2, g3, fisica, quimica, ana, admin

MCEquipos == {pc1, pc2}
MCMaterias == {fisica, quimica}
MCUsuarios == {ana, admin}
MCAdmins == {admin}
MCAsignados == (fisica :> {ana}) @@ (quimica :> {})
MCPrioridad == (fisica :> (pc1 :> 1 @@ pc2 :> 0)) @@ (quimica :> (pc1 :> 2 @@ pc2 :> 1))

Hoy == [dia |-> 0, ini |-> 2, fin |-> 3]
Otro == [dia |-> 4, ini |-> 5, fin |-> 6]
MCFranjas == {Hoy, Otro}
MCSeries == {{Hoy}, {Otro}, {Hoy, Otro}}

Numero == (g1 :> 0) @@ (g2 :> 1) @@ (g3 :> 2) @@ (pc1 :> 0) @@ (pc2 :> 1)
MCOrden == [k \in Grupos \cup Ids |->
              IF k \in Grupos THEN Numero[k] ELSE 3 + 2 * Numero[k[1]] + Numero[k[2]]]

Clase(quien, m, F, E, T) ==
    [op |-> "crear", quien |-> quien, materia |-> m, F |-> F, E |-> E, T |-> T]

\* One class at a time against blocks, single cancellations, tickers and the inventory.
MCSueltos ==
    {Clase(ana, fisica, {Hoy}, {pc1}, {pc1}), Clase(admin, quimica, {Hoy}, {pc1, pc2}, {})}
    \cup {[op |-> "bloquear", quien |-> admin, franja |-> Hoy, E |-> {pc1, pc2}],
          [op |-> "finalizar"], [op |-> "sacar", equipo |-> pc2],
          [op |-> "condicion", equipo |-> pc2, nueva |-> "reservable"]}
    \cup {[op |-> "cancelar", quien |-> admin, id |-> <<g1, e>>] : e \in Equipos}
    \cup {[op |-> "levantar", quien |-> admin, grupo |-> g1]}
    \cup {[op |-> "cambiar", quien |-> ana, id |-> <<g1, pc1>>, nuevo |-> pc2, soloEsta |-> TRUE]}

\* Series and displacements against whole cancellations and the other cascades.
MCDeSerie ==
    {Clase(admin, quimica, {Hoy, Otro}, {pc2}, {}), Clase(ana, fisica, {Hoy, Otro}, {pc1}, {pc1}),
     Clase(admin, quimica, {Otro}, {pc1}, {})}
    \cup {[op |-> "cancelarSerie", quien |-> admin, grupo |-> g, soloEsta |-> FALSE] : g \in {g1}}
    \cup {[op |-> "cambiar", quien |-> admin, id |-> <<g, pc2>>, nuevo |-> pc1, soloEsta |-> FALSE] : g \in {g1}}
    \cup {[op |-> "sinDocente", materia |-> quimica], [op |-> "jornada"],
          [op |-> "liberar", id |-> <<g1, pc2>>]}

MCPedidos == MCSueltos \cup MCDeSerie
MCSimetria == Permutations(Procesos)

VARIABLE parte

Pedidas == {tx[p].pedido : p \in Abiertas}
Usados == {g \in Grupos : grupos[g] # Nada} \cup UNION {DOMAIN tx[p].altas : p \in Abiertas}

DeLaParte ==
    \/ parte = "sueltos" /\ Pedidas \subseteq MCSueltos /\ Usados \subseteq {g1, g2}
    \/ parte = "series" /\ Pedidas \subseteq MCDeSerie /\ ahora = 0

InitM == InitC /\ parte \in {"sueltos", "series"}
NextM == NextC /\ parte' = parte /\ DeLaParte'
SpecM == InitM /\ [][NextM]_<<varsC, parte>>
=============================================================================
