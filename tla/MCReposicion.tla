---------------------------- MODULE MCReposicion ----------------------------
(* Four notebooks. dibujo has the first claim on three of them, and those it *)
(* displaces dispute the fourth, on which each has another claim; musica has *)
(* no mark. Two classes of one subject tie everywhere. The slots overlap in  *)
(* a chain without being equal, and one of them starts within the hour.      *)
EXTENDS Reposicion

CONSTANTS pc1, pc2, pc3, pc4, dibujo, fisica, quimica, lengua, musica, g1, g2, g3, nuevo, otro, admin

MCEquipos == {pc1, pc2, pc3, pc4}
MCMaterias == {dibujo, fisica, quimica, lengua, musica}
MCGrupos == {g1, g2, g3, nuevo, otro}
MCAdmins == {admin}
MCAsignados == [m \in MCMaterias |-> {}]
MCPrioridad ==
    (dibujo  :> (pc1 :> 1 @@ pc2 :> 1 @@ pc3 :> 1 @@ pc4 :> 0)) @@
    (fisica  :> (pc1 :> 3 @@ pc2 :> 0 @@ pc3 :> 0 @@ pc4 :> 3)) @@
    (quimica :> (pc1 :> 2 @@ pc2 :> 2 @@ pc3 :> 0 @@ pc4 :> 2)) @@
    (lengua  :> (pc1 :> 0 @@ pc2 :> 0 @@ pc3 :> 2 @@ pc4 :> 1)) @@
    (musica  :> (pc1 :> 0 @@ pc2 :> 0 @@ pc3 :> 0 @@ pc4 :> 0))

Inminente == [dia |-> 0, ini |-> 1, fin |-> 3]
Antes == [dia |-> 0, ini |-> 2, fin |-> 4]
Entre == [dia |-> 0, ini |-> 3, fin |-> 5]
Despues == [dia |-> 0, ini |-> 4, fin |-> 6]
OtroDia == [dia |-> 10, ini |-> 13, fin |-> 15]
MCFranjas == {Inminente, Antes, Entre, Despues, OtroDia}
MCSeries == {{Entre}, {Entre, OtroDia}}

MCAfines == [e \in MCEquipos |-> MCEquipos]
MCOrdenEquipos == pc1 :> 0 @@ pc2 :> 1 @@ pc3 :> 2 @@ pc4 :> 3
MCDesempate == [e \in MCEquipos |-> MCOrdenEquipos]
MCOrdenGrupos == g1 :> 0 @@ g2 :> 4 @@ g3 :> 8 @@ nuevo :> 12 @@ otro :> 16
MCOrdenIds == [i \in MCGrupos \X MCEquipos |-> MCOrdenGrupos[i[1]] + MCOrdenEquipos[i[2]]]

MCClase(m, f) == [tipo |-> "NORMAL", estado |-> "CONFIRMADA", franja |-> f, materia |-> m,
                  docente |-> admin, regla |-> Nada]
MCBloqueo == [tipo |-> "BLOQUEO", franja |-> Despues, docente |-> admin]

MCFilas(M, F, D) == [grupo : {MCClase(m, f) : m \in M, f \in F}, equipos : D]

\* The first class is on a device asked for; the others, classes or a block, also on pc4.
MCTablas ==
    {g1 :> a @@ g2 :> b @@ g3 :> c :
        a \in MCFilas({fisica, quimica}, {Antes, Despues}, {{pc1}, {pc1, pc2}}),
        b \in MCFilas({fisica, quimica}, {Antes, Entre}, {{pc2}, {pc4}})
              \cup MCFilas({fisica}, {Inminente}, {{pc4}})
              \cup [grupo : {MCBloqueo}, equipos : {{pc4}}],
        c \in MCFilas({lengua, fisica}, {Antes, Despues}, {{pc3}, {pc4}})
              \cup MCFilas({musica}, {Despues}, {{pc3}, {pc4}})
              \cup MCFilas({quimica}, {OtroDia}, {{pc2}})}

MCInventarios == {[e \in MCEquipos |-> "reservable"],
                  [e \in MCEquipos |-> IF e = pc4 THEN "oculto" ELSE "reservable"]}

MCPedidos ==
    {[nuevos |-> nuevo :> Entre, regla |-> Nada, quien |-> admin, materia |-> dibujo, E |-> E] :
        E \in {{pc1}, {pc1, pc2}, {pc1, pc2, pc3}}}
    \cup {[nuevos |-> nuevo :> Entre @@ otro :> OtroDia, regla |-> nuevo, quien |-> admin,
           materia |-> dibujo, E |-> {pc1, pc2}]}

MCEscenarios == [filas : MCTablas, equipos : MCInventarios, pedido : MCPedidos]
=============================================================================
