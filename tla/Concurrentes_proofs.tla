------------------------ MODULE Concurrentes_proofs ------------------------
(* ReservasConcurrentes implements Reservas: whatever the interleaving of    *)
(* any number of transactions, every commit is one operation of Reservas on  *)
(* the tables it finds. From it, what is proved of the operations of         *)
(* Reservas holds of their transactions.                                     *)
(*                                                                           *)
(* The facts about a transaction are operators of its record t and of the    *)
(* tables rs, gs, es (reservas, grupos, equipos), so that what another       *)
(* commit leaves of them is a lemma about two sets of tables.                *)
EXTENDS ReservasConcurrentes, Reservas_proofs, FiniteSetTheorems, WellFoundedInduction

-----------------------------------------------------------------------------
(* A transaction and what it knows                                           *)

\* Some rows of a table.
Parcial(claves, filas) == UNION {[S -> filas] : S \in SUBSET claves}

Registro ==
    [pedido : Pedidos, fase : Fases, reloj : 0..Horizonte, cascada : BOOLEAN,
     vistas : Parcial(Ids, Reserva), faltan : SUBSET Llaves, tiene : SUBSET Llaves,
     releidas : Parcial(Ids, Reserva), filas : Parcial(Ids, Reserva),
     altas : Parcial(Grupos, Grupo \cup Operacion), estados : Parcial(Equipos, Condiciones)]

TablasOK(rs, gs, es) ==
    /\ rs \in [Ids -> Reserva \cup {Nada}]
    /\ gs \in [Grupos -> FilasGrupo]
    /\ es \in [Equipos -> Condiciones]
    /\ Refs(rs, gs)

Bloque(gs, i) == gs[i[1]].tipo = "BLOQUEO"
LlaveEn(gs, i) == IF Bloque(gs, i) THEN i ELSE i[1]
FranjaEn(gs, i) == gs[i[1]].franja
EnEspera(es) == {e \in Equipos : es[e] = "reservable"}

OpsDeCierre == {"cancelar", "cancelarSerie", "levantar", "liberar", "sinDocente", "jornada",
                "finalizar", "sacar"}

\* The rows a request closes, and how.
PorCerrar(t) ==
    IF t.pedido.op \in {"cancelar", "cancelarSerie", "levantar", "liberar"}
    THEN SinTerminar(t) ELSE Actuales(t)

EstadoFinal(q) ==
    IF q.op = "finalizar" THEN "FINALIZADA"
    ELSE IF q.op = "liberar" THEN "NO_RETIRADA" ELSE "CANCELADA"

\* The classes a cancellation of one of them reaches.
GruposDePedido(q, gs) ==
    IF q.soloEsta \/ gs[q.grupo].regla = Nada THEN {q.grupo}
    ELSE {q.grupo} \cup {h \in Grupos : /\ gs[h] # Nada /\ gs[h].tipo = "NORMAL"
                                        /\ gs[h].regla = gs[q.grupo].regla
                                        /\ gs[h].franja.dia > gs[q.grupo].franja.dia}

\* What the validations and the first reading found is still so: each of these is about
\* the rows and groups that were there, which no other transaction can undo.
VistoAlCrear(t, es) ==
    LET q == t.pedido IN
    /\ PuedeReservar(q.materia, q.quien) /\ q.E \subseteq EnEspera(es)
    /\ \A f \in q.F : ~YaTermino(f, t.reloj)

VistoAlBloquear(t, es) ==
    LET q == t.pedido IN
    /\ q.quien \in Admins /\ q.E \subseteq EnEspera(es) /\ ~YaTermino(q.franja, t.reloj)
    /\ \A i \in DOMAIN t.vistas : t.vistas[i].equipo \in q.E

VistoAlLevantar(t, rs, gs) ==
    LET q == t.pedido IN
    /\ q.quien \in Admins /\ gs[q.grupo] # Nada /\ gs[q.grupo].tipo = "BLOQUEO"
    /\ \A i \in Ids : i \in DOMAIN t.vistas <=> i[1] = q.grupo /\ rs[i] # Nada

VistoAlCancelarSerie(t, rs, gs) ==
    LET q == t.pedido IN
    /\ EsClase(gs[q.grupo]) /\ PuedeCancelar(gs[q.grupo].docente, q.quien)
    /\ \A i \in Ids : i \in DOMAIN t.vistas <=> i[1] \in GruposDePedido(q, gs) /\ rs[i] # Nada

VistoAlCambiar(t, gs, es) ==
    LET q == t.pedido IN
    /\ q.id \in DOMAIN t.vistas /\ t.vistas[q.id].equipo # q.nuevo
    /\ PuedeVer(gs[q.id[1]].docente, q.quien)
    /\ q.nuevo \in EnEspera(es)
    /\ q.soloEsta => DOMAIN t.vistas = {q.id}
    /\ \A j \in DOMAIN t.vistas \ {q.id} :
          /\ ~Bloque(gs, q.id) /\ ~Bloque(gs, j)
          /\ t.vistas[j].equipo = t.vistas[q.id].equipo
          /\ gs[q.id[1]].regla # Nada
          /\ gs[j[1]].regla = gs[q.id[1]].regla
          /\ FranjaEn(gs, j).dia >= FranjaEn(gs, q.id).dia

\* The exclusive cascades saw every row there is to close.
VistoAlSacar(t, rs, gs) ==
    LET q == t.pedido IN
    /\ \A i \in DOMAIN t.vistas :
          t.vistas[i].equipo = q.equipo /\ ~YaTermino(FranjaEn(gs, i), t.reloj)
    /\ \A i \in Ids : /\ ConfirmadaEn(rs, i) /\ rs[i].equipo = q.equipo
                      /\ ~YaTermino(FranjaEn(gs, i), t.reloj)
                      => i \in DOMAIN t.vistas

VistoSinDocente(t, rs, gs) ==
    LET q == t.pedido IN
    /\ \A i \in DOMAIN t.vistas : /\ ~Bloque(gs, i) /\ gs[i[1]].materia = q.materia
                                  /\ ~YaTermino(FranjaEn(gs, i), t.reloj)
                                  /\ ConfirmadaEn(rs, i) => rs[i].equipo = t.vistas[i].equipo
    /\ \A i \in Ids : /\ ConfirmadaEn(rs, i) /\ ~Bloque(gs, i) /\ gs[i[1]].materia = q.materia
                      /\ ~YaTermino(FranjaEn(gs, i), t.reloj)
                      => i \in DOMAIN t.vistas

VistoPorJornada(t, gs) ==
    \A i \in DOMAIN t.vistas : ~Bloque(gs, i) /\ ~YaEmpezo(FranjaEn(gs, i), t.reloj)

VistoAlFinalizar(t, gs) ==
    /\ \A i \in DOMAIN t.vistas : Vencida(FranjaEn(gs, i), t.reloj)
    /\ Cardinality(DOMAIN t.vistas) <= Lote

VistoDeCondicion(t, es) ==
    DOMAIN t.vistas = {} /\ es[t.pedido.equipo] # t.pedido.nueva

Visto(t, rs, gs, es) ==
    LET op == t.pedido.op IN
    /\ \A i \in DOMAIN t.vistas : rs[i] # Nada
    /\ op = "crear" => VistoAlCrear(t, es)
    /\ op = "bloquear" => VistoAlBloquear(t, es)
    /\ op = "levantar" => VistoAlLevantar(t, rs, gs)
    /\ op = "cancelarSerie" => VistoAlCancelarSerie(t, rs, gs)
    /\ op \in {"cancelar", "liberar"} => DOMAIN t.vistas = {t.pedido.id}
    /\ op = "cambiar" => VistoAlCambiar(t, gs, es)
    /\ op = "sacar" => VistoAlSacar(t, rs, gs)
    /\ op = "sinDocente" => VistoSinDocente(t, rs, gs)
    /\ op = "jornada" => VistoPorJornada(t, gs)
    /\ op = "finalizar" => VistoAlFinalizar(t, gs)
    /\ op = "condicion" => VistoDeCondicion(t, es)

\* The rows seen are locked or on the way, and those read again are locked and the same.
Tomado(t, rs, gs) ==
    /\ \A i \in DOMAIN t.vistas : LlaveEn(gs, i) \in t.faltan \cup t.tiene
    /\ t.fase # "tomando" =>
          /\ DOMAIN t.vistas \subseteq DOMAIN t.releidas
          /\ \A i \in DOMAIN t.releidas : /\ t.releidas[i] = rs[i] /\ rs[i] # Nada
                                          /\ LlaveEn(gs, i) \in t.tiene

-----------------------------------------------------------------------------
(* What it wrote                                                             *)

\* A class that differs in its state.
MismaClase(f, n) ==
    /\ EsClase(f) /\ EsClase(n) /\ n.franja = f.franja /\ n.materia = f.materia
    /\ n.docente = f.docente /\ n.regla = f.regla

GruposCerrados(t) == {i[1] : i \in {j \in DOMAIN t.filas : t.filas[j].estado # "CONFIRMADA"}}

\* Rows that exist are written under their lock; the others are born with their group.
EscritoBajoLlave(t, rs, gs) ==
    /\ \A i \in DOMAIN t.filas :
          /\ rs[i] # Nada => LlaveEn(gs, i) \in t.tiene
          /\ rs[i] = Nada => /\ i[1] \in DOMAIN t.altas /\ gs[i[1]] = Nada
                             /\ t.filas[i].estado = "CONFIRMADA"
    /\ \A g \in DOMAIN t.altas :
          /\ gs[g] # Nada => MismaClase(gs[g], t.altas[g]) /\ g \in t.tiene
          /\ gs[g] = Nada /\ EsClase(t.altas[g]) /\ t.altas[g].regla # Nada =>
                t.altas[g].regla \in DOMAIN t.altas /\ gs[t.altas[g].regla] = Nada

\* The state of every group that exists, recomputed over the rows it closed.
EscritoElGrupo(t, rs, gs) ==
    \A g \in Grupos : gs[g] # Nada =>
        Sobre(t.altas, gs)[g] = Recalculados(gs, Sobre(t.filas, rs), GruposCerrados(t))[g]

EscritoElEquipo(t, es) ==
    LET q == t.pedido IN
    /\ q.op \notin {"sacar", "condicion"} => DOMAIN t.estados = {}
    /\ q.op = "sacar" => /\ Sobre(t.estados, es) = [es EXCEPT ![q.equipo] = "fuera"]
                         /\ es[q.equipo] = "fuera" => Actuales(t) # {}
    /\ q.op = "condicion" => Sobre(t.estados, es) = [es EXCEPT ![q.equipo] = q.nueva]

EscritoCierre(t, gs) ==
    LET q == t.pedido IN
    /\ DOMAIN t.filas = PorCerrar(t)
    /\ \A i \in PorCerrar(t) : t.filas[i] = [t.releidas[i] EXCEPT !.estado = EstadoFinal(q)]
    /\ \A g \in DOMAIN t.altas : gs[g] # Nada
    /\ q.op \in {"cancelar", "liberar"} => PorCerrar(t) = {q.id}
    /\ q.op = "cancelar" => /\ Bloque(gs, q.id) => q.quien \in Admins
                            /\ PuedeCancelar(gs[q.id[1]].docente, q.quien)
    /\ q.op = "liberar" => /\ ~Bloque(gs, q.id)
                           /\ PuedeEntregarseEn(FranjaEn(gs, q.id), "CONFIRMADA", t.reloj)

EscritoCambio(t) ==
    /\ t.pedido.id \in Actuales(t)
    /\ DOMAIN t.filas = Actuales(t)
    /\ \A i \in Actuales(t) : t.filas[i] = [t.releidas[i] EXCEPT !.equipo = t.pedido.nuevo]
    /\ DOMAIN t.altas = {}

\* The rows a request inserts for the groups G.
Insertadas(t, G) == {i \in Ids : i[1] \in G /\ i[2] \in t.pedido.E}

EscritaLaInsercion(t, gs, G) ==
    /\ G \subseteq Grupos /\ G \subseteq DOMAIN t.altas
    /\ \A g \in DOMAIN t.altas : gs[g] = Nada <=> g \in G
    /\ \A i \in Insertadas(t, G) :
          i \in DOMAIN t.filas /\ t.filas[i] = [estado |-> "CONFIRMADA", equipo |-> i[2]]

EnMedio(t, gs) ==
    {i \in Actuales(t) : ~Bloque(gs, i) /\ Solapan(FranjaEn(gs, i), t.pedido.franja)}

EscritoBloqueo(t, gs) ==
    \E g \in Grupos :
       /\ EscritaLaInsercion(t, gs, {g})
       /\ t.altas[g] = [tipo |-> "BLOQUEO", franja |-> t.pedido.franja, docente |-> t.pedido.quien]
       /\ DOMAIN t.filas = EnMedio(t, gs) \cup Insertadas(t, {g})
       /\ \A i \in EnMedio(t, gs) : t.filas[i] = [t.releidas[i] EXCEPT !.estado = "CANCELADA"]

RobableEn(m, i, rs, gs, reloj) ==
    /\ ~Bloque(gs, i)
    /\ Prefiere(m, gs[i[1]].materia, rs[i].equipo)
    /\ SePuedeRobarPorHorario(FranjaEn(gs, i), reloj)

\* The first ones a plan displaces: those in the way of the request.
PrimerosDe(t, plan, rs, gs) ==
    {i \in DOMAIN plan : /\ rs[i].equipo \in t.pedido.E
                         /\ \E f \in t.pedido.F : Solapan(FranjaEn(gs, i), f)}

PlanVigente(t, plan, rs, gs, es) ==
    /\ DOMAIN plan \subseteq DOMAIN t.releidas
    /\ \A i \in DOMAIN plan : /\ plan[i] \in EnEspera(es) \cup {Nada}
                              /\ ConfirmadaEn(rs, i) /\ ~Bloque(gs, i)
                              /\ ~YaEmpezo(FranjaEn(gs, i), t.reloj)
    /\ \A i \in PrimerosDe(t, plan, rs, gs) :
          /\ rs[i].equipo \in t.pedido.T
          /\ RobableEn(t.pedido.materia, i, rs, gs, t.reloj)
    /\ \A i \in DOMAIN plan \ PrimerosDe(t, plan, rs, gs) :
          \E j \in DOMAIN plan \ {i} : RobableEn(gs[j[1]].materia, i, rs, gs, t.reloj)
    /\ PrimerosDe(t, plan, rs, gs) = {} => plan = << >>

EscritaLaClase(t, rs, gs, es) ==
    LET q == t.pedido IN
    \E plan \in Parcial(Ids, Equipos \cup {Nada}), G \in SUBSET Grupos :
    \E nuevos \in Bijection(G, q.F), regla \in ReglaDe(G) :
       /\ PlanVigente(t, plan, rs, gs, es)
       /\ EscritaLaInsercion(t, gs, G)
       /\ \A g \in G : t.altas[g] =
             [tipo |-> "NORMAL", estado |-> "CONFIRMADA", franja |-> nuevos[g],
              materia |-> q.materia, docente |-> q.quien, regla |-> regla]
       /\ DOMAIN t.filas \subseteq DOMAIN plan \cup Insertadas(t, G)
       /\ \A i \in DOMAIN plan : Sobre(t.filas, rs)[i] = AplicarPlan(rs, plan)[i]

EscritoNada(t) == DOMAIN t.filas = {} /\ DOMAIN t.altas = {}

Escrito(t, rs, gs, es) ==
    LET op == t.pedido.op IN
    /\ EscritoBajoLlave(t, rs, gs) /\ EscritoElGrupo(t, rs, gs) /\ EscritoElEquipo(t, es)
    /\ op \in OpsDeCierre => EscritoCierre(t, gs)
    /\ op = "cambiar" => EscritoCambio(t)
    /\ op = "condicion" => EscritoNada(t)
    /\ op = "bloquear" => EscritoBloqueo(t, gs)
    /\ op = "crear" => EscritaLaClase(t, rs, gs, es)

EnCurso(t, rs, gs, es) ==
    /\ Visto(t, rs, gs, es) /\ Tomado(t, rs, gs)
    /\ t.faltan \cap t.tiene = {}
    /\ t.fase # "tomando" => t.faltan = {}
    /\ t.fase # "escrito" => EscritoNada(t) /\ DOMAIN t.estados = {}
    /\ t.fase = "escrito" => Escrito(t, rs, gs, es)

-----------------------------------------------------------------------------
(* Between transactions                                                      *)

\* The rule of a series is named after a group that was created with it.
ReglasCargadas(gs) ==
    \A g \in Grupos : EsClase(gs[g]) /\ gs[g].regla # Nada => gs[gs[g].regla] # Nada

CompatiblesT(t, u) ==
    /\ Modo(t.pedido) = "exclusivo" => Modo(u.pedido) = "ninguno"
    /\ t.tiene \cap u.tiene = {}
    /\ DOMAIN t.altas \cap DOMAIN u.altas = {}

SinSolapesJuntas(t, u, rs, gs) ==
    SinSolapes(Sobre(u.filas, Sobre(t.filas, rs)), Sobre(u.altas, Sobre(t.altas, gs)))

IInvC ==
    /\ IInv
    /\ tx \in [Procesos -> Registro \cup {Nada}]
    /\ ReglasCargadas(grupos)
    /\ \A p \in Abiertas : tx[p].reloj \in Relojes /\ EnCurso(tx[p], reservas, grupos, equipos)
    /\ \A p, r \in Abiertas : p # r => CompatiblesT(tx[p], tx[r])
    /\ \A p, r \in Abiertas : SinSolapesJuntas(tx[p], tx[r], reservas, grupos)

-----------------------------------------------------------------------------
(* Requests and modes                                                        *)

\* What the request of each operation carries.
LEMMA PedidoTipo ==
    ASSUME NEW q \in Pedidos
    PROVE  /\ q.op = "crear" => /\ q.quien \in Usuarios /\ q.materia \in Materias /\ q.F \in Series
                                /\ q.E \in SUBSET Equipos /\ q.E # {} /\ q.T \in SUBSET Equipos
           /\ q.op = "bloquear" => /\ q.quien \in Usuarios /\ q.franja \in Franjas
                                   /\ q.E \in SUBSET Equipos /\ q.E # {}
           /\ q.op \in {"levantar", "cancelarSerie"} => q.quien \in Usuarios /\ q.grupo \in Grupos
           /\ q.op = "cancelarSerie" => q.soloEsta \in BOOLEAN
           /\ q.op = "cancelar" => q.quien \in Usuarios /\ q.id \in Ids
           /\ q.op = "cambiar" => /\ q.quien \in Usuarios /\ q.id \in Ids /\ q.nuevo \in Equipos
                                  /\ q.soloEsta \in BOOLEAN
           /\ q.op = "liberar" => q.id \in Ids
           /\ q.op = "sacar" => q.equipo \in Equipos
           /\ q.op = "condicion" => q.equipo \in Equipos /\ q.nueva \in Condiciones \ {"fuera"}
           /\ q.op = "sinDocente" => q.materia \in Materias
           /\ q.op \in OpsDeCierre \cup {"cambiar", "condicion", "bloquear", "crear"}
<1>1. q \in Peticiones
  BY ConcurrentesAssumption
<1> QED BY <1>1 DEF Peticiones, OpsDeCierre

\* The advisory lock each request takes.
LEMMA ModoTipo ==
    ASSUME NEW q \in Pedidos
    PROVE  /\ q.op = "crear" => Modo(q) = IF q.T = {} THEN "compartido" ELSE "exclusivo"
           /\ q.op \in {"cancelar", "cancelarSerie", "finalizar"} => Modo(q) = "ninguno"
           /\ q.op \in {"bloquear", "levantar", "cambiar"} => Modo(q) = "compartido"
           /\ q.op \in {"liberar", "sacar", "condicion", "sinDocente", "jornada"} => Modo(q) = "exclusivo"
           /\ Modo(q) = "ninguno" => q.op \in {"cancelar", "cancelarSerie", "finalizar"}
<1>1. q.op = "crear" => Modo(q) = IF q.T = {} THEN "compartido" ELSE "exclusivo"
  BY DEF Modo
<1>2. q.op \in {"cancelar", "cancelarSerie", "finalizar"} => Modo(q) = "ninguno"
  BY DEF Modo, Modos
<1>3. q.op \in {"bloquear", "levantar", "cambiar"} => Modo(q) = "compartido"
  BY DEF Modo, Modos
<1>4. q.op \in {"liberar", "sacar", "condicion", "sinDocente", "jornada"} => Modo(q) = "exclusivo"
  BY DEF Modo, Modos
<1>5. q.op \in {"cancelar", "cancelarSerie", "finalizar", "bloquear", "levantar", "cambiar",
                "liberar", "sacar", "condicion", "sinDocente", "jornada", "crear"}
  BY PedidoTipo DEF OpsDeCierre
<1> QED BY <1>1, <1>2, <1>3, <1>4, <1>5

\* The fields of an open transaction.
LEMMA RegistroTipo ==
    ASSUME NEW t \in Registro
    PROVE  /\ t.pedido \in Pedidos /\ t.fase \in Fases /\ t.reloj \in Nat
           /\ t.faltan \in SUBSET Llaves /\ t.tiene \in SUBSET Llaves
           /\ DOMAIN t.vistas \subseteq Ids /\ \A i \in DOMAIN t.vistas : t.vistas[i] \in Reserva
           /\ DOMAIN t.releidas \subseteq Ids /\ \A i \in DOMAIN t.releidas : t.releidas[i] \in Reserva
           /\ DOMAIN t.filas \subseteq Ids /\ \A i \in DOMAIN t.filas : t.filas[i] \in Reserva
           /\ DOMAIN t.altas \subseteq Grupos
           /\ \A g \in DOMAIN t.altas : t.altas[g] \in Grupo \cup Operacion
           /\ DOMAIN t.estados \subseteq Equipos
           /\ \A e \in DOMAIN t.estados : t.estados[e] \in Condiciones
<1>1. ASSUME NEW A, NEW V, NEW f \in Parcial(A, V)
      PROVE  DOMAIN f \subseteq A /\ \A i \in DOMAIN f : f[i] \in V
  BY DEF Parcial
<1>2. /\ t.pedido \in Pedidos /\ t.fase \in Fases /\ t.reloj \in 0..Horizonte
      /\ t.faltan \in SUBSET Llaves /\ t.tiene \in SUBSET Llaves
      /\ t.vistas \in Parcial(Ids, Reserva) /\ t.releidas \in Parcial(Ids, Reserva)
      /\ t.filas \in Parcial(Ids, Reserva) /\ t.altas \in Parcial(Grupos, Grupo \cup Operacion)
      /\ t.estados \in Parcial(Equipos, Condiciones)
  BY DEF Registro
<1>3. t.reloj \in Nat
  BY <1>2, ReservasAssumption
<1> QED BY <1>1, <1>2, <1>3

-----------------------------------------------------------------------------
(* What the commit of another transaction leaves of what t knows             *)

\* The other one may create rows and groups of its own and close or move rows t has not
\* locked; if t has the coordination, it keeps off the inventory, and off what t shares
\* with nobody.
Ajeno(t, rs, gs, es, rs2, gs2, es2) ==
    /\ \A i \in Ids : rs[i] # Nada => /\ rs2[i] # Nada
                                      /\ LlaveEn(gs, i) \in t.tiene => rs2[i] = rs[i]
    /\ \A i \in Ids : rs[i] = Nada /\ rs2[i] # Nada => gs[i[1]] = Nada
    /\ \A g \in Grupos : gs[g] # Nada => /\ gs2[g] = gs[g] \/ MismaClase(gs[g], gs2[g])
                                         /\ g \in t.tiene => gs2[g] = gs[g]
    /\ \A g \in Grupos : gs[g] = Nada /\ EsClase(gs2[g]) /\ gs2[g].regla # Nada
                            => gs[gs2[g].regla] = Nada
    /\ \A g \in DOMAIN t.altas : gs[g] = Nada => gs2[g] = Nada
    /\ Modo(t.pedido) # "ninguno" => es2 = es
    /\ Modo(t.pedido) = "exclusivo" =>
          \A i \in Ids : ConfirmadaEn(rs2, i) => ConfirmadaEn(rs, i) /\ rs2[i].equipo = rs[i].equipo

\* A group that exists keeps everything but its state.
LEMMA GrupoEstable ==
    ASSUME NEW gs, NEW gs2, NEW g, gs[g] # Nada, gs2[g] = gs[g] \/ MismaClase(gs[g], gs2[g])
    PROVE  /\ gs2[g] # Nada
           /\ EsClase(gs2[g]) <=> EsClase(gs[g])
           /\ gs2[g].tipo = gs[g].tipo /\ gs2[g].franja = gs[g].franja
           /\ gs2[g].docente = gs[g].docente
           /\ EsClase(gs[g]) => gs2[g].materia = gs[g].materia /\ gs2[g].regla = gs[g].regla
BY DEF MismaClase, EsClase

\* A row that exists keeps its slot, its key and its owner.
LEMMA FilaEstable ==
    ASSUME NEW t, NEW rs, NEW gs, NEW es, NEW rs2, NEW gs2, NEW es2,
           TablasOK(rs, gs, es), Ajeno(t, rs, gs, es, rs2, gs2, es2),
           NEW i \in Ids, rs[i] # Nada
    PROVE  /\ i[1] \in Grupos /\ gs[i[1]] # Nada /\ rs2[i] # Nada
           /\ gs[i[1]] \in FilasGrupo
           /\ ~Bloque(gs, i) <=> EsClase(gs[i[1]])
           /\ Bloque(gs2, i) <=> Bloque(gs, i)
           /\ FranjaEn(gs2, i) = FranjaEn(gs, i)
           /\ LlaveEn(gs2, i) = LlaveEn(gs, i)
           /\ gs2[i[1]].docente = gs[i[1]].docente
           /\ ~Bloque(gs, i) => /\ gs2[i[1]].materia = gs[i[1]].materia
                                /\ gs2[i[1]].regla = gs[i[1]].regla
<1>1. i[1] \in Grupos /\ gs[i[1]] # Nada /\ rs2[i] # Nada /\ gs[i[1]] \in FilasGrupo
  BY DEF Ids, TablasOK, Refs, Ajeno
<1>2. gs[i[1]].tipo \in {"NORMAL", "BLOQUEO"}
  BY <1>1, ClaseEsGrupo
<1>3. gs2[i[1]] = gs[i[1]] \/ MismaClase(gs[i[1]], gs2[i[1]])
  BY <1>1 DEF Ajeno
<1> QED BY <1>1, <1>2, <1>3, GrupoEstable DEF Bloque, FranjaEn, LlaveEn, EsClase

\* What a validation or a first reading found, another commit cannot undo.
LEMMA VistoSeConserva ==
    ASSUME NEW t \in Registro, NEW rs, NEW gs, NEW es, NEW rs2, NEW gs2, NEW es2,
           TablasOK(rs, gs, es), ReglasCargadas(gs), Ajeno(t, rs, gs, es, rs2, gs2, es2),
           Visto(t, rs, gs, es)
    PROVE  Visto(t, rs2, gs2, es2)
<1> DEFINE q == t.pedido
           V == DOMAIN t.vistas
<1>1. /\ q \in Pedidos /\ V \subseteq Ids
      /\ \A i \in V : rs[i] # Nada
  BY RegistroTipo DEF Visto
<1>2. \A i \in V : rs2[i] # Nada
  BY <1>1, FilaEstable
<1>3. ASSUME q.op = "crear" PROVE VistoAlCrear(t, es2)
  <2>1. es2 = es
    BY <1>1, <1>3, ModoTipo DEF Ajeno
  <2> QED BY <1>3, <2>1 DEF Visto, VistoAlCrear
<1>4. ASSUME q.op = "bloquear" PROVE VistoAlBloquear(t, es2)
  <2>1. es2 = es
    BY <1>1, <1>4, ModoTipo DEF Ajeno
  <2> QED BY <1>4, <2>1 DEF Visto, VistoAlBloquear
<1>5. ASSUME q.op = "levantar" PROVE VistoAlLevantar(t, rs2, gs2)
  <2>1. /\ VistoAlLevantar(t, rs, gs) /\ q.grupo \in Grupos
        /\ gs[q.grupo] # Nada /\ gs[q.grupo].tipo = "BLOQUEO"
    BY <1>1, <1>5, PedidoTipo DEF Visto, VistoAlLevantar
  <2>a. gs2[q.grupo] = gs[q.grupo] \/ MismaClase(gs[q.grupo], gs2[q.grupo])
    BY <2>1 DEF Ajeno
  <2>2. gs2[q.grupo] # Nada /\ gs2[q.grupo].tipo = "BLOQUEO"
    BY <2>1, <2>a DEF MismaClase, EsClase
  <2>3. ASSUME NEW i \in Ids, i[1] = q.grupo PROVE rs2[i] # Nada <=> rs[i] # Nada
    BY <2>1, <2>3 DEF Ajeno
  <2> QED BY <2>1, <2>2, <2>3 DEF VistoAlLevantar
<1>6. ASSUME q.op = "cancelarSerie" PROVE VistoAlCancelarSerie(t, rs2, gs2)
  <2>1. /\ VistoAlCancelarSerie(t, rs, gs) /\ q.grupo \in Grupos /\ EsClase(gs[q.grupo])
    BY <1>1, <1>6, PedidoTipo DEF Visto, VistoAlCancelarSerie
  <2>a. gs2[q.grupo] = gs[q.grupo] \/ MismaClase(gs[q.grupo], gs2[q.grupo])
    BY <2>1 DEF Ajeno, EsClase
  <2>2. /\ EsClase(gs2[q.grupo]) /\ gs2[q.grupo].docente = gs[q.grupo].docente
        /\ gs2[q.grupo].regla = gs[q.grupo].regla /\ gs2[q.grupo].franja = gs[q.grupo].franja
    BY <2>1, <2>a DEF MismaClase
  <2>3. ASSUME NEW h \in Grupos
        PROVE  /\ h \in GruposDePedido(q, gs2) <=> h \in GruposDePedido(q, gs)
               /\ h \in GruposDePedido(q, gs) => gs[h] # Nada
    <3>1. CASE gs[h] # Nada
      <4>a. gs2[h] = gs[h] \/ MismaClase(gs[h], gs2[h])
        BY <3>1 DEF Ajeno
      <4>1. /\ gs2[h] # Nada /\ gs2[h].tipo = gs[h].tipo /\ gs2[h].franja = gs[h].franja
            /\ gs[h].tipo = "NORMAL" => gs2[h].regla = gs[h].regla
        BY <3>1, <4>a DEF MismaClase, EsClase
      <4> QED BY <2>2, <3>1, <4>1 DEF GruposDePedido
    <3>2. CASE gs[h] = Nada
      <4>1. h # q.grupo /\ h \notin GruposDePedido(q, gs)
        BY <2>1, <3>2 DEF EsClase, GruposDePedido
      <4>2. ASSUME h \in GruposDePedido(q, gs2) PROVE FALSE
        <5>1. /\ EsClase(gs2[h]) /\ gs2[h].regla = gs[q.grupo].regla
              /\ gs[q.grupo].regla # Nada
          BY <2>2, <4>1, <4>2 DEF GruposDePedido, EsClase
        <5>2. gs[gs2[h].regla] = Nada
          BY <3>2, <5>1 DEF Ajeno
        <5>3. gs[gs[q.grupo].regla] # Nada
          BY <2>1, <5>1 DEF ReglasCargadas
        <5> QED BY <5>1, <5>2, <5>3
      <4> QED BY <4>1, <4>2
    <3> QED BY <3>1, <3>2
  <2>4. ASSUME NEW i \in Ids
        PROVE  (i[1] \in GruposDePedido(q, gs2) /\ rs2[i] # Nada)
                  <=> (i[1] \in GruposDePedido(q, gs) /\ rs[i] # Nada)
    <3>1. i[1] \in Grupos
      BY DEF Ids
    <3>2. rs[i] = Nada /\ rs2[i] # Nada => gs[i[1]] = Nada
      BY DEF Ajeno
    <3>3. rs[i] # Nada => rs2[i] # Nada
      BY DEF Ajeno
    <3> QED BY <2>3, <3>1, <3>2, <3>3
  <2> QED BY <2>1, <2>2, <2>4 DEF VistoAlCancelarSerie
<1>7. ASSUME q.op = "cambiar" PROVE VistoAlCambiar(t, gs2, es2)
  <2>1. es2 = es
    BY <1>1, <1>7, ModoTipo DEF Ajeno
  <2>2. VistoAlCambiar(t, gs, es)
    BY <1>7 DEF Visto
  <2>3. q.id \in V
    BY <2>2 DEF VistoAlCambiar
  <2>4. ASSUME NEW i \in V
        PROVE  /\ Bloque(gs2, i) <=> Bloque(gs, i)
               /\ FranjaEn(gs2, i) = FranjaEn(gs, i)
               /\ gs2[i[1]].docente = gs[i[1]].docente
               /\ ~Bloque(gs, i) => gs2[i[1]].regla = gs[i[1]].regla
    BY <1>1, FilaEstable
  <2> HIDE DEF q, V
  <2> QED BY <2>1, <2>2, <2>3, <2>4 DEF VistoAlCambiar, q, V
<1>8. ASSUME q.op = "sacar" PROVE VistoAlSacar(t, rs2, gs2)
  <2>1. VistoAlSacar(t, rs, gs)
    BY <1>8 DEF Visto
  <2>2. \A i \in Ids : ConfirmadaEn(rs2, i) => ConfirmadaEn(rs, i) /\ rs2[i].equipo = rs[i].equipo
    BY <1>1, <1>8, ModoTipo DEF Ajeno
  <2>3. \A i \in Ids : rs[i] # Nada => FranjaEn(gs2, i) = FranjaEn(gs, i)
    BY FilaEstable
  <2> QED BY <1>1, <2>1, <2>2, <2>3 DEF VistoAlSacar, ConfirmadaEn
<1>9. ASSUME q.op = "sinDocente" PROVE VistoSinDocente(t, rs2, gs2)
  <2>1. VistoSinDocente(t, rs, gs)
    BY <1>9 DEF Visto
  <2>2. \A i \in Ids : ConfirmadaEn(rs2, i) => ConfirmadaEn(rs, i) /\ rs2[i].equipo = rs[i].equipo
    BY <1>1, <1>9, ModoTipo DEF Ajeno
  <2>3. \A i \in Ids : rs[i] # Nada => /\ FranjaEn(gs2, i) = FranjaEn(gs, i)
                                       /\ Bloque(gs2, i) <=> Bloque(gs, i)
                                       /\ ~Bloque(gs, i) => gs2[i[1]].materia = gs[i[1]].materia
    BY FilaEstable
  <2> QED BY <1>1, <2>1, <2>2, <2>3 DEF VistoSinDocente, ConfirmadaEn
<1>10. ASSUME q.op = "jornada" PROVE VistoPorJornada(t, gs2)
  BY <1>1, <1>10, FilaEstable DEF Visto, VistoPorJornada
<1>11. ASSUME q.op = "finalizar" PROVE VistoAlFinalizar(t, gs2)
  BY <1>1, <1>11, FilaEstable DEF Visto, VistoAlFinalizar
<1>12. ASSUME q.op = "condicion" PROVE VistoDeCondicion(t, es2)
  <2>1. es2 = es
    BY <1>1, <1>12, ModoTipo DEF Ajeno
  <2> QED BY <1>12, <2>1 DEF Visto
<1>13. q.op \in {"cancelar", "liberar"} => V = {q.id}
  BY DEF Visto
<1> HIDE DEF q, V
<1> QED BY <1>2, <1>3, <1>4, <1>5, <1>6, <1>7, <1>8, <1>9, <1>10, <1>11, <1>12, <1>13
        DEF Visto, q, V

\* Locked is locked.
LEMMA TomadoSeConserva ==
    ASSUME NEW t \in Registro, NEW rs, NEW gs, NEW es, NEW rs2, NEW gs2, NEW es2,
           TablasOK(rs, gs, es), Ajeno(t, rs, gs, es, rs2, gs2, es2),
           \A i \in DOMAIN t.vistas : rs[i] # Nada, Tomado(t, rs, gs)
    PROVE  Tomado(t, rs2, gs2)
<1>1. DOMAIN t.vistas \subseteq Ids /\ DOMAIN t.releidas \subseteq Ids
  BY RegistroTipo
<1>2. ASSUME NEW i \in DOMAIN t.vistas PROVE LlaveEn(gs2, i) \in t.faltan \cup t.tiene
  BY <1>1, FilaEstable DEF Tomado
<1>3. ASSUME t.fase # "tomando", NEW i \in DOMAIN t.releidas
      PROVE  /\ t.releidas[i] = rs2[i] /\ rs2[i] # Nada /\ LlaveEn(gs2, i) \in t.tiene
  <2>1. i \in Ids /\ t.releidas[i] = rs[i] /\ rs[i] # Nada /\ LlaveEn(gs, i) \in t.tiene
    BY <1>1, <1>3 DEF Tomado
  <2>2. rs2[i] = rs[i]
    BY <2>1 DEF Ajeno
  <2>3. LlaveEn(gs2, i) = LlaveEn(gs, i)
    BY <2>1, FilaEstable
  <2> QED BY <2>1, <2>2, <2>3
<1> QED BY <1>2, <1>3 DEF Tomado

\* The value of a row, written over or not.
LEMMA SobreValor ==
    ASSUME NEW f, NEW tabla
    PROVE  /\ DOMAIN Sobre(f, tabla) = DOMAIN tabla
           /\ \A x \in DOMAIN tabla : Sobre(f, tabla)[x] = IF x \in DOMAIN f THEN f[x] ELSE tabla[x]
BY DEF Sobre

\* Nobody else can bring into being what t is about to create.
LEMMA AltasEstables ==
    ASSUME NEW t \in Registro, NEW rs, NEW gs, NEW es, NEW rs2, NEW gs2, NEW es2,
           Ajeno(t, rs, gs, es, rs2, gs2, es2), NEW g \in DOMAIN t.altas
    PROVE  g \in Grupos /\ (gs2[g] = Nada <=> gs[g] = Nada)
<1>1. g \in Grupos
  BY RegistroTipo
<1>2. gs[g] # Nada => gs2[g] = gs[g] \/ MismaClase(gs[g], gs2[g])
  BY <1>1 DEF Ajeno
<1>3. gs[g] # Nada => gs2[g] # Nada
  BY <1>2 DEF MismaClase, EsClase
<1> QED BY <1>1, <1>3 DEF Ajeno

\* What is written stays under its locks, or new.
LEMMA BajoLlaveSeConserva ==
    ASSUME NEW t \in Registro, NEW rs, NEW gs, NEW es, NEW rs2, NEW gs2, NEW es2,
           TablasOK(rs, gs, es), TablasOK(rs2, gs2, es2), Ajeno(t, rs, gs, es, rs2, gs2, es2),
           EscritoBajoLlave(t, rs, gs)
    PROVE  EscritoBajoLlave(t, rs2, gs2)
<1>1. DOMAIN t.filas \subseteq Ids /\ DOMAIN t.altas \subseteq Grupos
  BY RegistroTipo
<1>2. ASSUME NEW i \in DOMAIN t.filas
      PROVE  /\ rs2[i] # Nada => LlaveEn(gs2, i) \in t.tiene
             /\ rs2[i] = Nada => /\ i[1] \in DOMAIN t.altas /\ gs2[i[1]] = Nada
                                 /\ t.filas[i].estado = "CONFIRMADA"
  <2>1. CASE rs[i] # Nada
    <3>1. LlaveEn(gs, i) \in t.tiene
      BY <2>1 DEF EscritoBajoLlave
    <3> QED BY <1>1, <2>1, <3>1, FilaEstable
  <2>2. CASE rs[i] = Nada
    <3>1. i[1] \in DOMAIN t.altas /\ gs[i[1]] = Nada /\ t.filas[i].estado = "CONFIRMADA"
      BY <2>2 DEF EscritoBajoLlave
    <3>2. gs2[i[1]] = Nada
      BY <3>1 DEF Ajeno
    <3>3. rs2[i] = Nada
      BY <1>1, <3>2 DEF TablasOK, Refs
    <3> QED BY <3>1, <3>2, <3>3
  <2> QED BY <2>1, <2>2
<1>3. ASSUME NEW g \in DOMAIN t.altas
      PROVE  /\ gs2[g] # Nada => MismaClase(gs2[g], t.altas[g]) /\ g \in t.tiene
             /\ gs2[g] = Nada /\ EsClase(t.altas[g]) /\ t.altas[g].regla # Nada =>
                   t.altas[g].regla \in DOMAIN t.altas /\ gs2[t.altas[g].regla] = Nada
  <2>1. g \in Grupos /\ (gs2[g] = Nada <=> gs[g] = Nada)
    BY AltasEstables
  <2>2. ASSUME gs[g] # Nada PROVE MismaClase(gs2[g], t.altas[g]) /\ g \in t.tiene
    <3>1. MismaClase(gs[g], t.altas[g]) /\ g \in t.tiene
      BY <2>2 DEF EscritoBajoLlave
    <3>2. gs2[g] = gs[g]
      BY <2>1, <2>2, <3>1 DEF Ajeno
    <3> QED BY <3>1, <3>2
  <2>3. ASSUME gs[g] = Nada, EsClase(t.altas[g]), t.altas[g].regla # Nada
        PROVE  t.altas[g].regla \in DOMAIN t.altas /\ gs2[t.altas[g].regla] = Nada
    <3>1. t.altas[g].regla \in DOMAIN t.altas /\ gs[t.altas[g].regla] = Nada
      BY <2>3 DEF EscritoBajoLlave
    <3> QED BY <3>1, AltasEstables
  <2> QED BY <2>1, <2>2, <2>3
<1> QED BY <1>2, <1>3 DEF EscritoBajoLlave

\* A group that t closes rows of is locked, with all its rows; of the others t writes nothing.
LEMMA ElGrupoSeConserva ==
    ASSUME NEW t \in Registro, NEW rs, NEW gs, NEW es, NEW rs2, NEW gs2, NEW es2,
           TablasOK(rs, gs, es), TablasOK(rs2, gs2, es2), Ajeno(t, rs, gs, es, rs2, gs2, es2),
           EscritoBajoLlave(t, rs, gs), EscritoElGrupo(t, rs, gs)
    PROVE  EscritoElGrupo(t, rs2, gs2)
<1> DEFINE GC == GruposCerrados(t)
           a == Sobre(t.filas, rs)
           b == Sobre(t.filas, rs2)
<1>1. /\ DOMAIN t.filas \subseteq Ids /\ DOMAIN t.altas \subseteq Grupos
      /\ DOMAIN rs = Ids /\ DOMAIN rs2 = Ids /\ DOMAIN gs = Grupos /\ DOMAIN gs2 = Grupos
  BY RegistroTipo DEF TablasOK
<1>2. ASSUME NEW g \in GC PROVE gs[g] # Nada /\ (EsClase(gs[g]) => g \in t.tiene)
  <2>1. PICK i \in DOMAIN t.filas : t.filas[i].estado # "CONFIRMADA" /\ g = i[1]
    BY DEF GruposCerrados
  <2>2. rs[i] # Nada /\ LlaveEn(gs, i) \in t.tiene
    BY <2>1 DEF EscritoBajoLlave
  <2>3. i \in Ids /\ gs[i[1]] # Nada
    BY <1>1, <2>2 DEF TablasOK, Refs
  <2> QED BY <2>1, <2>2, <2>3 DEF LlaveEn, Bloque, EsClase
<1> SUFFICES ASSUME NEW g \in Grupos, gs2[g] # Nada
             PROVE  Sobre(t.altas, gs2)[g] = Recalculados(gs2, b, GC)[g]
  BY DEF EscritoElGrupo
<1>3. /\ Sobre(t.altas, gs2)[g] = IF g \in DOMAIN t.altas THEN t.altas[g] ELSE gs2[g]
      /\ Sobre(t.altas, gs)[g] = IF g \in DOMAIN t.altas THEN t.altas[g] ELSE gs[g]
  BY <1>1, SobreValor
<1>4. CASE gs[g] = Nada
  <2>1. g \notin DOMAIN t.altas
    BY <1>4 DEF Ajeno
  <2>2. g \notin GC
    BY <1>2, <1>4
  <2>3. Recalculados(gs2, b, GC)[g] = gs2[g]
    BY <2>2 DEF Recalculados
  <2> QED BY <1>3, <2>1, <2>3
<1>5. CASE gs[g] # Nada /\ ~(g \in GC /\ EsClase(gs[g]))
  <2>1. EsClase(gs2[g]) <=> EsClase(gs[g])
    BY <1>5, GrupoEstable DEF Ajeno
  <2>2. Recalculados(gs2, b, GC)[g] = gs2[g] /\ Recalculados(gs, a, GC)[g] = gs[g]
    BY <1>5, <2>1 DEF Recalculados, EsClase
  <2>3. Sobre(t.altas, gs)[g] = gs[g]
    BY <1>5, <2>2 DEF EscritoElGrupo
  <2>4. g \in DOMAIN t.altas => gs2[g] = gs[g]
    BY <1>5 DEF EscritoBajoLlave, Ajeno
  <2> QED BY <1>3, <2>2, <2>3, <2>4
<1>6. CASE g \in GC /\ EsClase(gs[g])
  <2>1. g \in t.tiene /\ gs[g] # Nada /\ gs2[g] = gs[g]
    BY <1>2, <1>6 DEF Ajeno
  <2>2. \A e \in Equipos : b[<<g, e>>] = a[<<g, e>>]
    <3> TAKE e \in Equipos
    <3> DEFINE i == <<g, e>>
    <3>1. i \in Ids /\ i[1] = g
      BY DEF Ids
    <3>2. rs2[i] = rs[i]
      <4>1. CASE rs[i] # Nada
        <5>1. LlaveEn(gs, i) = g
          BY <1>6, <3>1 DEF LlaveEn, Bloque, EsClase
        <5> QED BY <2>1, <3>1, <4>1, <5>1 DEF Ajeno
      <4>2. CASE rs[i] = Nada
        BY <2>1, <3>1, <4>2 DEF Ajeno
      <4> QED BY <4>1, <4>2
    <3> HIDE DEF i
    <3> QED BY <1>1, <3>1, <3>2, SobreValor DEF i
  <2> HIDE DEF a, b
  <2>3. EstadosDelGrupo(b, g) = EstadosDelGrupo(a, g)
    BY <2>2 DEF EstadosDelGrupo
  <2>4. Recalculados(gs2, b, GC)[g] = Recalculados(gs, a, GC)[g]
    BY <2>1, <2>3 DEF Recalculados
  <2>5. Sobre(t.altas, gs)[g] = Recalculados(gs, a, GC)[g]
    BY <2>1 DEF EscritoElGrupo, a
  <2> QED BY <1>3, <2>1, <2>4, <2>5
<1> QED BY <1>4, <1>5, <1>6

\* The closing that t wrote is still one over the tables another commit leaves.
LEMMA CierreSeConserva ==
    ASSUME NEW t \in Registro, NEW rs, NEW gs, NEW es, NEW rs2, NEW gs2, NEW es2,
           TablasOK(rs, gs, es), Ajeno(t, rs, gs, es, rs2, gs2, es2),
           \A i \in DOMAIN t.vistas : rs[i] # Nada, EscritoCierre(t, gs)
    PROVE  EscritoCierre(t, gs2)
<1> DEFINE q == t.pedido
<1>1. \A g \in DOMAIN t.altas : gs2[g] # Nada
  BY AltasEstables DEF EscritoCierre
<1>2. ASSUME q.op \in {"cancelar", "liberar"}
      PROVE  /\ Bloque(gs2, q.id) <=> Bloque(gs, q.id)
             /\ FranjaEn(gs2, q.id) = FranjaEn(gs, q.id)
             /\ gs2[q.id[1]].docente = gs[q.id[1]].docente
  <2>1. q.id \in DOMAIN t.vistas
    BY <1>2 DEF EscritoCierre, PorCerrar, SinTerminar
  <2> QED BY <2>1, RegistroTipo, FilaEstable
<1> HIDE DEF q
<1> QED BY <1>1, <1>2 DEF EscritoCierre, q

\* What t inserts is still new.
LEMMA InsercionSeConserva ==
    ASSUME NEW t \in Registro, NEW rs, NEW gs, NEW es, NEW rs2, NEW gs2, NEW es2,
           Ajeno(t, rs, gs, es, rs2, gs2, es2), NEW G, EscritaLaInsercion(t, gs, G)
    PROVE  EscritaLaInsercion(t, gs2, G)
BY AltasEstables DEF EscritaLaInsercion

\* The block that t wrote is still one.
LEMMA BloqueoSeConserva ==
    ASSUME NEW t \in Registro, NEW rs, NEW gs, NEW es, NEW rs2, NEW gs2, NEW es2,
           TablasOK(rs, gs, es), Ajeno(t, rs, gs, es, rs2, gs2, es2),
           \A i \in DOMAIN t.vistas : rs[i] # Nada, EscritoBloqueo(t, gs)
    PROVE  EscritoBloqueo(t, gs2)
<1>1. \A i \in Actuales(t) : /\ Bloque(gs2, i) <=> Bloque(gs, i)
                             /\ FranjaEn(gs2, i) = FranjaEn(gs, i)
  <2>1. Actuales(t) \subseteq DOMAIN t.vistas /\ DOMAIN t.vistas \subseteq Ids
    BY RegistroTipo DEF Actuales
  <2> QED BY <2>1, FilaEstable
<1>2. EnMedio(t, gs2) = EnMedio(t, gs)
  BY <1>1 DEF EnMedio
<1>3. PICK g \in Grupos :
         /\ EscritaLaInsercion(t, gs, {g})
         /\ t.altas[g] = [tipo |-> "BLOQUEO", franja |-> t.pedido.franja, docente |-> t.pedido.quien]
         /\ DOMAIN t.filas = EnMedio(t, gs) \cup Insertadas(t, {g})
         /\ \A i \in EnMedio(t, gs) : t.filas[i] = [t.releidas[i] EXCEPT !.estado = "CANCELADA"]
  BY DEF EscritoBloqueo
<1>4. EscritaLaInsercion(t, gs2, {g})
  BY <1>3, InsercionSeConserva
<1> QED BY <1>2, <1>3, <1>4 DEF EscritoBloqueo

\* The plan is about rows that t has locked, and about devices whose condition is frozen.
LEMMA PlanSeConserva ==
    ASSUME NEW t \in Registro, NEW rs, NEW gs, NEW es, NEW rs2, NEW gs2, NEW es2,
           TablasOK(rs, gs, es), Ajeno(t, rs, gs, es, rs2, gs2, es2),
           Tomado(t, rs, gs), t.fase # "tomando", t.pedido.op = "crear",
           NEW plan, PlanVigente(t, plan, rs, gs, es)
    PROVE  /\ PlanVigente(t, plan, rs2, gs2, es2)
           /\ \A i \in DOMAIN plan : i \in Ids /\ rs2[i] = rs[i]
<1>1. ASSUME NEW i \in DOMAIN plan
      PROVE  /\ i \in Ids /\ rs2[i] = rs[i] /\ rs[i] # Nada
             /\ Bloque(gs2, i) <=> Bloque(gs, i)
             /\ FranjaEn(gs2, i) = FranjaEn(gs, i)
             /\ gs2[i[1]].materia = gs[i[1]].materia
  <2>1. i \in DOMAIN t.releidas /\ i \in Ids /\ ~Bloque(gs, i)
    BY RegistroTipo DEF PlanVigente
  <2>2. rs[i] # Nada /\ LlaveEn(gs, i) \in t.tiene
    BY <2>1 DEF Tomado
  <2>3. rs2[i] = rs[i]
    BY <2>1, <2>2 DEF Ajeno
  <2> QED BY <2>1, <2>2, <2>3, FilaEstable
<1>2. es2 = es
  <2>1. Modo(t.pedido) # "ninguno"
    BY RegistroTipo, ModoTipo
  <2> QED BY <2>1 DEF Ajeno
<1>3. \A i \in DOMAIN plan : \A m : RobableEn(m, i, rs2, gs2, t.reloj) <=> RobableEn(m, i, rs, gs, t.reloj)
  BY <1>1 DEF RobableEn
<1>4. PrimerosDe(t, plan, rs2, gs2) = PrimerosDe(t, plan, rs, gs)
  BY <1>1 DEF PrimerosDe
<1>5. \A i \in PrimerosDe(t, plan, rs, gs) : i \in DOMAIN plan
  BY DEF PrimerosDe
<1>6. /\ DOMAIN plan \subseteq DOMAIN t.releidas
      /\ \A i \in DOMAIN plan : /\ plan[i] \in EnEspera(es2) \cup {Nada}
                                /\ ConfirmadaEn(rs2, i) /\ ~Bloque(gs2, i)
                                /\ ~YaEmpezo(FranjaEn(gs2, i), t.reloj)
  BY <1>1, <1>2 DEF PlanVigente, ConfirmadaEn
<1>7. /\ \A i \in PrimerosDe(t, plan, rs, gs) :
            /\ rs2[i].equipo \in t.pedido.T
            /\ RobableEn(t.pedido.materia, i, rs2, gs2, t.reloj)
      /\ \A i \in DOMAIN plan \ PrimerosDe(t, plan, rs, gs) :
            \E j \in DOMAIN plan \ {i} : RobableEn(gs2[j[1]].materia, i, rs2, gs2, t.reloj)
      /\ PrimerosDe(t, plan, rs, gs) = {} => plan = << >>
  BY <1>1, <1>3, <1>5 DEF PlanVigente
<1> QED BY <1>1, <1>4, <1>6, <1>7 DEF PlanVigente

\* The class that t wrote is still one, with the plan it displaces by.
LEMMA ClaseSeConserva ==
    ASSUME NEW t \in Registro, NEW rs, NEW gs, NEW es, NEW rs2, NEW gs2, NEW es2,
           TablasOK(rs, gs, es), TablasOK(rs2, gs2, es2), Ajeno(t, rs, gs, es, rs2, gs2, es2),
           Tomado(t, rs, gs), t.fase # "tomando", t.pedido.op = "crear",
           EscritaLaClase(t, rs, gs, es)
    PROVE  EscritaLaClase(t, rs2, gs2, es2)
<1> DEFINE q == t.pedido
<1>1. PICK plan \in Parcial(Ids, Equipos \cup {Nada}), G \in SUBSET Grupos :
      \E nuevos \in Bijection(G, q.F), regla \in ReglaDe(G) :
       /\ PlanVigente(t, plan, rs, gs, es)
       /\ EscritaLaInsercion(t, gs, G)
       /\ \A g \in G : t.altas[g] =
             [tipo |-> "NORMAL", estado |-> "CONFIRMADA", franja |-> nuevos[g],
              materia |-> q.materia, docente |-> q.quien, regla |-> regla]
       /\ DOMAIN t.filas \subseteq DOMAIN plan \cup Insertadas(t, G)
       /\ \A i \in DOMAIN plan : Sobre(t.filas, rs)[i] = AplicarPlan(rs, plan)[i]
  BY DEF EscritaLaClase
<1>2. PlanVigente(t, plan, rs2, gs2, es2) /\ \A i \in DOMAIN plan : i \in Ids /\ rs2[i] = rs[i]
  BY <1>1, PlanSeConserva
<1>3. EscritaLaInsercion(t, gs2, G)
  BY <1>1, InsercionSeConserva
<1>4. ASSUME NEW i \in DOMAIN plan
      PROVE  Sobre(t.filas, rs2)[i] = AplicarPlan(rs2, plan)[i]
  <2>1. DOMAIN rs = Ids /\ DOMAIN rs2 = Ids
    BY DEF TablasOK
  <2>2. Sobre(t.filas, rs2)[i] = Sobre(t.filas, rs)[i]
    BY <1>2, <2>1, SobreValor
  <2>3. AplicarPlan(rs2, plan)[i] = AplicarPlan(rs, plan)[i]
    BY <1>2 DEF AplicarPlan
  <2> QED BY <1>1, <2>2, <2>3
<1> QED BY <1>1, <1>2, <1>3, <1>4 DEF EscritaLaClase

\* The commit of another transaction takes nothing from what t knows and wrote.
LEMMA EnCursoSeConserva ==
    ASSUME NEW t \in Registro, NEW rs, NEW gs, NEW es, NEW rs2, NEW gs2, NEW es2,
           TablasOK(rs, gs, es), TablasOK(rs2, gs2, es2), ReglasCargadas(gs),
           Ajeno(t, rs, gs, es, rs2, gs2, es2), EnCurso(t, rs, gs, es)
    PROVE  EnCurso(t, rs2, gs2, es2)
<1>1. Visto(t, rs, gs, es) /\ Tomado(t, rs, gs) /\ \A i \in DOMAIN t.vistas : rs[i] # Nada
  BY DEF EnCurso, Visto
<1>2. Visto(t, rs2, gs2, es2) /\ Tomado(t, rs2, gs2)
  BY <1>1, VistoSeConserva, TomadoSeConserva
<1>3. ASSUME t.fase = "escrito" PROVE Escrito(t, rs2, gs2, es2)
  <2>1. Escrito(t, rs, gs, es)
    BY <1>3 DEF EnCurso
  <2>2. EscritoBajoLlave(t, rs2, gs2) /\ EscritoElGrupo(t, rs2, gs2)
    BY <2>1, BajoLlaveSeConserva, ElGrupoSeConserva DEF Escrito
  <2>3. EscritoElEquipo(t, es2)
    <3>1. t.pedido.op \in {"sacar", "condicion"} => es2 = es
      BY RegistroTipo, ModoTipo DEF Ajeno
    <3> QED BY <2>1, <3>1 DEF Escrito, EscritoElEquipo
  <2>4. t.pedido.op \in OpsDeCierre => EscritoCierre(t, gs2)
    BY <1>1, <2>1, CierreSeConserva DEF Escrito
  <2>5. t.pedido.op = "bloquear" => EscritoBloqueo(t, gs2)
    BY <1>1, <2>1, BloqueoSeConserva DEF Escrito
  <2>6. t.pedido.op = "crear" => EscritaLaClase(t, rs2, gs2, es2)
    BY <1>1, <1>3, <2>1, ClaseSeConserva DEF Escrito
  <2> QED BY <2>1, <2>2, <2>3, <2>4, <2>5, <2>6 DEF Escrito
<1> QED BY <1>2, <1>3 DEF EnCurso

-----------------------------------------------------------------------------
(* What the commit of a transaction does to the others                       *)

\* What a commit writes over the tables.
LEMMA ComiteEscribe ==
    ASSUME NEW u \in Registro, NEW rs, NEW gs, NEW es, TablasOK(rs, gs, es),
           EscritoBajoLlave(u, rs, gs)
    PROVE  /\ \A i \in Ids : IF i \in DOMAIN u.filas
                             THEN /\ Sobre(u.filas, rs)[i] = u.filas[i] /\ u.filas[i] # Nada
                                  /\ u.filas[i] \in Reserva
                             ELSE Sobre(u.filas, rs)[i] = rs[i]
           /\ \A g \in Grupos : IF g \in DOMAIN u.altas
                                THEN /\ Sobre(u.altas, gs)[g] = u.altas[g] /\ u.altas[g] # Nada
                                     /\ gs[g] # Nada => MismaClase(gs[g], u.altas[g])
                                ELSE Sobre(u.altas, gs)[g] = gs[g]
<1>1. /\ DOMAIN u.filas \subseteq Ids /\ DOMAIN u.altas \subseteq Grupos
      /\ DOMAIN rs = Ids /\ DOMAIN gs = Grupos
  BY RegistroTipo DEF TablasOK
<1>2. /\ \A i \in DOMAIN u.filas : u.filas[i] \in Reserva /\ u.filas[i] # Nada
      /\ \A g \in DOMAIN u.altas : u.altas[g] # Nada
  BY RegistroTipo, ReservasAssumption
<1>3. \A g \in DOMAIN u.altas : gs[g] # Nada => MismaClase(gs[g], u.altas[g])
  BY DEF EscritoBajoLlave
<1> QED BY <1>1, <1>2, <1>3, SobreValor

\* The commit of u is, for t, the commit of another.
LEMMA ComiteEsAjeno ==
    ASSUME NEW t \in Registro, NEW u \in Registro, NEW rs, NEW gs, NEW es, TablasOK(rs, gs, es),
           EnCurso(u, rs, gs, es), u.fase = "escrito",
           CompatiblesT(t, u), CompatiblesT(u, t)
    PROVE  Ajeno(t, rs, gs, es, Sobre(u.filas, rs), Sobre(u.altas, gs), Sobre(u.estados, es))
<1> DEFINE rs2 == Sobre(u.filas, rs)
           gs2 == Sobre(u.altas, gs)
           es2 == Sobre(u.estados, es)
<1>1. EscritoBajoLlave(u, rs, gs) /\ EscritoElEquipo(u, es) /\ Escrito(u, rs, gs, es)
  BY DEF EnCurso, Escrito
<1>2. /\ \A i \in Ids : IF i \in DOMAIN u.filas THEN rs2[i] = u.filas[i] /\ rs2[i] # Nada
                                                ELSE rs2[i] = rs[i]
      /\ \A g \in Grupos : IF g \in DOMAIN u.altas
                           THEN /\ gs2[g] = u.altas[g] /\ gs2[g] # Nada
                                /\ gs[g] # Nada => MismaClase(gs[g], gs2[g])
                           ELSE gs2[g] = gs[g]
  BY <1>1, ComiteEscribe
<1>3. /\ DOMAIN u.filas \subseteq Ids /\ DOMAIN t.altas \subseteq Grupos
      /\ t.tiene \cap u.tiene = {} /\ DOMAIN t.altas \cap DOMAIN u.altas = {}
      /\ t.pedido \in Pedidos /\ u.pedido \in Pedidos
  BY RegistroTipo DEF CompatiblesT
<1> HIDE DEF rs2, gs2
<1>4. ASSUME NEW i \in Ids, rs[i] # Nada
      PROVE  rs2[i] # Nada /\ (LlaveEn(gs, i) \in t.tiene => rs2[i] = rs[i])
  <2>1. i \in DOMAIN u.filas => LlaveEn(gs, i) \in u.tiene
    BY <1>1, <1>4 DEF EscritoBajoLlave
  <2> QED BY <1>2, <1>3, <1>4, <2>1
<1>5. ASSUME NEW i \in Ids, rs[i] = Nada, rs2[i] # Nada PROVE gs[i[1]] = Nada
  BY <1>1, <1>2, <1>5 DEF EscritoBajoLlave
<1>6. ASSUME NEW g \in Grupos, gs[g] # Nada
      PROVE  /\ gs2[g] = gs[g] \/ MismaClase(gs[g], gs2[g])
             /\ g \in t.tiene => gs2[g] = gs[g]
  <2>1. g \in DOMAIN u.altas => g \in u.tiene
    BY <1>1, <1>6 DEF EscritoBajoLlave
  <2> QED BY <1>2, <1>3, <1>6, <2>1
<1>7. ASSUME NEW g \in Grupos, gs[g] = Nada, EsClase(gs2[g]), gs2[g].regla # Nada
      PROVE  gs[gs2[g].regla] = Nada
  <2>1. g \in DOMAIN u.altas /\ gs2[g] = u.altas[g]
    BY <1>2, <1>7 DEF EsClase
  <2> QED BY <1>1, <1>7, <2>1 DEF EscritoBajoLlave
<1>8. \A g \in DOMAIN t.altas : gs[g] = Nada => gs2[g] = Nada
  BY <1>2, <1>3
<1>9. ASSUME Modo(t.pedido) # "ninguno" PROVE es2 = es
  <2>1. Modo(u.pedido) # "exclusivo"
    BY <1>9 DEF CompatiblesT
  <2>2. u.pedido.op \notin {"sacar", "condicion"}
    BY <1>3, <2>1, ModoTipo
  <2>3. DOMAIN u.estados = {}
    BY <1>1, <2>2 DEF EscritoElEquipo
  <2> QED BY <2>3 DEF Sobre, TablasOK
<1>10. ASSUME Modo(t.pedido) = "exclusivo", NEW i \in Ids, ConfirmadaEn(rs2, i)
       PROVE  ConfirmadaEn(rs, i) /\ rs2[i].equipo = rs[i].equipo
  <2>1. u.pedido.op \in {"cancelar", "cancelarSerie", "finalizar"}
    BY <1>3, <1>10, ModoTipo DEF CompatiblesT
  <2>2. EscritoCierre(u, gs) /\ u.pedido.op \in OpsDeCierre
    BY <1>1, <2>1 DEF Escrito, OpsDeCierre
  <2>3. i \notin DOMAIN u.filas
    <3> SUFFICES ASSUME i \in DOMAIN u.filas PROVE FALSE
      OBVIOUS
    <3>1. i \in PorCerrar(u) /\ u.filas[i] = [u.releidas[i] EXCEPT !.estado = EstadoFinal(u.pedido)]
      BY <2>2 DEF EscritoCierre
    <3>2. u.filas[i] \in Reserva
      BY RegistroTipo
    <3>3. u.filas[i].estado = "CONFIRMADA"
      BY <1>2, <1>10 DEF ConfirmadaEn
    <3>4. u.releidas[i] \in Reserva
      <4>1. i \in DOMAIN u.vistas
        BY <3>1 DEF PorCerrar, SinTerminar, Actuales
      <4>2. DOMAIN u.vistas \subseteq DOMAIN u.releidas
        BY DEF EnCurso, Tomado
      <4> QED BY <4>1, <4>2, RegistroTipo
    <3>5. u.filas[i].estado = EstadoFinal(u.pedido)
      BY <3>1, <3>4 DEF Reserva
    <3> QED BY <3>3, <3>5 DEF EstadoFinal
  <2> QED BY <1>2, <1>10, <2>3 DEF ConfirmadaEn
<1> QED BY <1>4, <1>5, <1>6, <1>7, <1>8, <1>9, <1>10 DEF Ajeno, rs2, gs2, es2

-----------------------------------------------------------------------------
(* What a transaction writes                                                 *)

EsTabla(f, D) == f = [x \in D |-> f[x]]

\* Cambios is what Sobre needs to turn one table into the other.
LEMMA SobreCambios ==
    ASSUME NEW D, NEW f, NEW g, EsTabla(f, D), EsTabla(g, D)
    PROVE  /\ \A x : x \in DOMAIN Cambios(f, g) <=> x \in D /\ f[x] # g[x]
           /\ \A x \in DOMAIN Cambios(f, g) : Cambios(f, g)[x] = f[x]
           /\ Sobre(Cambios(f, g), g) = f
<1>0. DOMAIN f = D /\ DOMAIN g = D
  BY DEF EsTabla
<1>1. \A x : x \in DOMAIN Cambios(f, g) <=> x \in D /\ f[x] # g[x]
  BY <1>0 DEF Cambios, Restrict
<1>2. \A x \in DOMAIN Cambios(f, g) : Cambios(f, g)[x] = f[x]
  BY <1>0 DEF Cambios, Restrict
<1>3. \A x \in D : Sobre(Cambios(f, g), g)[x] = f[x]
  BY <1>0, <1>1, <1>2, SobreValor
<1>4. Sobre(Cambios(f, g), g) = [x \in D |-> Sobre(Cambios(f, g), g)[x]]
  BY <1>0 DEF Sobre
<1>5. Sobre(Cambios(f, g), g) = f
  BY <1>3, <1>4 DEF EsTabla
<1> QED BY <1>1, <1>2, <1>5

\* Recomputing a group leaves it the same class.
LEMMA RecalculadosMisma ==
    ASSUME NEW rs \in [Ids -> Reserva \cup {Nada}], NEW gs \in [Grupos -> FilasGrupo], NEW G,
           NEW g \in Grupos, Recalculados(gs, rs, G)[g] # gs[g]
    PROVE  g \in G /\ gs[g] # Nada /\ MismaClase(gs[g], Recalculados(gs, rs, G)[g])
<1> DEFINE n == Recalculados(gs, rs, G)[g]
           e == EstadoDeGrupo(EstadosDelGrupo(rs, g), gs[g].estado)
<1>1. g \in G /\ EsClase(gs[g]) /\ n = [gs[g] EXCEPT !.estado = e]
  BY DEF Recalculados, EsClase
<1>2. gs[g] \in Grupo /\ EsClase(n)
  BY <1>1, ClaseEsGrupo, RecalculadosFila
<1> HIDE DEF e
<1>3. /\ n.franja = gs[g].franja /\ n.materia = gs[g].materia /\ n.docente = gs[g].docente
      /\ n.regla = gs[g].regla
  BY <1>1, <1>2 DEF Grupo
<1> HIDE DEF n
<1> QED BY <1>1, <1>2, <1>3 DEF MismaClase, EsClase, n

\* What a transaction read again under its locks.
LEMMA LeidasVigentes ==
    ASSUME IInv, NEW t \in Registro, Tomado(t, reservas, grupos), t.fase # "tomando",
           NEW i \in DOMAIN t.releidas
    PROVE  /\ i \in Ids /\ reservas[i] = t.releidas[i] /\ reservas[i] \in Reserva
           /\ reservas[i] # Nada /\ i[1] \in Grupos /\ grupos[i[1]] \in FilasGrupo \ {Nada}
           /\ LlaveEn(grupos, i) \in t.tiene
           /\ EsClase(grupos[i[1]]) => i[1] \in t.tiene
<1>1. i \in Ids /\ reservas[i] = t.releidas[i] /\ reservas[i] # Nada /\ LlaveEn(grupos, i) \in t.tiene
  BY RegistroTipo DEF Tomado
<1>2. reservas[i] \in Reserva /\ i[1] \in Grupos /\ grupos[i[1]] \in FilasGrupo \ {Nada}
  BY <1>1, FilaTipo DEF IInv
<1>3. EsClase(grupos[i[1]]) => LlaveEn(grupos, i) = i[1]
  BY DEF EsClase, LlaveEn, Bloque
<1> QED BY <1>1, <1>2, <1>3

\* Closing rows of those read again.
LEMMA EscribeCierre ==
    ASSUME IInv, NEW t \in Registro, Tomado(t, reservas, grupos), t.fase # "tomando",
           NEW S \in SUBSET DOMAIN t.releidas, \A i \in S : t.releidas[i].estado = "CONFIRMADA",
           NEW estado \in ReservaTerminal, NEW u, u.tiene = t.tiene,
           u.filas = Cambios(ConEstado(reservas, S, estado), reservas),
           u.altas = Cambios(Recalculados(grupos, ConEstado(reservas, S, estado), GruposDe(S)), grupos)
    PROVE  /\ DOMAIN u.filas = S
           /\ \A i \in S : u.filas[i] = [t.releidas[i] EXCEPT !.estado = estado]
           /\ \A g \in DOMAIN u.altas : grupos[g] # Nada
           /\ EscritoBajoLlave(u, reservas, grupos) /\ EscritoElGrupo(u, reservas, grupos)
<1> DEFINE rs == ConEstado(reservas, S, estado)
           gs == Recalculados(grupos, rs, GruposDe(S))
<1>1. /\ reservas \in [Ids -> Reserva \cup {Nada}] /\ grupos \in [Grupos -> FilasGrupo]
      /\ TypeOK /\ Referencias
  BY IInvTablas DEF IInv
<1>2. \A i \in S : /\ i \in Ids /\ reservas[i] = t.releidas[i] /\ reservas[i] \in Reserva
                   /\ reservas[i] # Nada /\ i[1] \in Grupos
                   /\ LlaveEn(grupos, i) \in t.tiene
                   /\ EsClase(grupos[i[1]]) => i[1] \in t.tiene
  BY LeidasVigentes
<1>3. S \in SUBSET Ids /\ \A i \in S : Confirmada(i)
  BY <1>2 DEF Confirmada
<1>4. rs \in [Ids -> Reserva \cup {Nada}]
  BY <1>1, <1>3, CerradasFilas
<1>5. gs \in [Grupos -> FilasGrupo]
  BY <1>1, <1>4, RecalculadosTipo
<1>6. \A i \in Ids : rs[i] = IF i \in S THEN [reservas[i] EXCEPT !.estado = estado] ELSE reservas[i]
  BY DEF ConEstado
<1>7. \A i \in S : rs[i].estado = estado /\ rs[i].estado # "CONFIRMADA" /\ rs[i] # reservas[i]
  <2> TAKE i \in S
  <2>1. rs[i] = [reservas[i] EXCEPT !.estado = estado] /\ reservas[i] \in Reserva
    BY <1>2, <1>6
  <2>2. rs[i].estado = estado
    BY <2>1 DEF Reserva
  <2>3. reservas[i].estado = "CONFIRMADA" /\ estado # "CONFIRMADA"
    BY <1>3 DEF Confirmada, ReservaTerminal
  <2> QED BY <2>2, <2>3
<1>a. /\ \A x : x \in DOMAIN u.filas <=> x \in Ids /\ rs[x] # reservas[x]
      /\ \A x \in DOMAIN u.filas : u.filas[x] = rs[x]
      /\ Sobre(u.filas, reservas) = rs
      /\ \A x : x \in DOMAIN u.altas <=> x \in Grupos /\ gs[x] # grupos[x]
      /\ \A x \in DOMAIN u.altas : u.altas[x] = gs[x]
      /\ Sobre(u.altas, grupos) = gs
  <2>1. u.filas = Cambios(rs, reservas) /\ u.altas = Cambios(gs, grupos)
    OBVIOUS
  <2> HIDE DEF rs, gs
  <2>0. /\ EsTabla(rs, Ids) /\ EsTabla(reservas, Ids)
        /\ EsTabla(gs, Grupos) /\ EsTabla(grupos, Grupos)
    BY <1>1, <1>4, <1>5 DEF EsTabla
  <2>2. /\ \A x : x \in DOMAIN u.filas <=> x \in Ids /\ rs[x] # reservas[x]
        /\ \A x \in DOMAIN u.filas : u.filas[x] = rs[x]
        /\ Sobre(u.filas, reservas) = rs
    BY <2>0, <2>1, SobreCambios
  <2>3. /\ \A x : x \in DOMAIN u.altas <=> x \in Grupos /\ gs[x] # grupos[x]
        /\ \A x \in DOMAIN u.altas : u.altas[x] = gs[x]
        /\ Sobre(u.altas, grupos) = gs
    BY <2>0, <2>1, SobreCambios
  <2> QED BY <2>2, <2>3
<1>8. DOMAIN u.filas = S
  <2> HIDE DEF rs, gs
  <2>1. \A i \in Ids : rs[i] # reservas[i] <=> i \in S
    BY <1>6, <1>7
  <2> QED BY <1>a, <1>3, <2>1
<1>9. \A i \in S : u.filas[i] = [t.releidas[i] EXCEPT !.estado = estado]
  <2> TAKE i \in S
  <2>1. u.filas[i] = rs[i] /\ i \in Ids
    BY <1>a, <1>8, <1>3
  <2>2. rs[i] = [reservas[i] EXCEPT !.estado = estado]
    BY <1>6, <2>1
  <2>3. reservas[i] = t.releidas[i]
    BY <1>2
  <2> HIDE DEF rs, gs
  <2> QED BY <2>1, <2>2, <2>3
<1>10. \A g \in DOMAIN u.altas :
          g \in GruposDe(S) /\ grupos[g] # Nada /\ MismaClase(grupos[g], u.altas[g])
  <2> TAKE g \in DOMAIN u.altas
  <2>1. g \in Grupos /\ gs[g] # grupos[g] /\ u.altas[g] = gs[g]
    BY <1>a
  <2> QED BY <1>1, <1>4, <2>1, RecalculadosMisma
<1>11. EscritoBajoLlave(u, reservas, grupos)
  <2>1. \A i \in DOMAIN u.filas : LlaveEn(grupos, i) \in u.tiene /\ reservas[i] # Nada
    BY <1>2, <1>8
  <2>2. ASSUME NEW g \in DOMAIN u.altas PROVE g \in u.tiene
    <3>1. PICK i \in S : g = i[1]
      BY <1>10 DEF GruposDe
    <3>2. EsClase(grupos[g])
      BY <1>10 DEF MismaClase
    <3> QED BY <1>2, <3>1, <3>2
  <2> QED BY <1>10, <2>1, <2>2 DEF EscritoBajoLlave
<1>12. GruposCerrados(u) = GruposDe(S)
  <2>1. \A i \in DOMAIN u.filas : u.filas[i].estado # "CONFIRMADA"
    BY <1>7, <1>8, <1>a
  <2> QED BY <1>8, <2>1 DEF GruposCerrados, GruposDe
<1>13. EscritoElGrupo(u, reservas, grupos)
  <2> HIDE DEF rs
  <2> QED BY <1>a, <1>12 DEF EscritoElGrupo
<1> QED BY <1>8, <1>9, <1>10, <1>11, <1>13

\* u is t once it has written w.
EscribeEn(t, u, w) ==
    /\ u.pedido = t.pedido /\ u.reloj = t.reloj /\ u.tiene = t.tiene
    /\ u.vistas = t.vistas /\ u.releidas = t.releidas
    /\ u.filas = Cambios(w.rs, reservas)
    /\ u.altas = Cambios(w.gs, grupos)
    /\ u.estados = Cambios(w.es, equipos)

\* The condition of the devices stays, or changes as the request asks.
LEMMA EscribeElEquipo ==
    ASSUME IInv, NEW t \in Registro, NEW u, NEW w, EscribeEn(t, u, w),
           t.pedido.op \notin {"sacar", "condicion"} => w.es = equipos,
           t.pedido.op = "sacar" => /\ w.es = [equipos EXCEPT ![t.pedido.equipo] = "fuera"]
                                    /\ equipos[t.pedido.equipo] = "fuera" => Actuales(t) # {},
           t.pedido.op = "condicion" => w.es = [equipos EXCEPT ![t.pedido.equipo] = t.pedido.nueva]
    PROVE  EscritoElEquipo(u, equipos)
<1>1. EsTabla(equipos, Equipos)
  BY IInvTablas DEF IInv, EsTabla
<1>2. t.pedido.op \in {"sacar", "condicion"} => EsTabla(w.es, Equipos)
  BY <1>1 DEF EsTabla
<1>3. u.pedido = t.pedido /\ u.estados = Cambios(w.es, equipos) /\ Actuales(u) = Actuales(t)
  BY DEF EscribeEn, Actuales
<1>4. t.pedido.op \in {"sacar", "condicion"} => Sobre(u.estados, equipos) = w.es
  BY <1>1, <1>2, <1>3, SobreCambios
<1>5. ASSUME t.pedido.op \notin {"sacar", "condicion"} PROVE DOMAIN u.estados = {}
  <2>1. u.estados = Cambios(equipos, equipos)
    BY <1>3, <1>5
  <2>2. \A x : x \notin DOMAIN Cambios(equipos, equipos)
    BY <1>1, SobreCambios
  <2> QED BY <2>1, <2>2
<1> QED BY <1>3, <1>4, <1>5 DEF EscritoElEquipo

\* The requests that close rows.
LEMMA EscribeUnCierre ==
    ASSUME IInv, NEW t \in Registro, EnCurso(t, reservas, grupos, equipos), t.fase = "releido",
           t.pedido.op \in OpsDeCierre, NEW w \in Escrituras(t), NEW u, EscribeEn(t, u, w)
    PROVE  Escrito(u, reservas, grupos, equipos)
<1> DEFINE q == t.pedido
           S == PorCerrar(t)
           estado == EstadoFinal(q)
<1>1. Visto(t, reservas, grupos, equipos) /\ Tomado(t, reservas, grupos)
  BY DEF EnCurso
<1>2. DOMAIN t.vistas \subseteq DOMAIN t.releidas
  BY <1>1 DEF Tomado
<1>3. /\ SinTerminar(t) \subseteq DOMAIN t.vistas /\ Actuales(t) \subseteq DOMAIN t.vistas
      /\ \A i \in SinTerminar(t) \cup Actuales(t) : t.releidas[i].estado = "CONFIRMADA"
  BY DEF SinTerminar, Actuales
<1>4. /\ S \in SUBSET DOMAIN t.releidas /\ \A i \in S : t.releidas[i].estado = "CONFIRMADA"
      /\ estado \in ReservaTerminal
  BY <1>2, <1>3 DEF PorCerrar, EstadoFinal, ReservaTerminal, EstadosReserva
<1>5. /\ w.rs = ConEstado(reservas, S, estado)
      /\ w.gs = Recalculados(grupos, ConEstado(reservas, S, estado), GruposDe(S))
      /\ q.op # "sacar" => w.es = equipos
      /\ q.op = "sacar" => /\ w.es = [equipos EXCEPT ![q.equipo] = "fuera"]
                           /\ equipos[q.equipo] = "fuera" => Actuales(t) # {}
      /\ q.op \in {"cancelar", "liberar"} => S = {q.id}
      /\ q.op = "cancelar" => /\ Bloque(grupos, q.id) => q.quien \in Admins
                              /\ PuedeCancelar(grupos[q.id[1]].docente, q.quien)
      /\ q.op = "liberar" => /\ ~Bloque(grupos, q.id)
                             /\ PuedeEntregarseEn(FranjaEn(grupos, q.id), "CONFIRMADA", t.reloj)
  <2>1. CASE q.op \in {"cancelar", "liberar"}
    <3>1. DOMAIN t.vistas = {q.id}
      BY <1>1, <2>1 DEF Visto
    <3>2. CASE q.op = "cancelar"
      <4>1. PICK i \in SinTerminar(t) :
               /\ EsBloqueo(i) => q.quien \in Admins
               /\ PuedeCancelar(grupos[i[1]].docente, q.quien)
               /\ w = Cierre({i}, "CANCELADA")
        BY <3>2 DEF Escrituras
      <4>2. i = q.id /\ SinTerminar(t) = {q.id}
        BY <1>3, <3>1, <4>1
      <4>3. S = {q.id} /\ estado = "CANCELADA"
        BY <3>2, <4>2 DEF PorCerrar, EstadoFinal
      <4> HIDE DEF S, estado, q
      <4> QED BY <3>2, <4>1, <4>2, <4>3 DEF Cierre, Tablas, EsBloqueo, Bloque
    <3>3. CASE q.op = "liberar"
      <4>1. PICK i \in SinTerminar(t) :
               /\ ~EsBloqueo(i)
               /\ PuedeEntregarseEn(FranjaDe(i), "CONFIRMADA", t.reloj)
               /\ w = Cierre({i}, "NO_RETIRADA")
        BY <3>3 DEF Escrituras
      <4>2. i = q.id /\ SinTerminar(t) = {q.id}
        BY <1>3, <3>1, <4>1
      <4>3. S = {q.id} /\ estado = "NO_RETIRADA"
        BY <3>3, <4>2 DEF PorCerrar, EstadoFinal
      <4> HIDE DEF S, estado, q
      <4> QED BY <3>3, <4>1, <4>2, <4>3 DEF Cierre, Tablas, EsBloqueo, Bloque, FranjaDe, FranjaEn
    <3> QED BY <2>1, <3>2, <3>3
  <2>2. CASE q.op \in {"cancelarSerie", "levantar"}
    <3>1. w = Cierre(SinTerminar(t), "CANCELADA")
      BY <2>2 DEF Escrituras
    <3>2. S = SinTerminar(t) /\ estado = "CANCELADA"
      BY <2>2 DEF PorCerrar, EstadoFinal
    <3> HIDE DEF S, estado, q
    <3> QED BY <2>2, <3>1, <3>2 DEF Cierre, Tablas
  <2>3. CASE q.op \in {"sinDocente", "jornada", "finalizar"}
    <3>1. w = Cierre(Actuales(t), estado)
      BY <2>3 DEF Escrituras, EstadoFinal
    <3>2. S = Actuales(t)
      BY <2>3 DEF PorCerrar
    <3> HIDE DEF S, estado, q
    <3> QED BY <2>3, <3>1, <3>2 DEF Cierre, Tablas
  <2>4. CASE q.op = "sacar"
    <3>1. /\ w = [Cierre(Actuales(t), "CANCELADA") EXCEPT !.es[q.equipo] = "fuera"]
          /\ equipos[q.equipo] = "fuera" => Actuales(t) # {}
      BY <2>4 DEF Escrituras
    <3>2. S = Actuales(t) /\ estado = "CANCELADA"
      BY <2>4 DEF PorCerrar, EstadoFinal
    <3> HIDE DEF S, estado, q
    <3> QED BY <2>4, <3>1, <3>2 DEF Cierre, Tablas
  <2> QED BY <2>1, <2>2, <2>3, <2>4 DEF OpsDeCierre
<1>6. /\ u.pedido = q /\ u.tiene = t.tiene /\ PorCerrar(u) = S /\ u.releidas = t.releidas
      /\ u.reloj = t.reloj
  BY DEF EscribeEn, PorCerrar, SinTerminar, Actuales
<1>7. /\ u.filas = Cambios(ConEstado(reservas, S, estado), reservas)
      /\ u.altas = Cambios(Recalculados(grupos, ConEstado(reservas, S, estado), GruposDe(S)), grupos)
  <2> HIDE DEF S, estado, q
  <2> QED BY <1>5 DEF EscribeEn
<1>8. /\ DOMAIN u.filas = S
      /\ \A i \in S : u.filas[i] = [t.releidas[i] EXCEPT !.estado = estado]
      /\ \A g \in DOMAIN u.altas : grupos[g] # Nada
      /\ EscritoBajoLlave(u, reservas, grupos) /\ EscritoElGrupo(u, reservas, grupos)
  <2> HIDE DEF S, estado, q
  <2> QED BY <1>1, <1>4, <1>6, <1>7, EscribeCierre
<1>9. EscritoElEquipo(u, equipos)
  <2>1. /\ q.op \notin {"sacar", "condicion"} => w.es = equipos
        /\ q.op = "sacar" => /\ w.es = [equipos EXCEPT ![q.equipo] = "fuera"]
                             /\ equipos[q.equipo] = "fuera" => Actuales(t) # {}
        /\ q.op # "condicion"
    BY <1>5 DEF OpsDeCierre
  <2> QED BY <2>1, EscribeElEquipo
<1>10. EscritoCierre(u, grupos)
  <2> HIDE DEF S, estado
  <2> QED BY <1>5, <1>6, <1>8 DEF EscritoCierre, estado
<1> QED BY <1>6, <1>8, <1>9, <1>10 DEF Escrito, OpsDeCierre

\* The request that moves rows to another device.
LEMMA EscribeUnCambio ==
    ASSUME IInv, NEW t \in Registro, EnCurso(t, reservas, grupos, equipos), t.fase = "releido",
           t.pedido.op = "cambiar", NEW w \in Escrituras(t), NEW u, EscribeEn(t, u, w)
    PROVE  Escrito(u, reservas, grupos, equipos)
<1> DEFINE q == t.pedido
           A == Actuales(t)
           rs == ConEquipo(reservas, A, q.nuevo)
<1>1. /\ VistoAlCambiar(t, grupos, equipos) /\ Tomado(t, reservas, grupos)
      /\ DOMAIN t.vistas \subseteq DOMAIN t.releidas
      /\ q \in Pedidos /\ q.nuevo \in Equipos
  BY RegistroTipo, PedidoTipo DEF EnCurso, Visto, Tomado
<1>2. PICK i \in A : i = q.id /\ w = Tablas(rs, grupos)
  BY DEF Escrituras
<1>3. \A j \in A : /\ j \in Ids /\ reservas[j] = t.releidas[j] /\ reservas[j] \in Reserva
                   /\ reservas[j] # Nada /\ LlaveEn(grupos, j) \in t.tiene
                   /\ reservas[j].equipo # q.nuevo /\ reservas[j].estado = "CONFIRMADA"
  <2> TAKE j \in A
  <2>1. /\ j \in DOMAIN t.vistas /\ t.releidas[j].equipo = t.vistas[j].equipo
        /\ t.releidas[j].estado = "CONFIRMADA"
    BY DEF Actuales
  <2>2. t.vistas[j].equipo # q.nuevo
    <3>1. t.vistas[q.id].equipo # q.nuevo
      BY <1>1 DEF VistoAlCambiar
    <3>2. j # q.id => t.vistas[j].equipo = t.vistas[q.id].equipo
      BY <1>1, <2>1 DEF VistoAlCambiar
    <3> QED BY <3>1, <3>2
  <2>3. j \in DOMAIN t.releidas
    BY <1>1, <2>1
  <2>4. /\ j \in Ids /\ reservas[j] = t.releidas[j] /\ reservas[j] \in Reserva
        /\ reservas[j] # Nada /\ LlaveEn(grupos, j) \in t.tiene
    BY <1>1, <2>3, LeidasVigentes
  <2> QED BY <2>1, <2>2, <2>4
<1>4. EsTabla(reservas, Ids) /\ EsTabla(grupos, Grupos)
  BY IInvTablas DEF IInv, EsTabla
<1>5. EsTabla(rs, Ids)
  BY DEF ConEquipo, EsTabla
<1>6. \A j \in Ids : rs[j] = IF j \in A THEN [reservas[j] EXCEPT !.equipo = q.nuevo] ELSE reservas[j]
  BY DEF ConEquipo
<1>7. \A j \in A : rs[j].equipo = q.nuevo /\ rs[j].estado = "CONFIRMADA" /\ rs[j] # reservas[j]
  <2> TAKE j \in A
  <2>1. rs[j] = [reservas[j] EXCEPT !.equipo = q.nuevo] /\ reservas[j] \in Reserva
    BY <1>3, <1>6
  <2>2. rs[j].equipo = q.nuevo /\ rs[j].estado = reservas[j].estado
    BY <2>1 DEF Reserva
  <2> QED BY <1>3, <2>2
<1>8. /\ u.filas = Cambios(rs, reservas) /\ u.altas = Cambios(grupos, grupos) /\ w.es = equipos
      /\ u.pedido = q /\ u.tiene = t.tiene /\ Actuales(u) = A /\ u.releidas = t.releidas
  <2> HIDE DEF rs, A
  <2>1. Actuales(u) = A
    BY DEF A, EscribeEn, Actuales
  <2> QED BY <1>2, <2>1 DEF EscribeEn, Tablas
<1> HIDE DEF rs, A
<1>9. \A x : x \notin DOMAIN u.altas
  BY <1>4, <1>8, SobreCambios
<1>10. /\ \A x : x \in DOMAIN u.filas <=> x \in Ids /\ rs[x] # reservas[x]
       /\ \A x \in DOMAIN u.filas : u.filas[x] = rs[x]
  BY <1>4, <1>5, <1>8, SobreCambios
<1>11. DOMAIN u.filas = A
  <2>1. \A x \in Ids : rs[x] # reservas[x] <=> x \in A
    BY <1>6, <1>7
  <2> QED BY <1>3, <1>10, <2>1
<1>12. EscritoCambio(u)
  <2>1. \A j \in A : u.filas[j] = [t.releidas[j] EXCEPT !.equipo = q.nuevo]
    BY <1>3, <1>6, <1>10, <1>11
  <2>2. DOMAIN u.altas = {}
    BY <1>9
  <2> HIDE DEF q
  <2> QED BY <1>2, <1>8, <1>11, <2>1, <2>2 DEF EscritoCambio
<1>13. EscritoBajoLlave(u, reservas, grupos)
  BY <1>3, <1>8, <1>9, <1>11 DEF EscritoBajoLlave
<1>14. EscritoElGrupo(u, reservas, grupos)
  <2>1. \A j \in DOMAIN u.filas : u.filas[j].estado = "CONFIRMADA"
    BY <1>7, <1>10, <1>11
  <2>2. \A g : g \notin GruposCerrados(u)
    BY <2>1 DEF GruposCerrados
  <2>3. \A g \in Grupos : Recalculados(grupos, Sobre(u.filas, reservas), GruposCerrados(u))[g] = grupos[g]
    BY <2>2 DEF Recalculados
  <2>4. \A g \in Grupos : Sobre(u.altas, grupos)[g] = grupos[g]
    BY <1>4, <1>9, SobreValor DEF EsTabla
  <2> QED BY <2>3, <2>4 DEF EscritoElGrupo
<1>15. EscritoElEquipo(u, equipos)
  BY <1>8, EscribeElEquipo
<1> QED BY <1>8, <1>12, <1>13, <1>14, <1>15 DEF Escrito, OpsDeCierre

\* The request that changes a device.
LEMMA EscribeUnaCondicion ==
    ASSUME IInv, NEW t \in Registro, t.pedido.op = "condicion",
           NEW w \in Escrituras(t), NEW u, EscribeEn(t, u, w)
    PROVE  Escrito(u, reservas, grupos, equipos)
<1> DEFINE q == t.pedido
<1>1. w = [Tablas(reservas, grupos) EXCEPT !.es[q.equipo] = q.nueva]
  BY DEF Escrituras
<1>2. w.rs = reservas /\ w.gs = grupos /\ w.es = [equipos EXCEPT ![q.equipo] = q.nueva]
  BY <1>1 DEF Tablas
<1>3. EsTabla(reservas, Ids) /\ EsTabla(grupos, Grupos)
  BY IInvTablas DEF IInv, EsTabla
<1>4. /\ u.pedido = q /\ u.filas = Cambios(reservas, reservas) /\ u.altas = Cambios(grupos, grupos)
  BY <1>2 DEF EscribeEn
<1>5. \A x : x \notin DOMAIN u.filas /\ x \notin DOMAIN u.altas
  BY <1>3, <1>4, SobreCambios
<1>6. DOMAIN u.filas = {} /\ DOMAIN u.altas = {}
  BY <1>5
<1>7. EscritoBajoLlave(u, reservas, grupos)
  BY <1>6 DEF EscritoBajoLlave
<1>8. EscritoElGrupo(u, reservas, grupos)
  <2>1. \A g : g \notin GruposCerrados(u)
    BY <1>6 DEF GruposCerrados
  <2>2. \A g \in Grupos : Recalculados(grupos, Sobre(u.filas, reservas), GruposCerrados(u))[g] = grupos[g]
    BY <2>1 DEF Recalculados
  <2>3. \A g \in Grupos : Sobre(u.altas, grupos)[g] = grupos[g]
    BY <1>3, <1>6, SobreValor DEF EsTabla
  <2> QED BY <2>2, <2>3 DEF EscritoElGrupo
<1>9. EscritoElEquipo(u, equipos)
  BY <1>2, EscribeElEquipo
<1> QED BY <1>4, <1>6, <1>7, <1>8, <1>9 DEF Escrito, EscritoNada, OpsDeCierre

\* The states of a group depend on its rows alone.
LEMMA EstadosLocal ==
    ASSUME NEW rs, NEW rs2, NEW g, \A e \in Equipos : rs[<<g, e>>] = rs2[<<g, e>>]
    PROVE  EstadosDelGrupo(rs, g) = EstadosDelGrupo(rs2, g)
BY DEF EstadosDelGrupo

\* Inserting the rows of the free groups G, after closing or moving rows K of those read
\* again: what a creation and a block write.
Inserta(t, u, rs0, gs0, K, C, G) ==
    /\ rs0 \in [Ids -> Reserva \cup {Nada}] /\ gs0 \in [Grupos -> FilasGrupo]
    /\ K \in SUBSET DOMAIN t.releidas /\ C \in SUBSET K /\ G \in SUBSET Libres
    /\ t.pedido.E \in SUBSET Equipos /\ t.pedido.E # {}
    /\ \A i \in Ids \ K : rs0[i] = reservas[i]
    /\ \A i \in K : rs0[i] # Nada /\ (rs0[i].estado # "CONFIRMADA" <=> i \in C)
    /\ \A i \in C : reservas[i].estado = "CONFIRMADA"
    /\ \A g \in Grupos \ G : gs0[g] = grupos[g]
    /\ \A g \in G : /\ gs0[g] # Nada
                    /\ EsClase(gs0[g]) /\ gs0[g].regla # Nada => gs0[g].regla \in G
    /\ u.tiene = t.tiene /\ u.pedido = t.pedido
    /\ u.filas = Cambios(ConFilas(rs0, G, t.pedido.E), reservas)
    /\ u.altas = Cambios(Recalculados(gs0, rs0, GruposDe(C)), grupos)

Insertado(u, rs0, gs0, K, G) ==
    /\ EscritoBajoLlave(u, reservas, grupos) /\ EscritoElGrupo(u, reservas, grupos)
    /\ EscritaLaInsercion(u, grupos, G)
    /\ \A x : x \in DOMAIN u.filas <=>
                 x \in Insertadas(u, G) \/ (x \in K /\ rs0[x] # reservas[x])
    /\ \A i \in K : Sobre(u.filas, reservas)[i] = rs0[i]
    /\ \A g \in G : u.altas[g] = gs0[g]

\* What a creation and a block have in common: closings or moves, and new rows and groups.
LEMMA EscribeInsercion ==
    ASSUME IInv, NEW t \in Registro, Tomado(t, reservas, grupos), t.fase # "tomando",
           NEW u, NEW rs0, NEW gs0, NEW K, NEW C, NEW G, Inserta(t, u, rs0, gs0, K, C, G)
    PROVE  Insertado(u, rs0, gs0, K, G)
<1> DEFINE E == t.pedido.E
<1> SUFFICES ASSUME rs0 \in [Ids -> Reserva \cup {Nada}], gs0 \in [Grupos -> FilasGrupo],
                    K \in SUBSET DOMAIN t.releidas, C \in SUBSET K, G \in SUBSET Libres,
                    E \in SUBSET Equipos, E # {},
                    \A i \in Ids \ K : rs0[i] = reservas[i],
                    \A i \in K : rs0[i] # Nada /\ (rs0[i].estado # "CONFIRMADA" <=> i \in C),
                    \A i \in C : reservas[i].estado = "CONFIRMADA",
                    \A g \in Grupos \ G : gs0[g] = grupos[g],
                    \A g \in G : /\ gs0[g] # Nada
                                 /\ EsClase(gs0[g]) /\ gs0[g].regla # Nada => gs0[g].regla \in G,
                    u.tiene = t.tiene, u.pedido = t.pedido,
                    u.filas = Cambios(ConFilas(rs0, G, E), reservas),
                    u.altas = Cambios(Recalculados(gs0, rs0, GruposDe(C)), grupos)
             PROVE  Insertado(u, rs0, gs0, K, G)
  BY DEF Inserta
<1> DEFINE rs == ConFilas(rs0, G, E)
           gs == Recalculados(gs0, rs0, GruposDe(C))
           I == Insertadas(u, G)
<1>1. /\ TypeOK /\ Referencias /\ G \in SUBSET Grupos /\ \A g \in G : grupos[g] = Nada
      /\ EsTabla(reservas, Ids) /\ EsTabla(grupos, Grupos)
      /\ grupos \in [Grupos -> FilasGrupo]
  BY IInvTablas DEF IInv, EsTabla, Libres
<1>2. \A i \in K : /\ i \in Ids /\ reservas[i] # Nada /\ i[1] \in Grupos /\ grupos[i[1]] # Nada
                   /\ LlaveEn(grupos, i) \in t.tiene
                   /\ EsClase(grupos[i[1]]) => i[1] \in t.tiene
  BY LeidasVigentes
<1>3. \A i \in Ids : reservas[i] # Nada => grupos[i[1]] # Nada
  BY <1>1 DEF Referencias
<1>4. \A i \in Ids : i \in I <=> i[1] \in G /\ i[2] \in E
  BY DEF Insertadas
<1>5. \A i \in Ids : i \in I => i \notin K /\ reservas[i] = Nada /\ grupos[i[1]] = Nada
  BY <1>1, <1>2, <1>3, <1>4
<1>6. /\ \A i \in Ids : i \in I => /\ rs[i] = [estado |-> "CONFIRMADA", equipo |-> i[2]]
                                   /\ rs[i].estado = "CONFIRMADA" /\ rs[i] # Nada
      /\ \A i \in Ids : i \notin I => rs[i] = rs0[i]
  <2>1. \A i \in Ids : i \in I => rs[i] = [estado |-> "CONFIRMADA", equipo |-> i[2]]
    BY <1>4 DEF ConFilas
  <2>2. \A i \in Ids : i \in I => rs[i].estado = "CONFIRMADA" /\ rs[i] # Nada
    BY <1>1, <1>4, FilaNueva
  <2>3. \A i \in Ids : i \notin I => rs[i] = rs0[i]
    BY <1>1, <1>4, FilaNueva
  <2> QED BY <2>1, <2>2, <2>3
<1>7. /\ gs \in [Grupos -> FilasGrupo]
      /\ \A g \in G : gs[g] = gs0[g]
  <2>1. \A g \in G : g \notin GruposDe(C)
    BY <1>1, <1>2 DEF GruposDe
  <2>2. \A g \in G : gs[g] = gs0[g]
    BY <1>1, <2>1 DEF Recalculados
  <2> HIDE DEF gs
  <2>3. gs \in [Grupos -> FilasGrupo]
    BY RecalculadosTipo DEF gs
  <2> QED BY <2>2, <2>3
<1>8. \A g \in Grupos \ G : /\ gs[g] # grupos[g] =>
                                  g \in GruposDe(C) /\ grupos[g] # Nada /\ MismaClase(grupos[g], gs[g])
                            /\ grupos[g] = Nada => gs[g] = Nada
  <2> TAKE g \in Grupos \ G
  <2>1. gs0[g] = grupos[g]
    OBVIOUS
  <2>2. gs[g] # gs0[g] => g \in GruposDe(C) /\ gs0[g] # Nada /\ MismaClase(gs0[g], gs[g])
    BY RecalculadosMisma
  <2> HIDE DEF gs
  <2> QED BY <2>1, <2>2
<1>9. /\ EsTabla(rs, Ids) /\ EsTabla(gs, Grupos)
      /\ u.filas = Cambios(rs, reservas) /\ u.altas = Cambios(gs, grupos)
  BY DEF EsTabla, ConFilas, Recalculados
<1> HIDE DEF rs, gs
<1>10. /\ \A x : x \in DOMAIN u.filas <=> x \in Ids /\ rs[x] # reservas[x]
       /\ \A x \in DOMAIN u.filas : u.filas[x] = rs[x]
       /\ Sobre(u.filas, reservas) = rs
  BY <1>1, <1>9, SobreCambios
<1>11. /\ \A x : x \in DOMAIN u.altas <=> x \in Grupos /\ gs[x] # grupos[x]
       /\ \A x \in DOMAIN u.altas : u.altas[x] = gs[x]
       /\ Sobre(u.altas, grupos) = gs
  BY <1>1, <1>9, SobreCambios
<1> HIDE DEF I
<1>12. \A x : x \in DOMAIN u.filas <=> x \in I \/ (x \in K /\ rs0[x] # reservas[x])
  <2>0. I \subseteq Ids /\ K \subseteq Ids /\ DOMAIN u.filas \subseteq Ids
    BY <1>2, <1>10 DEF I, Insertadas
  <2> SUFFICES ASSUME NEW i \in Ids
               PROVE  i \in DOMAIN u.filas <=> i \in I \/ (i \in K /\ rs0[i] # reservas[i])
    BY <2>0
  <2>1. CASE i \in I
    <3>1. reservas[i] = Nada /\ rs[i] # Nada
      BY <1>5, <1>6, <2>1
    <3> QED BY <1>10, <2>1, <3>1
  <2>2. CASE i \notin I
    <3>1. rs[i] = rs0[i] /\ (i \notin K => rs0[i] = reservas[i])
      BY <1>6, <2>2
    <3> QED BY <1>10, <2>2, <3>1
  <2> QED BY <2>1, <2>2
<1>13. \A i \in K : Sobre(u.filas, reservas)[i] = rs0[i]
  BY <1>2, <1>5, <1>6, <1>10
<1>14. \A g \in G : g \in DOMAIN u.altas /\ u.altas[g] = gs0[g]
  BY <1>1, <1>7, <1>11
<1>15. \A g \in DOMAIN u.altas : grupos[g] = Nada <=> g \in G
  BY <1>1, <1>8, <1>11
<1>16. EscritaLaInsercion(u, grupos, G)
  <2>1. \A i \in I : i \in DOMAIN u.filas /\ u.filas[i] = [estado |-> "CONFIRMADA", equipo |-> i[2]]
    <3>1. I \subseteq Ids
      BY DEF I, Insertadas
    <3> QED BY <3>1, <1>6, <1>10, <1>12
  <2> QED BY <1>1, <1>14, <1>15, <2>1 DEF EscritaLaInsercion, I
<1>17. EscritoBajoLlave(u, reservas, grupos)
  <2>1. ASSUME NEW i \in DOMAIN u.filas
        PROVE  /\ reservas[i] # Nada => LlaveEn(grupos, i) \in u.tiene
               /\ reservas[i] = Nada => /\ i[1] \in DOMAIN u.altas /\ grupos[i[1]] = Nada
                                        /\ u.filas[i].estado = "CONFIRMADA"
    <3>1. i \in Ids /\ u.filas[i] = rs[i]
      BY <1>10
    <3>2. CASE i \in I
      BY <1>4, <1>5, <1>6, <1>14, <3>1, <3>2
    <3>3. CASE i \notin I
      BY <1>2, <1>12, <3>1, <3>3
    <3> QED BY <3>2, <3>3
  <2>2. ASSUME NEW g \in DOMAIN u.altas
        PROVE  /\ grupos[g] # Nada => MismaClase(grupos[g], u.altas[g]) /\ g \in u.tiene
               /\ grupos[g] = Nada /\ EsClase(u.altas[g]) /\ u.altas[g].regla # Nada =>
                     u.altas[g].regla \in DOMAIN u.altas /\ grupos[u.altas[g].regla] = Nada
    <3>1. g \in Grupos /\ u.altas[g] = gs[g] /\ gs[g] # grupos[g]
      BY <1>11
    <3>2. CASE g \in G
      BY <1>1, <1>7, <1>14, <3>1, <3>2
    <3>3. CASE g \notin G
      <4>1. g \in GruposDe(C) /\ grupos[g] # Nada /\ MismaClase(grupos[g], gs[g])
        BY <1>8, <3>1, <3>3
      <4>2. PICK i \in C : g = i[1]
        BY <4>1 DEF GruposDe
      <4>3. g \in t.tiene
        BY <1>2, <4>1, <4>2 DEF MismaClase
      <4> QED BY <3>1, <4>1, <4>3
    <3> QED BY <3>2, <3>3
  <2> QED BY <2>1, <2>2 DEF EscritoBajoLlave
<1>18. GruposCerrados(u) = GruposDe(C)
  <2>1. \A i \in DOMAIN u.filas : u.filas[i].estado # "CONFIRMADA" <=> i \in C
    <3> TAKE i \in DOMAIN u.filas
    <3>1. i \in Ids /\ u.filas[i] = rs[i]
      BY <1>10
    <3>2. CASE i \in I
      BY <1>5, <1>6, <3>1, <3>2
    <3>3. CASE i \notin I
      BY <1>6, <1>12, <3>1, <3>3
    <3> QED BY <3>2, <3>3
  <2>2. \A i \in C : i \in DOMAIN u.filas
    BY <1>2, <1>12
  <2> QED BY <2>1, <2>2 DEF GruposCerrados, GruposDe
<1>19. EscritoElGrupo(u, reservas, grupos)
  <2> SUFFICES ASSUME NEW g \in Grupos, grupos[g] # Nada
               PROVE  gs[g] = Recalculados(grupos, rs, GruposDe(C))[g]
    BY <1>10, <1>11, <1>18 DEF EscritoElGrupo
  <2>1. g \notin G /\ gs0[g] = grupos[g]
    BY <1>1
  <2>2. gs[g] = Recalculados(grupos, rs0, GruposDe(C))[g]
    BY <2>1, RecalculadosLocal DEF gs
  <2>3. EstadosDelGrupo(rs, g) = EstadosDelGrupo(rs0, g)
    <3>1. \A e \in Equipos : rs[<<g, e>>] = rs0[<<g, e>>]
      BY <2>1 DEF Ids, ConFilas, rs
    <3> QED BY <3>1, EstadosLocal
  <2>4. Recalculados(grupos, rs, GruposDe(C))[g] = Recalculados(grupos, rs0, GruposDe(C))[g]
    BY <2>3 DEF Recalculados
  <2> QED BY <2>2, <2>4
<1> QED BY <1>12, <1>13, <1>14, <1>16, <1>17, <1>19 DEF I, Insertado

\* The request that blocks devices.
LEMMA EscribeUnBloqueo ==
    ASSUME IInv, NEW t \in Registro, EnCurso(t, reservas, grupos, equipos), t.fase = "releido",
           t.pedido.op = "bloquear", NEW w \in Escrituras(t), NEW u, EscribeEn(t, u, w)
    PROVE  Escrito(u, reservas, grupos, equipos) /\ DOMAIN u.altas \cap Libres \subseteq Nuevos
<1> DEFINE q == t.pedido
           M == EnMedio(t, grupos)
           rs0 == ConEstado(reservas, M, "CANCELADA")
           op == [tipo |-> "BLOQUEO", franja |-> q.franja, docente |-> q.quien]
           gs0(g) == [grupos EXCEPT ![g] = op]
<1>1. /\ Tomado(t, reservas, grupos) /\ DOMAIN t.vistas \subseteq DOMAIN t.releidas
      /\ q \in Pedidos /\ q.quien \in Usuarios /\ q.franja \in Franjas
      /\ q.E \in SUBSET Equipos /\ q.E # {}
  BY RegistroTipo, PedidoTipo DEF EnCurso, Tomado
<1>2. PICK g \in Nuevos :
         w = Tablas(ConFilas(rs0, {g}, q.E), Recalculados(gs0(g), rs0, GruposDe(M)))
  BY DEF Escrituras, EscriturasDeBloquear, EnMedio, EsBloqueo, Bloque, FranjaDe, FranjaEn
<1>3. /\ g \in Grupos /\ grupos[g] = Nada /\ {g} \in SUBSET Libres
      /\ TypeOK /\ Referencias /\ grupos \in [Grupos -> FilasGrupo]
  BY IInvTablas DEF IInv, Nuevos, Libres
<1>4. /\ M \in SUBSET DOMAIN t.releidas
      /\ \A i \in M : t.releidas[i].estado = "CONFIRMADA"
  BY <1>1 DEF EnMedio, Actuales
<1>5. \A i \in M : /\ i \in Ids /\ reservas[i] = t.releidas[i] /\ reservas[i] \in Reserva
                   /\ reservas[i].estado = "CONFIRMADA" /\ Confirmada(i)
  BY <1>1, <1>4, LeidasVigentes DEF Confirmada
<1>6. rs0 \in [Ids -> Reserva \cup {Nada}]
  <2>1. M \in SUBSET Ids /\ "CANCELADA" \in ReservaTerminal
    BY <1>5 DEF ReservaTerminal, EstadosReserva
  <2> HIDE DEF M
  <2> QED BY <1>3, <1>5, <2>1, CerradasFilas
<1>7. \A i \in Ids : rs0[i] = IF i \in M THEN [reservas[i] EXCEPT !.estado = "CANCELADA"] ELSE reservas[i]
  BY DEF ConEstado
<1>8. \A i \in M : rs0[i] \in Reserva /\ rs0[i].estado = "CANCELADA"
  <2> TAKE i \in M
  <2>1. reservas[i] \in Reserva /\ rs0[i] = [reservas[i] EXCEPT !.estado = "CANCELADA"]
    BY <1>5, <1>7
  <2> HIDE DEF rs0, M
  <2> QED BY <2>1 DEF Reserva, EstadosReserva
<1>9. op \in Operacion
  BY <1>1 DEF Operacion
<1>10. /\ gs0(g) \in [Grupos -> FilasGrupo] /\ gs0(g)[g] = op
       /\ \A h \in Grupos \ {g} : gs0(g)[h] = grupos[h]
       /\ op # Nada /\ ~EsClase(op)
  <2>1. op \in FilasGrupo /\ op # Nada /\ ~EsClase(op)
    BY <1>9, ReservasAssumption DEF FilasGrupo, EsClase
  <2> HIDE DEF op
  <2> QED BY <1>3, <2>1
<1>11. /\ u.tiene = t.tiene /\ u.pedido = q /\ u.releidas = t.releidas /\ u.vistas = t.vistas
       /\ w.es = equipos
       /\ u.filas = Cambios(ConFilas(rs0, {g}, q.E), reservas)
       /\ u.altas = Cambios(Recalculados(gs0(g), rs0, GruposDe(M)), grupos)
  <2> HIDE DEF rs0, gs0, M
  <2> QED BY <1>2 DEF EscribeEn, Tablas
<1> HIDE DEF rs0, gs0, op
<1>12. /\ EscritoBajoLlave(u, reservas, grupos) /\ EscritoElGrupo(u, reservas, grupos)
       /\ EscritaLaInsercion(u, grupos, {g})
       /\ \A x : x \in DOMAIN u.filas <=>
                    x \in Insertadas(u, {g}) \/ (x \in M /\ rs0[x] # reservas[x])
       /\ \A i \in M : Sobre(u.filas, reservas)[i] = rs0[i]
       /\ u.altas[g] = op
  <2>1. /\ \A i \in Ids \ M : rs0[i] = reservas[i]
        /\ \A i \in M : rs0[i] # Nada /\ (rs0[i].estado # "CONFIRMADA" <=> i \in M)
        /\ M \in SUBSET M
    BY <1>7, <1>8, ReservasAssumption
  <2>2. /\ \A h \in Grupos \ {g} : gs0(g)[h] = grupos[h]
        /\ \A h \in {g} : /\ gs0(g)[h] # Nada
                          /\ EsClase(gs0(g)[h]) /\ gs0(g)[h].regla # Nada => gs0(g)[h].regla \in {g}
    BY <1>10
  <2> HIDE DEF M
  <2>3. Inserta(t, u, rs0, gs0(g), M, M, {g})
    BY <1>1, <1>3, <1>4, <1>5, <1>6, <1>10, <1>11, <2>1, <2>2 DEF Inserta
  <2>4. Insertado(u, rs0, gs0(g), M, {g})
    BY <1>1, <2>3, EscribeInsercion
  <2> QED BY <1>10, <2>4 DEF Insertado
<1>13. EnMedio(u, grupos) = M
  BY <1>11 DEF EnMedio, Actuales
<1>14. /\ DOMAIN u.filas = M \cup Insertadas(u, {g})
       /\ \A i \in M : u.filas[i] = [u.releidas[i] EXCEPT !.estado = "CANCELADA"]
  <2>1. \A i \in M : rs0[i] # reservas[i]
    BY <1>5, <1>8
  <2>3. DOMAIN u.filas = M \cup Insertadas(u, {g})
    <3> HIDE DEF M
    <3> QED BY <1>12, <2>1
  <2>4. ASSUME NEW i \in M PROVE u.filas[i] = [u.releidas[i] EXCEPT !.estado = "CANCELADA"]
    <3>1. i \in DOMAIN u.filas /\ i \in Ids /\ DOMAIN reservas = Ids
      BY <1>5, <2>3, IInvTablas DEF IInv
    <3>2. u.filas[i] = rs0[i]
      BY <1>12, <3>1, SobreValor
    <3>3. rs0[i] = [reservas[i] EXCEPT !.estado = "CANCELADA"] /\ reservas[i] = u.releidas[i]
      BY <1>5, <1>7, <1>11
    <3> HIDE DEF M
    <3> QED BY <3>2, <3>3
  <2> QED BY <2>3, <2>4
<1>15. EscritoBloqueo(u, grupos)
  <2> HIDE DEF M
  <2> QED BY <1>3, <1>11, <1>12, <1>13, <1>14 DEF EscritoBloqueo, op
<1>16. EscritoElEquipo(u, equipos)
  BY <1>11, EscribeElEquipo
<1>17. DOMAIN u.altas \cap Libres \subseteq Nuevos
  BY <1>2, <1>12 DEF EscritaLaInsercion, Libres
<1> QED BY <1>11, <1>12, <1>15, <1>16, <1>17 DEF Escrito, OpsDeCierre

\* A plan moves or cancels classes that have not started, for a reason.
LEMMA PlanFundado ==
    ASSUME NEW materia, NEW iniciales \in SUBSET Ids, NEW t,
           NEW plan \in PlanesDeReposicion(materia, iniciales, t)
    PROVE  /\ DOMAIN plan \subseteq NoEmpezadas(t)
           /\ \A i \in DOMAIN plan : plan[i] \in Reservables \cup {Nada}
           /\ EsTabla(plan, DOMAIN plan)
           /\ iniciales = {} => plan = << >>
           /\ iniciales # {} => PlanJustificado(materia, iniciales, plan, t)
<1>1. CASE iniciales = {}
  BY <1>1 DEF PlanesDeReposicion, EsTabla
<1>2. CASE iniciales # {}
  <2>1. /\ plan \in UNION {[P -> Reservables \cup {Nada}] : P \in SUBSET NoEmpezadas(t)}
        /\ PlanJustificado(materia, iniciales, plan, t)
    BY <1>2 DEF PlanesDeReposicion
  <2>2. PICK P \in SUBSET NoEmpezadas(t) : plan \in [P -> Reservables \cup {Nada}]
    BY <2>1
  <2> QED BY <1>2, <2>1, <2>2 DEF EsTabla
<1> QED BY <1>1, <1>2

\* The request that creates a class, or a weekly series of them.
LEMMA EscribeUnaClase ==
    ASSUME IInv, NEW t \in Registro, EnCurso(t, reservas, grupos, equipos), t.fase = "releido",
           t.pedido.op = "crear", NEW w \in Escrituras(t), NEW u, EscribeEn(t, u, w)
    PROVE  Escrito(u, reservas, grupos, equipos) /\ DOMAIN u.altas \cap Libres \subseteq Nuevos
<1> DEFINE q == t.pedido
           iniciales == Solapamientos(q.E, q.F)
           alta(h, nuevos, regla) ==
               [tipo |-> "NORMAL", estado |-> "CONFIRMADA", franja |-> nuevos[h],
                materia |-> q.materia, docente |-> q.quien, regla |-> regla]
<1>1. /\ Tomado(t, reservas, grupos)
      /\ q \in Pedidos /\ q.quien \in Usuarios /\ q.materia \in Materias /\ q.F \in Series
      /\ q.E \in SUBSET Equipos /\ q.E # {} /\ q.F \subseteq Franjas
  BY RegistroTipo, PedidoTipo, ReservasAssumption DEF EnCurso
<1>2. /\ \A i \in iniciales : reservas[i].equipo \in q.T
      /\ \E plan \in PlanesDeReposicion(q.materia, iniciales, t.reloj), G \in SUBSET Nuevos :
         \E nuevos \in Bijection(G, q.F), regla \in ReglaDe(G) :
            DOMAIN plan \subseteq DOMAIN t.releidas /\ w = Creacion(q, plan, nuevos, regla)
  BY DEF Escrituras, EscriturasDeCrear
<1>3. PICK plan \in PlanesDeReposicion(q.materia, iniciales, t.reloj), G \in SUBSET Nuevos :
         \E nuevos \in Bijection(G, q.F), regla \in ReglaDe(G) :
            DOMAIN plan \subseteq DOMAIN t.releidas /\ w = Creacion(q, plan, nuevos, regla)
  BY <1>2
<1>4. PICK nuevos \in Bijection(G, q.F), regla \in ReglaDe(G) :
            DOMAIN plan \subseteq DOMAIN t.releidas /\ w = Creacion(q, plan, nuevos, regla)
  BY <1>3
<1> DEFINE rs0 == AplicarPlan(reservas, plan)
           gs0 == ConClases(grupos, nuevos, q.materia, q.quien, regla)
           K == DOMAIN plan
           C == Canceladas(plan)
<1>5. /\ iniciales \in SUBSET Ids /\ TypeOK /\ Referencias
      /\ G \in SUBSET Libres /\ G \in SUBSET Grupos
      /\ nuevos \in [G -> Franjas] /\ DOMAIN nuevos = G
      /\ regla \in Grupos \cup {Nada} /\ (regla # Nada => regla \in G)
  <2>1. iniciales \in SUBSET Ids /\ TypeOK /\ Referencias
    BY DEF Solapamientos, IInv
  <2>2. G \in SUBSET Libres /\ G \in SUBSET Grupos
    BY DEF Nuevos, Libres
  <2>3. nuevos \in [G -> q.F]
    BY DEF Bijection, Injection
  <2>4. regla = Nada \/ regla \in G
    BY DEF ReglaDe
  <2> HIDE DEF iniciales
  <2> QED BY <1>1, <2>1, <2>2, <2>3, <2>4
<1>6. /\ K \subseteq NoEmpezadas(t.reloj) /\ \A i \in K : plan[i] \in Reservables \cup {Nada}
      /\ EsTabla(plan, K)
      /\ iniciales = {} => plan = << >>
      /\ iniciales # {} => PlanJustificado(q.materia, iniciales, plan, t.reloj)
  <2>1. plan \in PlanesDeReposicion(q.materia, iniciales, t.reloj) /\ iniciales \in SUBSET Ids
    BY <1>5
  <2> HIDE DEF iniciales, q, rs0, gs0, C
  <2>2. /\ DOMAIN plan \subseteq NoEmpezadas(t.reloj)
        /\ \A i \in DOMAIN plan : plan[i] \in Reservables \cup {Nada}
        /\ EsTabla(plan, DOMAIN plan)
        /\ iniciales = {} => plan = << >>
        /\ iniciales # {} => PlanJustificado(q.materia, iniciales, plan, t.reloj)
    BY ONLY <2>1, PlanFundado
  <2> QED BY <2>2
<1>7. \A i \in K : /\ i \in Ids /\ Confirmada(i) /\ ~EsBloqueo(i) /\ ~YaEmpezo(FranjaDe(i), t.reloj)
                   /\ reservas[i] \in Reserva /\ reservas[i].estado = "CONFIRMADA"
  <2>1. \A i \in K : i \in Ids /\ Confirmada(i) /\ ~EsBloqueo(i) /\ ~YaEmpezo(FranjaDe(i), t.reloj)
    BY <1>6 DEF NoEmpezadas
  <2> QED BY <1>5, <2>1, FilaTipo DEF Confirmada
<1>8. rs0 \in [Ids -> Reserva \cup {Nada}] /\ \A i \in Ids \ K : rs0[i] = reservas[i]
  BY <1>5, <1>6, <1>7, PlanAplicado
<1>9. \A i \in K : rs0[i] # Nada /\ (rs0[i].estado # "CONFIRMADA" <=> i \in C)
  <2> TAKE i \in K
  <2>1. i \in Ids /\ reservas[i] \in Reserva /\ reservas[i].estado = "CONFIRMADA"
    BY <1>7
  <2>2. CASE plan[i] = Nada
    <3>1. rs0[i] = [reservas[i] EXCEPT !.estado = "CANCELADA"] /\ i \in C
      BY <2>1, <2>2 DEF AplicarPlan, Canceladas
    <3> HIDE DEF rs0, C
    <3>2. rs0[i] \in Reserva /\ rs0[i].estado = "CANCELADA"
      BY <2>1, <3>1 DEF Reserva, EstadosReserva
    <3> QED BY <3>1, <3>2, ReservasAssumption
  <2>3. CASE plan[i] # Nada
    <3>1. rs0[i] = [reservas[i] EXCEPT !.equipo = plan[i]] /\ i \notin C /\ plan[i] \in Equipos
      BY <1>6, <2>1, <2>3 DEF AplicarPlan, Canceladas, Reservables
    <3> HIDE DEF rs0, C
    <3>2. rs0[i] \in Reserva /\ rs0[i].estado = "CONFIRMADA"
      BY <2>1, <3>1 DEF Reserva
    <3> QED BY <3>1, <3>2, ReservasAssumption
  <2> QED BY <2>2, <2>3
<1>10. /\ gs0 \in [Grupos -> FilasGrupo]
       /\ \A h \in Grupos \ G : gs0[h] = grupos[h]
       /\ \A h \in G : gs0[h] # Nada
  <2> HIDE DEF q, rs0, K, C
  <2>1. /\ TypeOK /\ q.materia \in Materias /\ q.quien \in Usuarios /\ G \in SUBSET Libres
        /\ nuevos \in [G -> Franjas] /\ regla \in Grupos \cup {Nada}
    BY <1>1, <1>5
  <2>2. /\ gs0 \in [Grupos -> FilasGrupo]
        /\ \A h \in Grupos \ G : gs0[h] = grupos[h]
        /\ \A h \in G : /\ gs0[h] # Nada
                        /\ gs0[h].estado = "CONFIRMADA"
    BY ONLY <2>1, ClasesNuevas
  <2> QED BY <2>2
<1>11. \A h \in G : gs0[h] = alta(h, nuevos, regla)
  BY <1>5 DEF ConClases
<1>12. ASSUME NEW h \in G PROVE gs0[h].regla = regla
  <2>1. gs0[h] = alta(h, nuevos, regla)
    BY <1>11
  <2> HIDE DEF gs0
  <2> QED BY <2>1
<1>13. /\ u.tiene = t.tiene /\ u.pedido = q /\ u.releidas = t.releidas /\ u.vistas = t.vistas
       /\ u.reloj = t.reloj /\ w.es = equipos
       /\ u.filas = Cambios(ConFilas(rs0, G, q.E), reservas)
       /\ u.altas = Cambios(Recalculados(gs0, rs0, GruposDe(C)), grupos)
  <2>1. w = Tablas(ConFilas(rs0, DOMAIN nuevos, q.E), Recalculados(gs0, rs0, GruposDe(C)))
    BY <1>4 DEF Creacion
  <2> HIDE DEF rs0, gs0, C
  <2> QED BY <1>5, <2>1 DEF EscribeEn, Tablas
<1> HIDE DEF rs0, gs0, iniciales
<1>14. Insertado(u, rs0, gs0, K, G)
  <2>1. C \in SUBSET K
    BY DEF Canceladas
  <2>2. Inserta(t, u, rs0, gs0, K, C, G)
    <3> HIDE DEF K, C
    <3>1. K \in SUBSET DOMAIN t.releidas
      BY <1>4 DEF K
    <3>2. \A h \in G : EsClase(gs0[h]) /\ gs0[h].regla # Nada => gs0[h].regla \in G
      BY <1>5, <1>12
    <3>3. \A i \in C : reservas[i].estado = "CONFIRMADA"
      BY <1>7, <2>1
    <3> QED BY <1>1, <1>5, <1>8, <1>9, <1>10, <1>13, <2>1, <3>1, <3>2, <3>3 DEF Inserta
  <2> HIDE DEF K, C
  <2> QED BY <1>1, <2>2, EscribeInsercion
<1>15. PrimerosDe(u, plan, reservas, grupos) = iniciales
  <2>1. iniciales \subseteq K
    BY <1>6 DEF PlanJustificado
  <2>2. \A i \in K : i \in iniciales <=>
              reservas[i].equipo \in q.E /\ \E f \in q.F : Solapan(FranjaEn(grupos, i), f)
    BY <1>7 DEF iniciales, Solapamientos, FranjaDe, FranjaEn
  <2> QED BY <1>13, <2>1, <2>2 DEF PrimerosDe
<1>16. \A i \in K : \A m : SePuedeRobar(m, i, t.reloj) <=> RobableEn(m, i, reservas, grupos, u.reloj)
  BY <1>13 DEF SePuedeRobar, RobableEn, EsBloqueo, Bloque, FranjaDe, FranjaEn
<1>17. PlanVigente(u, plan, reservas, grupos, equipos)
  <2>1. \A i \in K : /\ plan[i] \in EnEspera(equipos) \cup {Nada}
                     /\ ConfirmadaEn(reservas, i) /\ ~Bloque(grupos, i)
                     /\ ~YaEmpezo(FranjaEn(grupos, i), u.reloj)
    BY <1>6, <1>7, <1>13 DEF Reservables, EnEspera, ConfirmadaEn, EsBloqueo, Bloque, FranjaDe,
                             FranjaEn, Confirmada
  <2>2. \A i \in iniciales : /\ reservas[i].equipo \in q.T
                             /\ RobableEn(q.materia, i, reservas, grupos, u.reloj)
    <3>1. \A i \in iniciales : i \in K /\ SePuedeRobar(q.materia, i, t.reloj)
      BY <1>6 DEF PlanJustificado
    <3>2. \A i \in iniciales : reservas[i].equipo \in q.T
      BY <1>2 DEF iniciales
    <3> QED BY <1>16, <3>1, <3>2
  <2>3. \A i \in K \ iniciales :
           \E j \in K \ {i} : RobableEn(grupos[j[1]].materia, i, reservas, grupos, u.reloj)
    <3>1. CASE iniciales = {}
      BY <1>6, <3>1
    <3>2. CASE iniciales # {}
      <4>1. \A i \in K \ iniciales : \E j \in K \ {i} : SePuedeRobar(grupos[j[1]].materia, i, t.reloj)
        BY <1>6, <3>2 DEF PlanJustificado
      <4> QED BY <1>16, <4>1
    <3> QED BY <3>1, <3>2
  <2>4. DOMAIN plan \subseteq DOMAIN u.releidas
    BY <1>4, <1>13
  <2> QED BY <1>6, <1>13, <1>15, <2>1, <2>2, <2>3, <2>4 DEF PlanVigente
<1>18. plan \in Parcial(Ids, Equipos \cup {Nada})
  <2>1. K \in SUBSET Ids
    BY <1>7
  <2>2. plan \in [K -> Equipos \cup {Nada}]
    BY <1>6 DEF Reservables, EsTabla
  <2> HIDE DEF K
  <2> QED BY <2>1, <2>2 DEF Parcial
<1>19. EscritaLaClase(u, reservas, grupos, equipos)
  <2>1. \A h \in G : u.altas[h] = alta(h, nuevos, regla)
    BY <1>11, <1>14 DEF Insertado
  <2>2. EscritaLaInsercion(u, grupos, G) /\ DOMAIN u.filas \subseteq K \cup Insertadas(u, G)
    BY <1>14 DEF Insertado
  <2>3. \A i \in K : Sobre(u.filas, reservas)[i] = AplicarPlan(reservas, plan)[i]
    BY <1>14 DEF Insertado, rs0
  <2>4. \E nv \in Bijection(G, u.pedido.F), rg \in ReglaDe(G) :
          /\ PlanVigente(u, plan, reservas, grupos, equipos)
          /\ EscritaLaInsercion(u, grupos, G)
          /\ \A g \in G : u.altas[g] =
                [tipo |-> "NORMAL", estado |-> "CONFIRMADA", franja |-> nv[g],
                 materia |-> u.pedido.materia, docente |-> u.pedido.quien, regla |-> rg]
          /\ DOMAIN u.filas \subseteq DOMAIN plan \cup Insertadas(u, G)
          /\ \A i \in DOMAIN plan : Sobre(u.filas, reservas)[i] = AplicarPlan(reservas, plan)[i]
    BY <1>13, <1>17, <2>1, <2>2, <2>3
  <2> QED BY <1>5, <1>18, <2>4 DEF EscritaLaClase
<1>20. EscritoElEquipo(u, equipos)
  BY <1>13, EscribeElEquipo
<1>21. DOMAIN u.altas \cap Libres \subseteq Nuevos
  BY <1>14 DEF Insertado, EscritaLaInsercion, Libres
<1> QED BY <1>13, <1>14, <1>19, <1>20, <1>21 DEF Insertado, Escrito, OpsDeCierre

\* Whatever the request, what it writes is under its locks or new.
LEMMA LoQueEscribe ==
    ASSUME IInv, NEW t \in Registro, EnCurso(t, reservas, grupos, equipos), t.fase = "releido",
           NEW w \in Escrituras(t), NEW u, EscribeEn(t, u, w)
    PROVE  Escrito(u, reservas, grupos, equipos) /\ DOMAIN u.altas \cap Libres \subseteq Nuevos
<1>1. t.pedido \in Pedidos /\ u.pedido = t.pedido
  BY RegistroTipo DEF EscribeEn
<1>2. CASE t.pedido.op \in OpsDeCierre
  <2>1. Escrito(u, reservas, grupos, equipos)
    BY <1>2, EscribeUnCierre
  <2>2. \A g \in DOMAIN u.altas : grupos[g] # Nada
    BY <1>1, <1>2, <2>1 DEF Escrito, EscritoCierre
  <2> QED BY <2>1, <2>2 DEF Libres
<1>3. CASE t.pedido.op = "cambiar"
  <2>1. Escrito(u, reservas, grupos, equipos)
    BY <1>3, EscribeUnCambio
  <2> QED BY <1>1, <1>3, <2>1 DEF Escrito, EscritoCambio
<1>4. CASE t.pedido.op = "condicion"
  <2>1. Escrito(u, reservas, grupos, equipos)
    BY <1>4, EscribeUnaCondicion
  <2> QED BY <1>1, <1>4, <2>1 DEF Escrito, EscritoNada
<1>5. CASE t.pedido.op = "bloquear"
  BY <1>5, EscribeUnBloqueo
<1>6. CASE t.pedido.op = "crear"
  BY <1>6, EscribeUnaClase
<1> QED BY <1>1, <1>2, <1>3, <1>4, <1>5, <1>6, PedidoTipo

-----------------------------------------------------------------------------
(* The steps that commit nothing                                             *)

\* What one transaction must keep for the others to keep theirs.
SeLlevan(u, r) ==
    /\ CompatiblesT(u, tx[r]) /\ CompatiblesT(tx[r], u)
    /\ SinSolapesJuntas(u, tx[r], reservas, grupos)
    /\ SinSolapesJuntas(tx[r], u, reservas, grupos)

\* A step of one transaction that keeps its own part of the invariant keeps it whole.
LEMMA CambiaUna ==
    ASSUME IInvC, NEW p \in Procesos, NEW u \in Registro, tx' = [tx EXCEPT ![p] = u],
           UNCHANGED vars, u.reloj \in Relojes, EnCurso(u, reservas, grupos, equipos),
           \A r \in Abiertas \ {p} : SeLlevan(u, r), SinSolapesJuntas(u, u, reservas, grupos)
    PROVE  IInvC'
<1>1. reservas' = reservas /\ grupos' = grupos /\ equipos' = equipos /\ ahora' = ahora
  BY DEF vars
<1>2. IInv'
  BY NextIInv DEF IInvC
<1>3. tx \in [Procesos -> Registro \cup {Nada}]
  BY DEF IInvC
<1>4. tx' \in [Procesos -> Registro \cup {Nada}]
  BY <1>3
<1>5. tx'[p] = u /\ \A r \in Procesos \ {p} : tx'[r] = tx[r]
  BY <1>3
<1>6. ReglasCargadas(grupos)'
  BY <1>1 DEF IInvC, ReglasCargadas, EsClase
<1>7. Abiertas' \ {p} = Abiertas \ {p}
  BY <1>5 DEF Abiertas
<1>8. ASSUME NEW r \in Abiertas'
      PROVE  tx'[r].reloj \in Relojes' /\ EnCurso(tx'[r], reservas', grupos', equipos')
  <2>1. Relojes' = Relojes
    BY <1>1 DEF Relojes
  <2>2. CASE r = p
    BY <1>1, <1>5, <2>1, <2>2
  <2>3. CASE r # p
    <3>1. r \in Abiertas /\ tx'[r] = tx[r]
      BY <1>5, <1>7, <2>3 DEF Abiertas
    <3> QED BY <1>1, <2>1, <3>1 DEF IInvC
  <2> QED BY <2>2, <2>3
<1>9. ASSUME NEW r \in Abiertas', NEW s \in Abiertas'
      PROVE  /\ r # s => CompatiblesT(tx'[r], tx'[s])
             /\ SinSolapesJuntas(tx'[r], tx'[s], reservas', grupos')
  <2>1. r \in Procesos /\ s \in Procesos
    BY DEF Abiertas
  <2>2. CASE r # p /\ s # p
    <3>1. r \in Abiertas /\ s \in Abiertas /\ tx'[r] = tx[r] /\ tx'[s] = tx[s]
      BY <1>5, <1>7, <2>1, <2>2
    <3> QED BY <1>1, <3>1 DEF IInvC
  <2>3. CASE r = p /\ s # p
    <3>1. s \in Abiertas \ {p} /\ tx'[s] = tx[s] /\ tx'[r] = u
      BY <1>5, <1>7, <2>1, <2>3
    <3> QED BY <1>1, <3>1 DEF SeLlevan
  <2>4. CASE r # p /\ s = p
    <3>1. r \in Abiertas \ {p} /\ tx'[r] = tx[r] /\ tx'[s] = u
      BY <1>5, <1>7, <2>1, <2>4
    <3> QED BY <1>1, <3>1 DEF SeLlevan
  <2>5. CASE r = p /\ s = p
    BY <1>1, <1>5, <2>5
  <2> QED BY <2>2, <2>3, <2>4, <2>5
<1> QED BY <1>2, <1>4, <1>6, <1>8, <1>9 DEF IInvC

\* An open transaction, and the invariant of it.
LEMMA EnCursoDe ==
    ASSUME IInvC, NEW p \in Abiertas
    PROVE  /\ p \in Procesos /\ tx[p] \in Registro /\ tx[p] # Nada
           /\ tx[p].reloj \in Relojes
           /\ EnCurso(tx[p], reservas, grupos, equipos)
           /\ Visto(tx[p], reservas, grupos, equipos) /\ Tomado(tx[p], reservas, grupos)
           /\ tx[p].faltan \cap tx[p].tiene = {}
           /\ tx[p].fase # "tomando" => tx[p].faltan = {}
           /\ tx[p].fase # "escrito" => EscritoNada(tx[p]) /\ DOMAIN tx[p].estados = {}
           /\ tx[p].fase = "escrito" => Escrito(tx[p], reservas, grupos, equipos)
           /\ SinSolapesJuntas(tx[p], tx[p], reservas, grupos)
           /\ \A r \in Abiertas \ {p} : SeLlevan(tx[p], r)
<1>1. p \in Procesos /\ tx[p] # Nada
  BY DEF Abiertas
<1>2. tx[p] \in Registro
  BY <1>1 DEF IInvC
<1>3. tx[p].reloj \in Relojes /\ EnCurso(tx[p], reservas, grupos, equipos)
  BY DEF IInvC
<1>4. /\ SinSolapesJuntas(tx[p], tx[p], reservas, grupos)
      /\ \A r \in Abiertas \ {p} : SeLlevan(tx[p], r)
  BY DEF IInvC, SeLlevan
<1>5. /\ Visto(tx[p], reservas, grupos, equipos) /\ Tomado(tx[p], reservas, grupos)
      /\ tx[p].faltan \cap tx[p].tiene = {}
      /\ tx[p].fase # "tomando" => tx[p].faltan = {}
      /\ tx[p].fase # "escrito" => EscritoNada(tx[p]) /\ DOMAIN tx[p].estados = {}
      /\ tx[p].fase = "escrito" => Escrito(tx[p], reservas, grupos, equipos)
  BY <1>3 DEF EnCurso
<1> QED BY <1>1, <1>2, <1>3, <1>4, <1>5

\* A transaction that only reads and locks stays compatible with the others.
LEMMA SigueSinEscribir ==
    ASSUME IInvC, NEW p \in Abiertas, NEW u \in Registro, tx' = [tx EXCEPT ![p] = u],
           UNCHANGED vars, EnCurso(u, reservas, grupos, equipos),
           u.pedido = tx[p].pedido, u.reloj = tx[p].reloj,
           u.filas = tx[p].filas, u.altas = tx[p].altas,
           \A r \in Abiertas \ {p} : u.tiene \cap tx[r].tiene = {}
    PROVE  IInvC'
<1>1. /\ p \in Procesos /\ tx[p].reloj \in Relojes
      /\ SinSolapesJuntas(tx[p], tx[p], reservas, grupos)
      /\ \A r \in Abiertas \ {p} : SeLlevan(tx[p], r)
  BY EnCursoDe
<1>2. SinSolapesJuntas(u, u, reservas, grupos)
  BY <1>1 DEF SinSolapesJuntas
<1>3. \A r \in Abiertas \ {p} : SeLlevan(u, r)
  <2> TAKE r \in Abiertas \ {p}
  <2>1. SeLlevan(tx[p], r) /\ u.tiene \cap tx[r].tiene = {}
    BY <1>1
  <2>2. CompatiblesT(u, tx[r]) /\ CompatiblesT(tx[r], u)
    BY <2>1 DEF SeLlevan, CompatiblesT
  <2>3. /\ SinSolapesJuntas(u, tx[r], reservas, grupos)
        /\ SinSolapesJuntas(tx[r], u, reservas, grupos)
    BY <2>1 DEF SeLlevan, SinSolapesJuntas
  <2> QED BY <2>2, <2>3 DEF SeLlevan
<1> QED BY <1>1, <1>2, <1>3, CambiaUna

\* What a transaction saw does not depend on what it holds.
LEMMA VistoIgual ==
    ASSUME NEW t, NEW u, NEW rs, NEW gs, NEW es, Visto(t, rs, gs, es),
           u.pedido = t.pedido, u.vistas = t.vistas, u.reloj = t.reloj
    PROVE  Visto(u, rs, gs, es)
BY DEF Visto, VistoAlCrear, VistoAlBloquear, VistoAlLevantar, VistoAlCancelarSerie, VistoAlCambiar,
       VistoAlSacar, VistoSinDocente, VistoPorJornada, VistoAlFinalizar, VistoDeCondicion

\* One more key.
LEMMA TomarInv ==
    ASSUME IInvC, NEW p \in Abiertas, NEW k \in Llaves, Tomar(p, k)
    PROVE  IInvC'
<1> DEFINE t == tx[p]
<1>1. /\ p \in Procesos /\ t \in Registro
      /\ Visto(t, reservas, grupos, equipos) /\ Tomado(t, reservas, grupos)
      /\ t.faltan \cap t.tiene = {}
      /\ t.fase # "tomando" => t.faltan = {}
      /\ t.fase # "escrito" => EscritoNada(t) /\ DOMAIN t.estados = {}
      /\ \A r \in Abiertas \ {p} : SeLlevan(t, r)
  BY EnCursoDe
<1>2. /\ k \in t.faltan /\ t.fase = "tomando"
      /\ \A r \in Abiertas \ {p} : k \notin tx[r].tiene
      /\ tx' = [tx EXCEPT ![p].faltan = @ \ {k}, ![p].tiene = @ \cup {k}]
      /\ UNCHANGED vars
  BY <1>1 DEF Tomar, Primeras
<1>3. PICK u : u = [t EXCEPT !.faltan = t.faltan \ {k}, !.tiene = t.tiene \cup {k}]
  OBVIOUS
<1>4. tx' = [tx EXCEPT ![p] = u]
  <2>1. tx \in [Procesos -> Registro \cup {Nada}]
    BY DEF IInvC
  <2> QED BY <1>1, <1>2, <1>3, <2>1
<1> HIDE DEF t
<1>5. /\ u \in Registro
      /\ u.pedido = t.pedido /\ u.reloj = t.reloj /\ u.vistas = t.vistas /\ u.releidas = t.releidas
      /\ u.filas = t.filas /\ u.altas = t.altas /\ u.estados = t.estados /\ u.fase = t.fase
      /\ u.faltan = t.faltan \ {k} /\ u.tiene = t.tiene \cup {k}
  BY <1>1, <1>3 DEF Registro
<1>6. EnCurso(u, reservas, grupos, equipos)
  <2>1. Visto(u, reservas, grupos, equipos)
    BY <1>1, <1>5, VistoIgual
  <2>2. Tomado(u, reservas, grupos)
    BY <1>1, <1>2, <1>5 DEF Tomado
  <2>3. EscritoNada(u)
    BY <1>1, <1>2, <1>5 DEF EscritoNada
  <2> QED BY <1>1, <1>2, <1>5, <2>1, <2>2, <2>3 DEF EnCurso
<1>7. \A r \in Abiertas \ {p} : u.tiene \cap tx[r].tiene = {}
  BY <1>1, <1>2, <1>5 DEF SeLlevan, CompatiblesT
<1> QED BY <1>2, <1>4, <1>5, <1>6, <1>7, SigueSinEscribir DEF t

\* The rows of the tables, as a transaction keeps them.
LEMMA FilasTipo ==
    ASSUME IInv, NEW S \in SUBSET Ids, \A i \in S : reservas[i] # Nada
    PROVE  /\ Filas(S) \in Parcial(Ids, Reserva) /\ DOMAIN Filas(S) = S
           /\ \A i \in S : Filas(S)[i] = reservas[i]
<1>1. \A i \in S : reservas[i] \in Reserva
  BY IInvTablas DEF IInv
<1>2. Filas(S) \in [S -> Reserva]
  BY <1>1 DEF Filas
<1> QED BY <1>2 DEF Filas, Parcial

\* The rows again, under their keys.
LEMMA ReleerInv ==
    ASSUME IInvC, NEW p \in Abiertas, Releer(p)
    PROVE  IInvC'
<1> DEFINE t == tx[p]
           R == Tomadas(t.tiene) \cup DOMAIN t.vistas
<1>1. /\ p \in Procesos /\ t \in Registro
      /\ Visto(t, reservas, grupos, equipos) /\ Tomado(t, reservas, grupos)
      /\ t.faltan \cap t.tiene = {}
      /\ t.fase # "escrito" => EscritoNada(t) /\ DOMAIN t.estados = {}
      /\ \A r \in Abiertas \ {p} : SeLlevan(t, r)
  BY EnCursoDe
<1>2. /\ t.fase = "tomando" /\ t.faltan = {}
      /\ tx' = [tx EXCEPT ![p].fase = "releido", ![p].releidas = Filas(R)]
      /\ UNCHANGED vars
  BY DEF Releer
<1>3. R \in SUBSET Ids /\ \A i \in R : reservas[i] # Nada
  BY <1>1, RegistroTipo DEF Tomadas, Visto
<1>4. /\ Filas(R) \in Parcial(Ids, Reserva) /\ DOMAIN Filas(R) = R
      /\ \A i \in R : Filas(R)[i] = reservas[i]
  <2> HIDE DEF R
  <2> QED BY <1>3, FilasTipo DEF IInvC
<1>5. PICK u : u = [t EXCEPT !.fase = "releido", !.releidas = Filas(R)]
  OBVIOUS
<1>6. tx' = [tx EXCEPT ![p] = u]
  <2>1. tx \in [Procesos -> Registro \cup {Nada}]
    BY DEF IInvC
  <2> HIDE DEF R
  <2> QED BY <1>1, <1>2, <1>5, <2>1
<1> HIDE DEF t, R
<1>7. /\ u \in Registro
      /\ u.pedido = t.pedido /\ u.reloj = t.reloj /\ u.vistas = t.vistas /\ u.releidas = Filas(R)
      /\ u.filas = t.filas /\ u.altas = t.altas /\ u.estados = t.estados /\ u.fase = "releido"
      /\ u.faltan = t.faltan /\ u.tiene = t.tiene
  BY <1>1, <1>4, <1>5 DEF Registro, Fases
<1>8. EnCurso(u, reservas, grupos, equipos)
  <2>1. Visto(u, reservas, grupos, equipos)
    BY <1>1, <1>7, VistoIgual
  <2>2. \A i \in R : LlaveEn(grupos, i) \in t.tiene
    <3>1. \A i \in DOMAIN t.vistas : LlaveEn(grupos, i) \in t.tiene
      BY <1>1, <1>2 DEF Tomado
    <3>2. \A i \in Tomadas(t.tiene) : LlaveEn(grupos, i) \in t.tiene
      BY DEF Tomadas, LlavesDe, EsBloqueo, LlaveEn, Bloque
    <3> QED BY <3>1, <3>2 DEF R
  <2>3. DOMAIN t.vistas \subseteq R
    BY DEF R
  <2>4. Tomado(u, reservas, grupos)
    BY <1>1, <1>2, <1>3, <1>4, <1>7, <2>2, <2>3 DEF Tomado
  <2>5. EscritoNada(u)
    BY <1>1, <1>2, <1>7 DEF EscritoNada
  <2> QED BY <1>1, <1>2, <1>7, <2>1, <2>4, <2>5 DEF EnCurso
<1>9. \A r \in Abiertas \ {p} : u.tiene \cap tx[r].tiene = {}
  BY <1>1, <1>7 DEF SeLlevan, CompatiblesT
<1> QED BY <1>2, <1>6, <1>7, <1>8, <1>9, SigueSinEscribir DEF t

\* The keys of some rows.
LEMMA LlavesTipo ==
    ASSUME NEW S \in SUBSET Ids
    PROVE  /\ LlavesDe(S) \in SUBSET Llaves
           /\ \A i \in S : LlaveEn(grupos, i) \in LlavesDe(S)
           /\ \A k \in LlavesDe(S) : \E i \in S : k = LlaveEn(grupos, i)
<1>1. \A i \in S : LlaveEn(grupos, i) \in LlavesDe(S)
  BY DEF LlavesDe, LlaveEn, EsBloqueo, Bloque
<1>2. \A k \in LlavesDe(S) : \E i \in S : k = LlaveEn(grupos, i)
  BY DEF LlavesDe, LlaveEn, EsBloqueo, Bloque
<1>3. \A i \in S : LlaveEn(grupos, i) \in Llaves
  BY DEF LlaveEn, Llaves, Ids
<1> QED BY <1>1, <1>2, <1>3

\* The next round of a cascade.
LEMMA AmpliarInv ==
    ASSUME IInvC, NEW p \in Abiertas, Ampliar(p)
    PROVE  IInvC'
<1> DEFINE t == tx[p]
<1>1. /\ p \in Procesos /\ t \in Registro
      /\ Visto(t, reservas, grupos, equipos) /\ Tomado(t, reservas, grupos)
      /\ t.fase # "escrito" => EscritoNada(t) /\ DOMAIN t.estados = {}
      /\ \A r \in Abiertas \ {p} : SeLlevan(t, r)
  BY EnCursoDe
<1>2. /\ t.fase = "releido" /\ t.pedido.op = "crear" /\ UNCHANGED vars
  BY DEF Ampliar
<1>3. PICK S \in SUBSET (NoEmpezadas(t.reloj) \ Tomadas(t.tiene)) :
         tx' = [tx EXCEPT ![p].fase = "tomando", ![p].cascada = TRUE,
                          ![p].vistas = Filas(S), ![p].faltan = LlavesDe(S)]
  BY DEF Ampliar
<1>4. /\ S \in SUBSET Ids /\ \A i \in S : reservas[i] # Nada /\ i \notin Tomadas(t.tiene)
  BY DEF NoEmpezadas, Confirmada
<1>5. /\ Filas(S) \in Parcial(Ids, Reserva) /\ DOMAIN Filas(S) = S
  BY <1>4, FilasTipo DEF IInvC
<1>6. /\ LlavesDe(S) \in SUBSET Llaves
      /\ \A i \in S : LlaveEn(grupos, i) \in LlavesDe(S)
      /\ \A k \in LlavesDe(S) : \E i \in S : k = LlaveEn(grupos, i)
  BY <1>4, LlavesTipo
<1>7. PICK u : u = [t EXCEPT !.fase = "tomando", !.cascada = TRUE, !.vistas = Filas(S),
                             !.faltan = LlavesDe(S)]
  OBVIOUS
<1>8. tx' = [tx EXCEPT ![p] = u]
  <2>1. tx \in [Procesos -> Registro \cup {Nada}]
    BY DEF IInvC
  <2> QED BY <1>1, <1>3, <1>7, <2>1
<1> HIDE DEF t
<1>9. /\ u \in Registro
      /\ u.pedido = t.pedido /\ u.reloj = t.reloj /\ u.vistas = Filas(S) /\ u.releidas = t.releidas
      /\ u.filas = t.filas /\ u.altas = t.altas /\ u.estados = t.estados /\ u.fase = "tomando"
      /\ u.faltan = LlavesDe(S) /\ u.tiene = t.tiene
  BY <1>1, <1>5, <1>6, <1>7 DEF Registro, Fases
<1>10. u.faltan \cap u.tiene = {}
  <2> SUFFICES ASSUME NEW k \in LlavesDe(S), k \in t.tiene PROVE FALSE
    BY <1>9
  <2>1. PICK i \in S : k = LlaveEn(grupos, i)
    BY <1>6
  <2>2. i \in Tomadas(t.tiene)
    BY <1>4, <2>1 DEF Tomadas, LlavesDe, LlaveEn, EsBloqueo, Bloque
  <2> QED BY <1>4, <2>2
<1>11. EnCurso(u, reservas, grupos, equipos)
  <2>1. Visto(u, reservas, grupos, equipos)
    BY <1>1, <1>2, <1>4, <1>5, <1>9 DEF Visto, VistoAlCrear
  <2>2. Tomado(u, reservas, grupos)
    BY <1>5, <1>6, <1>9 DEF Tomado
  <2>3. EscritoNada(u)
    BY <1>1, <1>2, <1>9 DEF EscritoNada
  <2> QED BY <1>1, <1>2, <1>9, <1>10, <2>1, <2>2, <2>3 DEF EnCurso
<1>12. \A r \in Abiertas \ {p} : u.tiene \cap tx[r].tiene = {}
  BY <1>1, <1>9 DEF SeLlevan, CompatiblesT
<1> QED BY <1>2, <1>8, <1>9, <1>11, <1>12, SigueSinEscribir DEF t

\* What the first reading of each request finds.
LEMMA EmpezarVe ==
    ASSUME IInv, NEW q \in Pedidos, Admisible(q, ahora), NEW S \in Candidatas(q, ahora),
           NEW u, u.pedido = q, u.reloj = ahora, DOMAIN u.vistas = S,
           \A i \in S \cap Ids : u.vistas[i] = reservas[i]
    PROVE  S \in SUBSET Ids /\ Visto(u, reservas, grupos, equipos)
<1>0. /\ EnEspera(equipos) = Reservables
      /\ \A i \in Ids : FranjaEn(grupos, i) = FranjaDe(i) /\ (Bloque(grupos, i) <=> EsBloqueo(i))
      /\ \A i \in Ids : ConfirmadaEn(reservas, i) <=> Confirmada(i)
  BY DEF EnEspera, Reservables, FranjaEn, FranjaDe, Bloque, EsBloqueo, ConfirmadaEn, Confirmada
<1>1. CASE q.op = "crear"
  <2>1. S = Solapamientos(q.E, q.F)
    BY <1>1 DEF Candidatas
  <2>2. S \in SUBSET Ids /\ \A i \in S : reservas[i] # Nada
    BY <2>1 DEF Solapamientos, Confirmada
  <2>3. VistoAlCrear(u, equipos)
    BY <1>0, <1>1 DEF Admisible, VistoAlCrear
  <2> QED BY <1>1, <2>2, <2>3 DEF Visto
<1>2. CASE q.op = "bloquear"
  <2>1. S = {i \in Ids : Confirmada(i) /\ reservas[i].equipo \in q.E}
    BY <1>2 DEF Candidatas
  <2>2. S \in SUBSET Ids /\ \A i \in S : reservas[i] # Nada /\ reservas[i].equipo \in q.E
    BY <2>1 DEF Confirmada
  <2>3. VistoAlBloquear(u, equipos)
    BY <1>0, <1>2, <2>2 DEF Admisible, VistoAlBloquear
  <2> QED BY <1>2, <2>2, <2>3 DEF Visto
<1>3. CASE q.op = "levantar"
  <2>1. S = {i \in Ids : i[1] = q.grupo /\ reservas[i] # Nada}
    BY <1>3 DEF Candidatas
  <2>2. VistoAlLevantar(u, reservas, grupos)
    BY <1>3, <2>1 DEF Admisible, VistoAlLevantar
  <2> QED BY <1>3, <2>1, <2>2 DEF Visto
<1>4. CASE q.op = "cancelarSerie"
  <2>1. S = {i \in Ids : /\ reservas[i] # Nada
                         /\ \/ i[1] = q.grupo
                            \/ /\ ~q.soloEsta /\ grupos[q.grupo].regla # Nada
                               /\ i[1] \in GruposFuturosDeRegla(q.grupo)}
    BY <1>4 DEF Candidatas
  <2>2. \A i \in Ids : i[1] \in GruposDePedido(q, grupos) <=>
              \/ i[1] = q.grupo
              \/ /\ ~q.soloEsta /\ grupos[q.grupo].regla # Nada
                 /\ i[1] \in GruposFuturosDeRegla(q.grupo)
    BY DEF GruposDePedido, GruposFuturosDeRegla
  <2>3. VistoAlCancelarSerie(u, reservas, grupos)
    <3>1. EsClase(grupos[q.grupo]) /\ PuedeCancelar(grupos[q.grupo].docente, q.quien)
      BY <1>4 DEF Admisible, EsClase
    <3>2. \A i \in Ids : i \in S <=> i[1] \in GruposDePedido(q, grupos) /\ reservas[i] # Nada
      BY <2>1, <2>2
    <3> QED BY <3>1, <3>2 DEF VistoAlCancelarSerie
  <2> QED BY <1>4, <2>1, <2>3 DEF Visto
<1>5. CASE q.op \in {"cancelar", "liberar"}
  <2>1. S = {q.id} /\ reservas[q.id] # Nada /\ q.id \in Ids
    BY <1>5, PedidoTipo DEF Candidatas, Admisible
  <2> QED BY <1>5, <2>1 DEF Visto
<1>6. CASE q.op = "cambiar"
  <2>1. S = IF q.soloEsta THEN {q.id} ELSE {q.id} \cup SerieDesde(q.id)
    BY <1>6 DEF Candidatas
  <2>2. /\ Confirmada(q.id) /\ PuedeVer(grupos[q.id[1]].docente, q.quien)
        /\ reservas[q.id].equipo # q.nuevo /\ q.nuevo \in Reservables /\ q.id \in Ids
    BY <1>6, PedidoTipo DEF Admisible
  <2>3. \A j \in SerieDesde(q.id) :
           /\ j \in Ids /\ Confirmada(j) /\ ~EsBloqueo(q.id) /\ ~EsBloqueo(j)
           /\ reservas[j].equipo = reservas[q.id].equipo
           /\ grupos[q.id[1]].regla # Nada /\ grupos[j[1]].regla = grupos[q.id[1]].regla
           /\ FranjaDe(j).dia >= FranjaDe(q.id).dia
    BY DEF SerieDesde
  <2>4. S \in SUBSET Ids /\ q.id \in S /\ \A i \in S : reservas[i] # Nada
    BY <2>1, <2>2, <2>3 DEF Confirmada
  <2>5. \A j \in S \ {q.id} : j \in SerieDesde(q.id)
    BY <2>1
  <2>6. VistoAlCambiar(u, grupos, equipos)
    BY <1>0, <2>1, <2>2, <2>3, <2>4, <2>5 DEF VistoAlCambiar
  <2> QED BY <1>6, <2>4, <2>6 DEF Visto
<1>7. CASE q.op = "sacar"
  <2>1. S = {i \in NoTerminadas(ahora) : reservas[i].equipo = q.equipo}
    BY <1>7 DEF Candidatas
  <2>2. \A i \in Ids : i \in S <=> /\ Confirmada(i) /\ ~YaTermino(FranjaDe(i), ahora)
                                   /\ reservas[i].equipo = q.equipo
    BY <2>1 DEF NoTerminadas
  <2>3. S \in SUBSET Ids /\ \A i \in S : reservas[i] # Nada
    BY <2>1 DEF NoTerminadas, Confirmada
  <2>4. VistoAlSacar(u, reservas, grupos)
    BY <1>0, <2>2, <2>3 DEF VistoAlSacar
  <2> QED BY <1>7, <2>3, <2>4 DEF Visto
<1>8. CASE q.op = "sinDocente"
  <2>1. S = {i \in NoTerminadas(ahora) : ~EsBloqueo(i) /\ grupos[i[1]].materia = q.materia}
    BY <1>8 DEF Candidatas
  <2>2. \A i \in Ids : i \in S <=> /\ Confirmada(i) /\ ~YaTermino(FranjaDe(i), ahora)
                                   /\ ~EsBloqueo(i) /\ grupos[i[1]].materia = q.materia
    BY <2>1 DEF NoTerminadas
  <2>3. S \in SUBSET Ids /\ \A i \in S : reservas[i] # Nada
    BY <2>1 DEF NoTerminadas, Confirmada
  <2>4. \A i \in S : u.vistas[i] = reservas[i]
    BY <2>3
  <2>5. VistoSinDocente(u, reservas, grupos)
    BY <1>0, <2>2, <2>3, <2>4 DEF VistoSinDocente
  <2> QED BY <1>8, <2>3, <2>5 DEF Visto
<1>9. CASE q.op = "jornada"
  <2>1. S \in SUBSET NoEmpezadas(ahora)
    BY <1>9 DEF Candidatas
  <2>2. \A i \in S : /\ i \in Ids /\ reservas[i] # Nada /\ ~EsBloqueo(i)
                     /\ ~YaEmpezo(FranjaDe(i), ahora)
    BY <2>1 DEF NoEmpezadas, Confirmada
  <2>3. VistoPorJornada(u, grupos)
    BY <1>0, <2>2 DEF VistoPorJornada
  <2> QED BY <1>9, <2>2, <2>3 DEF Visto
<1>10. CASE q.op = "finalizar"
  <2>1. S \in SUBSET Vencidas(ahora) /\ Cardinality(S) <= Lote
    BY <1>10 DEF Candidatas
  <2>2. \A i \in S : i \in Ids /\ reservas[i] # Nada /\ Vencida(FranjaDe(i), ahora)
    BY <2>1 DEF Vencidas, Confirmada
  <2>3. VistoAlFinalizar(u, grupos)
    BY <1>0, <2>1, <2>2 DEF VistoAlFinalizar
  <2> QED BY <1>10, <2>2, <2>3 DEF Visto
<1>11. CASE q.op = "condicion"
  <2>1. S = {} /\ equipos[q.equipo] # q.nueva
    BY <1>11 DEF Candidatas, Admisible
  <2>2. VistoDeCondicion(u, equipos)
    BY <2>1 DEF VistoDeCondicion
  <2> QED BY <1>11, <2>1, <2>2 DEF Visto
<1> QED BY <1>1, <1>2, <1>3, <1>4, <1>5, <1>6, <1>7, <1>8, <1>9, <1>10, <1>11, PedidoTipo
        DEF OpsDeCierre

-----------------------------------------------------------------------------
(* One table written over another                                            *)

\* A table written over is a table.
LEMMA SobreEs ==
    ASSUME NEW D, NEW f, NEW tabla, EsTabla(tabla, D)
    PROVE  EsTabla(Sobre(f, tabla), D)
BY DEF EsTabla, Sobre

\* Its rows.
LEMMA SobreEn ==
    ASSUME NEW D, NEW f, NEW tabla, EsTabla(tabla, D), NEW x \in D
    PROVE  Sobre(f, tabla)[x] = IF x \in DOMAIN f THEN f[x] ELSE tabla[x]
BY DEF EsTabla, Sobre

\* Tables with the same rows are the same.
LEMMA IgualesSiCoinciden ==
    ASSUME NEW D, NEW f, NEW g, EsTabla(f, D), EsTabla(g, D), \A x \in D : f[x] = g[x]
    PROVE  f = g
BY DEF EsTabla

\* Nothing written changes nothing.
LEMMA SobreVacio ==
    ASSUME NEW D, NEW f, NEW tabla, EsTabla(tabla, D), DOMAIN f = {}
    PROVE  Sobre(f, tabla) = tabla
<1>1. EsTabla(Sobre(f, tabla), D)
  BY SobreEs
<1>2. \A x \in D : Sobre(f, tabla)[x] = tabla[x]
  BY SobreEn
<1> QED BY <1>1, <1>2, IgualesSiCoinciden

\* Writing the same twice is writing it once.
LEMMA SobreDosVeces ==
    ASSUME NEW D, NEW f, NEW tabla, EsTabla(tabla, D)
    PROVE  Sobre(f, Sobre(f, tabla)) = Sobre(f, tabla)
<1>1. EsTabla(Sobre(f, tabla), D)
  BY SobreEs
<1>2. EsTabla(Sobre(f, Sobre(f, tabla)), D)
  BY <1>1, SobreEs
<1>3. \A x \in D : Sobre(f, Sobre(f, tabla))[x] = Sobre(f, tabla)[x]
  <2> TAKE x \in D
  <2>1. Sobre(f, tabla)[x] = IF x \in DOMAIN f THEN f[x] ELSE tabla[x]
    BY SobreEn
  <2>2. Sobre(f, Sobre(f, tabla))[x] = IF x \in DOMAIN f THEN f[x] ELSE Sobre(f, tabla)[x]
    BY <1>1, SobreEn
  <2> QED BY <2>1, <2>2
<1> QED BY <1>1, <1>2, <1>3, IgualesSiCoinciden

\* What two write in different rows may be written in any order.
LEMMA SobreConmuta ==
    ASSUME NEW D, NEW f, NEW g, NEW tabla, EsTabla(tabla, D), DOMAIN f \cap DOMAIN g = {}
    PROVE  Sobre(f, Sobre(g, tabla)) = Sobre(g, Sobre(f, tabla))
<1>1. EsTabla(Sobre(f, tabla), D) /\ EsTabla(Sobre(g, tabla), D)
  BY SobreEs
<1>2. EsTabla(Sobre(f, Sobre(g, tabla)), D) /\ EsTabla(Sobre(g, Sobre(f, tabla)), D)
  BY <1>1, SobreEs
<1>3. \A x \in D : Sobre(f, Sobre(g, tabla))[x] = Sobre(g, Sobre(f, tabla))[x]
  <2> TAKE x \in D
  <2>1. /\ Sobre(f, tabla)[x] = IF x \in DOMAIN f THEN f[x] ELSE tabla[x]
        /\ Sobre(g, tabla)[x] = IF x \in DOMAIN g THEN g[x] ELSE tabla[x]
    BY SobreEn
  <2>2. /\ Sobre(f, Sobre(g, tabla))[x] = IF x \in DOMAIN f THEN f[x] ELSE Sobre(g, tabla)[x]
        /\ Sobre(g, Sobre(f, tabla))[x] = IF x \in DOMAIN g THEN g[x] ELSE Sobre(f, tabla)[x]
    BY <1>1, SobreEn
  <2> QED BY <2>1, <2>2
<1> QED BY <1>2, <1>3, IgualesSiCoinciden

\* A transaction that begins has read and written nothing.
LEMMA NadaEsParcial ==
    ASSUME NEW A, NEW V
    PROVE  << >> \in Parcial(A, V)
BY DEF Parcial

\* A transaction begins with what its validations and its first reading found.
LEMMA EmpezarInv ==
    ASSUME IInvC, NEW p \in Procesos, NEW q \in Pedidos, Empezar(p, q)
    PROVE  IInvC'
<1>1. /\ tx[p] = Nada /\ PuedeCoordinar(Modo(q)) /\ Admisible(q, ahora) /\ UNCHANGED vars
  BY DEF Empezar
<1>2. PICK S \in Candidatas(q, ahora) :
         tx' = [tx EXCEPT ![p] =
                  [pedido |-> q, fase |-> "tomando", reloj |-> ahora, cascada |-> FALSE,
                   vistas |-> Filas(S), faltan |-> LlavesDe(S), tiene |-> {},
                   releidas |-> << >>, filas |-> << >>, altas |-> << >>, estados |-> << >>]]
  BY DEF Empezar
<1>3. PICK u : u = [pedido |-> q, fase |-> "tomando", reloj |-> ahora, cascada |-> FALSE,
                    vistas |-> Filas(S), faltan |-> LlavesDe(S), tiene |-> {},
                    releidas |-> << >>, filas |-> << >>, altas |-> << >>, estados |-> << >>]
  OBVIOUS
<1>4. tx' = [tx EXCEPT ![p] = u]
  BY <1>2, <1>3
<1>5. /\ u.pedido = q /\ u.fase = "tomando" /\ u.reloj = ahora /\ u.vistas = Filas(S)
      /\ u.faltan = LlavesDe(S) /\ u.tiene = {}
      /\ DOMAIN u.filas = {} /\ DOMAIN u.altas = {} /\ DOMAIN u.estados = {}
  BY <1>3
<1>6. DOMAIN u.vistas = S /\ \A i \in S \cap Ids : u.vistas[i] = reservas[i]
  BY <1>5 DEF Filas
<1>7. S \in SUBSET Ids /\ Visto(u, reservas, grupos, equipos)
  BY <1>1, <1>5, <1>6, EmpezarVe DEF IInvC
<1>8. \A i \in S : reservas[i] # Nada
  BY <1>6, <1>7 DEF Visto
<1>9. Filas(S) \in Parcial(Ids, Reserva)
  BY <1>7, <1>8, FilasTipo DEF IInvC
<1>10. /\ LlavesDe(S) \in SUBSET Llaves
       /\ \A i \in S : LlaveEn(grupos, i) \in LlavesDe(S)
  BY <1>7, LlavesTipo
<1>11. ahora \in 0..Horizonte /\ ahora \in Relojes
  BY ReservasAssumption DEF IInvC, IInv, TypeOK, Relojes
<1>12. u \in Registro
  <2>1. << >> \in Parcial(Ids, Reserva) /\ << >> \in Parcial(Grupos, Grupo \cup Operacion)
        /\ << >> \in Parcial(Equipos, Condiciones)
    BY NadaEsParcial
  <2> QED BY <1>3, <1>9, <1>10, <1>11, <2>1 DEF Registro, Fases
<1>13. EnCurso(u, reservas, grupos, equipos)
  <2>1. Tomado(u, reservas, grupos)
    BY <1>5, <1>6, <1>10 DEF Tomado
  <2>2. EscritoNada(u)
    BY <1>5 DEF EscritoNada
  <2> QED BY <1>5, <1>7, <2>1, <2>2 DEF EnCurso
<1>14. EsTabla(reservas, Ids) /\ EsTabla(grupos, Grupos)
  BY IInvTablas DEF IInvC, IInv, EsTabla
<1>15. Sobre(u.filas, reservas) = reservas /\ Sobre(u.altas, grupos) = grupos
  BY ONLY <1>5, <1>14, SobreVacio
<1>16. ASSUME NEW r \in Abiertas \ {p} PROVE SeLlevan(u, r)
  <2>1. /\ Modo(q) # "ninguno" => \/ Modo(tx[r].pedido) = "ninguno"
                                  \/ Modo(q) = "compartido" /\ Modo(tx[r].pedido) = "compartido"
    BY <1>1 DEF PuedeCoordinar
  <2>2. CompatiblesT(u, tx[r]) /\ CompatiblesT(tx[r], u)
    BY <1>5, <2>1 DEF CompatiblesT
  <2>3. SinSolapesJuntas(tx[r], tx[r], reservas, grupos)
    BY EnCursoDe
  <2>4. SinSolapes(Sobre(tx[r].filas, reservas), Sobre(tx[r].altas, grupos))
    <3>1. /\ Sobre(tx[r].filas, Sobre(tx[r].filas, reservas)) = Sobre(tx[r].filas, reservas)
          /\ Sobre(tx[r].altas, Sobre(tx[r].altas, grupos)) = Sobre(tx[r].altas, grupos)
      BY ONLY <1>14, SobreDosVeces
    <3> QED BY <2>3, <3>1 DEF SinSolapesJuntas
  <2>5. /\ Sobre(u.filas, Sobre(tx[r].filas, reservas)) = Sobre(tx[r].filas, reservas)
        /\ Sobre(u.altas, Sobre(tx[r].altas, grupos)) = Sobre(tx[r].altas, grupos)
    <3>1. EsTabla(Sobre(tx[r].filas, reservas), Ids) /\ EsTabla(Sobre(tx[r].altas, grupos), Grupos)
      BY ONLY <1>14, SobreEs
    <3> QED BY ONLY <1>5, <3>1, SobreVacio
  <2> QED BY <1>15, <2>2, <2>4, <2>5 DEF SeLlevan, SinSolapesJuntas
<1>17. SinSolapesJuntas(u, u, reservas, grupos)
  <2>1. SinSolapes(reservas, grupos)
    BY DEF IInvC, IInv, NoSolapamiento
  <2> QED BY <1>15, <2>1 DEF SinSolapesJuntas
<1> QED BY <1>1, <1>4, <1>5, <1>11, <1>12, <1>13, <1>16, <1>17, CambiaUna

-----------------------------------------------------------------------------
(* The step that writes                                                      *)

\* What a transaction writes is a whole set of tables.
LEMMA EscrituraTabla ==
    ASSUME IInv, NEW t \in Registro, NEW w \in Escrituras(t)
    PROVE  EsTabla(w.rs, Ids) /\ EsTabla(w.gs, Grupos) /\ EsTabla(w.es, Equipos)
<1> DEFINE q == t.pedido
<1>1. /\ EsTabla(equipos, Equipos) /\ EsTabla(reservas, Ids) /\ EsTabla(grupos, Grupos)
      /\ q \in Pedidos
  BY IInvTablas, RegistroTipo DEF IInv, EsTabla
<1>2. ASSUME NEW S, NEW estado
      PROVE  /\ EsTabla(Cierre(S, estado).rs, Ids) /\ EsTabla(Cierre(S, estado).gs, Grupos)
             /\ Cierre(S, estado).es = equipos
             /\ DOMAIN Cierre(S, estado) = {"rs", "gs", "es"}
  BY DEF Cierre, Tablas, EsTabla, ConEstado, Recalculados
<1>3. CASE q.op = "crear"
  <2>1. PICK plan, nuevos, regla : w = Creacion(q, plan, nuevos, regla)
    BY <1>3 DEF Escrituras, EscriturasDeCrear
  <2> QED BY <1>1, <2>1 DEF Creacion, Tablas, ConFilas, Recalculados, EsTabla
<1>4. CASE q.op = "bloquear"
  <2>1. PICK rs, gs, g, G : w = Tablas(ConFilas(rs, {g}, q.E), Recalculados(gs, rs, G))
    BY <1>4 DEF Escrituras, EscriturasDeBloquear
  <2> QED BY <1>1, <2>1 DEF Tablas, ConFilas, Recalculados, EsTabla
<1>5. CASE q.op = "cambiar"
  <2>1. w = Tablas(ConEquipo(reservas, Actuales(t), q.nuevo), grupos)
    BY <1>5 DEF Escrituras
  <2> QED BY <1>1, <2>1 DEF Tablas, ConEquipo, EsTabla
<1>6. CASE q.op = "condicion"
  <2>1. w = [Tablas(reservas, grupos) EXCEPT !.es[q.equipo] = q.nueva]
    BY <1>6 DEF Escrituras
  <2>2. w.rs = reservas /\ w.gs = grupos /\ w.es = [equipos EXCEPT ![q.equipo] = q.nueva]
    BY <2>1 DEF Tablas
  <2> QED BY <1>1, <2>2 DEF EsTabla
<1>7. CASE q.op = "sacar"
  <2>1. w = [Cierre(Actuales(t), "CANCELADA") EXCEPT !.es[q.equipo] = "fuera"]
    BY <1>7 DEF Escrituras
  <2>2. PICK c : c = Cierre(Actuales(t), "CANCELADA")
    OBVIOUS
  <2>3. /\ EsTabla(c.rs, Ids) /\ EsTabla(c.gs, Grupos) /\ c.es = equipos
    BY <1>2, <2>2
  <2>4. w.rs = c.rs /\ w.gs = c.gs /\ w.es = [equipos EXCEPT ![q.equipo] = "fuera"]
    BY <2>1, <2>2 DEF Cierre, Tablas
  <2> QED BY <1>1, <2>3, <2>4 DEF EsTabla
<1>8. CASE q.op \in OpsDeCierre \ {"sacar"}
  <2>1. PICK S, estado : w = Cierre(S, estado)
    BY <1>8 DEF Escrituras, OpsDeCierre
  <2> QED BY <1>1, <1>2, <2>1
<1> QED BY <1>1, <1>3, <1>4, <1>5, <1>6, <1>7, <1>8, PedidoTipo

\* What changes of a table is part of it.
LEMMA CambiosTabla ==
    ASSUME NEW f, NEW g
    PROVE  EsTabla(Cambios(f, g), DOMAIN Cambios(f, g))
BY DEF Cambios, Restrict, EsTabla

\* The type of some rows of a table.
LEMMA ParcialDe ==
    ASSUME NEW A, NEW V, NEW f, EsTabla(f, DOMAIN f), DOMAIN f \subseteq A,
           \A x \in DOMAIN f : f[x] \in V
    PROVE  f \in Parcial(A, V)
<1>1. f \in [DOMAIN f -> V]
  BY DEF EsTabla
<1> QED BY <1>1 DEF Parcial

\* What a transaction writes, as tables over those it finds.
LEMMA EscribeTablas ==
    ASSUME IInv, NEW t \in Registro, NEW w \in Escrituras(t), NEW u, EscribeEn(t, u, w)
    PROVE  /\ EsTabla(u.filas, DOMAIN u.filas) /\ DOMAIN u.filas \subseteq Ids
           /\ EsTabla(u.altas, DOMAIN u.altas) /\ DOMAIN u.altas \subseteq Grupos
           /\ EsTabla(u.estados, DOMAIN u.estados) /\ DOMAIN u.estados \subseteq Equipos
           /\ Sobre(u.filas, reservas) = w.rs /\ Sobre(u.altas, grupos) = w.gs
<1>1. EsTabla(w.rs, Ids) /\ EsTabla(w.gs, Grupos) /\ EsTabla(w.es, Equipos)
  BY EscrituraTabla
<1>2. /\ EsTabla(equipos, Equipos) /\ EsTabla(reservas, Ids) /\ EsTabla(grupos, Grupos)
  BY IInvTablas DEF IInv, EsTabla
<1>3. /\ u.filas = Cambios(w.rs, reservas) /\ u.altas = Cambios(w.gs, grupos)
      /\ u.estados = Cambios(w.es, equipos)
  BY DEF EscribeEn
<1>4. /\ EsTabla(u.filas, DOMAIN u.filas) /\ EsTabla(u.altas, DOMAIN u.altas)
      /\ EsTabla(u.estados, DOMAIN u.estados)
  BY <1>3, CambiosTabla
<1>5. Sobre(u.filas, reservas) = w.rs /\ \A x : x \in DOMAIN u.filas => x \in Ids
  BY ONLY <1>1, <1>2, <1>3, SobreCambios
<1>6. Sobre(u.altas, grupos) = w.gs /\ \A x : x \in DOMAIN u.altas => x \in Grupos
  BY ONLY <1>1, <1>2, <1>3, SobreCambios
<1>7. \A x : x \in DOMAIN u.estados => x \in Equipos
  BY ONLY <1>1, <1>2, <1>3, SobreCambios
<1> QED BY <1>4, <1>5, <1>6, <1>7

\* The rows it writes are rows, and the groups groups.
LEMMA FilasEscritas ==
    ASSUME IInv, NEW t \in Registro, EnCurso(t, reservas, grupos, equipos), t.fase = "releido",
           NEW u, u.pedido = t.pedido, u.vistas = t.vistas, u.releidas = t.releidas,
           u.reloj = t.reloj, DOMAIN u.filas \subseteq Ids, DOMAIN u.altas \subseteq Grupos,
           Escrito(u, reservas, grupos, equipos)
    PROVE  \A i \in DOMAIN u.filas : u.filas[i] \in Reserva
<1> DEFINE q == t.pedido
<1>1. /\ q \in Pedidos
      /\ DOMAIN t.vistas \subseteq DOMAIN t.releidas
      /\ \A i \in DOMAIN t.releidas : /\ t.releidas[i] \in Reserva /\ i \in Ids
                                      /\ reservas[i] = t.releidas[i]
  BY RegistroTipo DEF EnCurso, Tomado
<1>2. /\ Actuales(u) \subseteq DOMAIN t.releidas /\ SinTerminar(u) \subseteq DOMAIN t.releidas
      /\ PorCerrar(u) \subseteq DOMAIN t.releidas
  BY <1>1 DEF Actuales, SinTerminar, PorCerrar
<1> HIDE DEF q
<1> SUFFICES ASSUME NEW i \in DOMAIN u.filas PROVE u.filas[i] \in Reserva
  OBVIOUS
<1>a. i \in Ids
  OBVIOUS
<1>3. ASSUME NEW f \in Reserva, NEW s \in EstadosReserva PROVE [f EXCEPT !.estado = s] \in Reserva
  BY DEF Reserva
<1>4. ASSUME NEW f \in Reserva, NEW e \in Equipos PROVE [f EXCEPT !.equipo = e] \in Reserva
  BY DEF Reserva
<1>5. ASSUME i[2] \in Equipos, u.filas[i] = [estado |-> "CONFIRMADA", equipo |-> i[2]]
      PROVE  u.filas[i] \in Reserva
  BY <1>5 DEF Reserva, EstadosReserva
<1>6. CASE q.op \in OpsDeCierre
  <2>1. i \in PorCerrar(u) /\ u.filas[i] = [u.releidas[i] EXCEPT !.estado = EstadoFinal(u.pedido)]
    BY <1>6 DEF Escrito, EscritoCierre, q
  <2>2. EstadoFinal(u.pedido) \in EstadosReserva
    BY DEF EstadoFinal, EstadosReserva
  <2>3. u.releidas[i] \in Reserva
    BY <1>1, <1>2, <2>1
  <2> QED BY <1>3, <2>1, <2>2, <2>3
<1>7. CASE q.op = "cambiar"
  <2>1. i \in Actuales(u) /\ u.filas[i] = [u.releidas[i] EXCEPT !.equipo = u.pedido.nuevo]
    BY <1>7 DEF Escrito, EscritoCambio, q
  <2>2. u.pedido.nuevo \in Equipos
    BY <1>1, <1>7, PedidoTipo DEF q
  <2>3. u.releidas[i] \in Reserva
    BY <1>1, <1>2, <2>1
  <2> QED BY <1>4, <2>1, <2>2, <2>3
<1>8. CASE q.op = "condicion"
  BY <1>8 DEF Escrito, EscritoNada, q
<1>9. CASE q.op = "bloquear"
  <2>1. PICK g \in Grupos :
           /\ EscritaLaInsercion(u, grupos, {g})
           /\ DOMAIN u.filas = EnMedio(u, grupos) \cup Insertadas(u, {g})
           /\ \A j \in EnMedio(u, grupos) : u.filas[j] = [u.releidas[j] EXCEPT !.estado = "CANCELADA"]
    BY <1>9 DEF Escrito, EscritoBloqueo, q
  <2>2. CASE i \in Insertadas(u, {g})
    <3>1. u.filas[i] = [estado |-> "CONFIRMADA", equipo |-> i[2]]
      BY <2>1, <2>2 DEF EscritaLaInsercion
    <3>2. i[2] \in Equipos
      BY <1>a DEF Ids
    <3> QED BY <1>5, <3>1, <3>2
  <2>3. CASE i \in EnMedio(u, grupos)
    <3>1. u.filas[i] = [u.releidas[i] EXCEPT !.estado = "CANCELADA"] /\ u.releidas[i] \in Reserva
      BY <1>1, <1>2, <2>1, <2>3 DEF EnMedio
    <3> QED BY <1>3, <3>1 DEF EstadosReserva
  <2> QED BY <2>1, <2>2, <2>3
<1>10. CASE q.op = "crear"
  <2>0. EscritaLaClase(u, reservas, grupos, equipos)
    BY <1>10 DEF Escrito, q
  <2>1. PICK plan \in Parcial(Ids, Equipos \cup {Nada}), G \in SUBSET Grupos :
           /\ PlanVigente(u, plan, reservas, grupos, equipos)
           /\ EscritaLaInsercion(u, grupos, G)
           /\ DOMAIN u.filas \subseteq DOMAIN plan \cup Insertadas(u, G)
           /\ \A j \in DOMAIN plan : Sobre(u.filas, reservas)[j] = AplicarPlan(reservas, plan)[j]
    BY <2>0 DEF EscritaLaClase
  <2>2. CASE i \in Insertadas(u, G)
    <3>1. u.filas[i] = [estado |-> "CONFIRMADA", equipo |-> i[2]]
      BY <2>1, <2>2 DEF EscritaLaInsercion
    <3>2. i[2] \in Equipos
      BY <1>a DEF Ids
    <3> QED BY <1>5, <3>1, <3>2
  <2>3. CASE i \in DOMAIN plan
    <3>1. DOMAIN reservas = Ids
      BY IInvTablas DEF IInv
    <3>2. u.filas[i] = AplicarPlan(reservas, plan)[i]
      BY <1>a, <2>1, <2>3, <3>1, SobreValor
    <3>3. /\ reservas[i] \in Reserva /\ plan[i] \in Equipos \cup {Nada}
      <4>1. i \in DOMAIN u.releidas
        BY <2>1, <2>3 DEF PlanVigente
      <4>2. plan[i] \in Equipos \cup {Nada}
        BY <2>1, <2>3 DEF PlanVigente, EnEspera
      <4> QED BY <1>1, <4>1, <4>2
    <3>4. u.filas[i] = IF plan[i] = Nada THEN [reservas[i] EXCEPT !.estado = "CANCELADA"]
                                         ELSE [reservas[i] EXCEPT !.equipo = plan[i]]
      BY <1>a, <2>3, <3>2 DEF AplicarPlan
    <3>5. "CANCELADA" \in EstadosReserva
      BY DEF EstadosReserva
    <3> QED BY <1>3, <1>4, <3>3, <3>4, <3>5
  <2> QED BY <2>1, <2>2, <2>3
<1> QED BY <1>1, <1>6, <1>7, <1>8, <1>9, <1>10, PedidoTipo DEF q

\* The groups written are groups.
LEMMA GruposEscritos ==
    ASSUME IInv, NEW t \in Registro, NEW u, u.pedido = t.pedido,
           DOMAIN u.filas \subseteq Ids, DOMAIN u.altas \subseteq Grupos,
           Escrito(u, reservas, grupos, equipos), \A i \in DOMAIN u.filas : u.filas[i] \in Reserva
    PROVE  \A g \in DOMAIN u.altas : u.altas[g] \in Grupo \cup Operacion
<1> DEFINE q == t.pedido
<1>1. q \in Pedidos /\ reservas \in [Ids -> Reserva \cup {Nada}] /\ grupos \in [Grupos -> FilasGrupo]
  BY RegistroTipo, IInvTablas DEF IInv
<1> SUFFICES ASSUME NEW g \in DOMAIN u.altas PROVE u.altas[g] \in Grupo \cup Operacion
  OBVIOUS
<1> HIDE DEF q
<1>2. g \in Grupos
  OBVIOUS
<1>3. CASE grupos[g] # Nada
  <2>1. Sobre(u.filas, reservas) \in [Ids -> Reserva \cup {Nada}]
    BY <1>1 DEF Sobre
  <2>2. u.altas[g] = Recalculados(grupos, Sobre(u.filas, reservas), GruposCerrados(u))[g]
    <3>1. Sobre(u.altas, grupos)[g] = u.altas[g]
      BY <1>1, SobreValor
    <3> QED BY <1>3, <3>1 DEF Escrito, EscritoElGrupo
  <2>3. u.altas[g] \in FilasGrupo
    BY <1>1, <2>1, <2>2, RecalculadosFila
  <2>4. u.altas[g] # Nada
    BY <1>3 DEF Escrito, EscritoBajoLlave, MismaClase, EsClase
  <2> QED BY <2>3, <2>4 DEF FilasGrupo
<1>4. CASE grupos[g] = Nada
  <2>1. CASE q.op \in OpsDeCierre
    BY <1>4, <2>1 DEF Escrito, EscritoCierre, q
  <2>2. CASE q.op \in {"cambiar", "condicion"}
    BY <2>2 DEF Escrito, EscritoCambio, EscritoNada, q
  <2>3. CASE q.op = "bloquear"
    <3>1. PICK h \in Grupos :
             /\ EscritaLaInsercion(u, grupos, {h})
             /\ u.altas[h] = [tipo |-> "BLOQUEO", franja |-> u.pedido.franja, docente |-> u.pedido.quien]
      BY <2>3 DEF Escrito, EscritoBloqueo, q
    <3>2. h = g
      BY <1>4, <3>1 DEF EscritaLaInsercion
    <3>3. u.pedido.franja \in Franjas /\ u.pedido.quien \in Usuarios
      BY <1>1, <2>3, PedidoTipo DEF q
    <3> QED BY <3>1, <3>2, <3>3 DEF Operacion
  <2>4. CASE q.op = "crear"
    <3>0. EscritaLaClase(u, reservas, grupos, equipos)
      BY <2>4 DEF Escrito, q
    <3>1. PICK G \in SUBSET Grupos :
           \E nuevos \in Bijection(G, u.pedido.F), regla \in ReglaDe(G) :
             /\ EscritaLaInsercion(u, grupos, G)
             /\ \A h \in G : u.altas[h] =
                   [tipo |-> "NORMAL", estado |-> "CONFIRMADA", franja |-> nuevos[h],
                    materia |-> u.pedido.materia, docente |-> u.pedido.quien, regla |-> regla]
      BY <3>0 DEF EscritaLaClase
    <3>2. PICK nuevos \in Bijection(G, u.pedido.F), regla \in ReglaDe(G) :
             /\ EscritaLaInsercion(u, grupos, G)
             /\ \A h \in G : u.altas[h] =
                   [tipo |-> "NORMAL", estado |-> "CONFIRMADA", franja |-> nuevos[h],
                    materia |-> u.pedido.materia, docente |-> u.pedido.quien, regla |-> regla]
      BY <3>1
    <3>3. g \in G
      BY <1>4, <3>2 DEF EscritaLaInsercion
    <3>4. nuevos[g] \in Franjas
      <4>1. u.pedido.F \in Series
        BY <1>1, <2>4, PedidoTipo DEF q
      <4>2. u.pedido.F \subseteq Franjas
        BY <4>1, ReservasAssumption
      <4>3. nuevos \in [G -> u.pedido.F]
        BY DEF Bijection, Injection
      <4> QED BY <3>3, <4>2, <4>3
    <3>5. regla \in Grupos \cup {Nada}
      BY DEF ReglaDe
    <3>6. u.pedido.materia \in Materias /\ u.pedido.quien \in Usuarios
      BY <1>1, <2>4, PedidoTipo DEF q
    <3>7. u.altas[g] = [tipo |-> "NORMAL", estado |-> "CONFIRMADA", franja |-> nuevos[g],
                        materia |-> u.pedido.materia, docente |-> u.pedido.quien, regla |-> regla]
      BY <3>2, <3>3
    <3>8. u.altas[g] \in Grupo
      BY ONLY <3>4, <3>5, <3>6, <3>7 DEF Grupo, EstadosGrupo
    <3> QED BY <3>8
  <2> QED BY <1>1, <2>1, <2>2, <2>3, <2>4, PedidoTipo
<1> QED BY <1>3, <1>4

\* The conditions written are conditions.
LEMMA EquiposEscritos ==
    ASSUME IInv, NEW t \in Registro, NEW u, u.pedido = t.pedido, DOMAIN u.estados \subseteq Equipos,
           EscritoElEquipo(u, equipos)
    PROVE  \A e \in DOMAIN u.estados : u.estados[e] \in Condiciones
<1> SUFFICES ASSUME NEW e \in DOMAIN u.estados PROVE u.estados[e] \in Condiciones
  OBVIOUS
<1>1. /\ t.pedido \in Pedidos /\ equipos \in [Equipos -> Condiciones] /\ e \in Equipos
  BY RegistroTipo, IInvTablas DEF IInv
<1>2. Sobre(u.estados, equipos)[e] = u.estados[e]
  BY <1>1, SobreValor
<1>3. CASE u.pedido.op = "sacar"
  <2>1. Sobre(u.estados, equipos) = [equipos EXCEPT ![u.pedido.equipo] = "fuera"]
    BY <1>3 DEF EscritoElEquipo
  <2> QED BY <1>1, <1>2, <2>1 DEF Condiciones
<1>4. CASE u.pedido.op = "condicion"
  <2>1. Sobre(u.estados, equipos) = [equipos EXCEPT ![u.pedido.equipo] = u.pedido.nueva]
    BY <1>4 DEF EscritoElEquipo
  <2>2. u.pedido.nueva \in Condiciones
    BY <1>1, <1>4, PedidoTipo
  <2> QED BY <1>1, <1>2, <2>1, <2>2
<1> QED BY <1>3, <1>4 DEF EscritoElEquipo

\* Writing: no_solapamiento holds with what each of the others has written.
LEMMA EscribirInv ==
    ASSUME IInvC, NEW p \in Abiertas, Escribir(p)
    PROVE  IInvC'
<1> DEFINE t == tx[p]
<1>1. /\ p \in Procesos /\ t \in Registro /\ t.reloj \in Relojes
      /\ EnCurso(t, reservas, grupos, equipos)
      /\ Visto(t, reservas, grupos, equipos) /\ Tomado(t, reservas, grupos)
      /\ t.fase # "tomando" => t.faltan = {}
      /\ t.fase # "escrito" => EscritoNada(t) /\ DOMAIN t.estados = {}
      /\ \A r \in Abiertas \ {p} : SeLlevan(t, r)
  BY EnCursoDe
<1>2. IInv /\ tx \in [Procesos -> Registro \cup {Nada}]
  BY DEF IInvC
<1>3. t.fase = "releido" /\ UNCHANGED vars
  BY DEF Escribir
<1>4. PICK w \in Escrituras(t) :
         /\ Compatible(w)
         /\ tx' = [tx EXCEPT ![p].fase = "escrito",
                             ![p].filas = Cambios(w.rs, reservas),
                             ![p].altas = Cambios(w.gs, grupos),
                             ![p].estados = Cambios(w.es, equipos)]
  BY DEF Escribir
<1>5. PICK u : u = [t EXCEPT !.fase = "escrito", !.filas = Cambios(w.rs, reservas),
                             !.altas = Cambios(w.gs, grupos), !.estados = Cambios(w.es, equipos)]
  OBVIOUS
<1>6. tx' = [tx EXCEPT ![p] = u]
  BY <1>1, <1>2, <1>4, <1>5
<1> HIDE DEF t
<1>7. /\ u.pedido = t.pedido /\ u.reloj = t.reloj /\ u.vistas = t.vistas /\ u.releidas = t.releidas
      /\ u.fase = "escrito" /\ u.faltan = t.faltan /\ u.tiene = t.tiene
      /\ u.filas = Cambios(w.rs, reservas) /\ u.altas = Cambios(w.gs, grupos)
      /\ u.estados = Cambios(w.es, equipos)
  BY <1>1, <1>5 DEF Registro
<1>8. EscribeEn(t, u, w)
  BY <1>7 DEF EscribeEn
<1>9. Escrito(u, reservas, grupos, equipos) /\ DOMAIN u.altas \cap Libres \subseteq Nuevos
  BY <1>1, <1>2, <1>3, <1>8, LoQueEscribe
<1>10. /\ EsTabla(u.filas, DOMAIN u.filas) /\ DOMAIN u.filas \subseteq Ids
       /\ EsTabla(u.altas, DOMAIN u.altas) /\ DOMAIN u.altas \subseteq Grupos
       /\ EsTabla(u.estados, DOMAIN u.estados) /\ DOMAIN u.estados \subseteq Equipos
       /\ Sobre(u.filas, reservas) = w.rs /\ Sobre(u.altas, grupos) = w.gs
  BY <1>1, <1>2, <1>8, EscribeTablas
<1>11. \A i \in DOMAIN u.filas : u.filas[i] \in Reserva
  BY <1>1, <1>2, <1>3, <1>7, <1>9, <1>10, FilasEscritas
<1>12. \A g \in DOMAIN u.altas : u.altas[g] \in Grupo \cup Operacion
  BY <1>1, <1>2, <1>7, <1>9, <1>10, <1>11, GruposEscritos
<1>13. \A e \in DOMAIN u.estados : u.estados[e] \in Condiciones
  BY <1>1, <1>2, <1>7, <1>9, <1>10, EquiposEscritos DEF Escrito
<1>14. u \in Registro
  <2>1. u.filas \in Parcial(Ids, Reserva)
    BY ONLY <1>10, <1>11, ParcialDe
  <2>2. u.altas \in Parcial(Grupos, Grupo \cup Operacion)
    BY ONLY <1>10, <1>12, ParcialDe
  <2>3. u.estados \in Parcial(Equipos, Condiciones)
    BY ONLY <1>10, <1>13, ParcialDe
  <2> QED BY <1>1, <1>5, <1>7, <2>1, <2>2, <2>3 DEF Registro, Fases
<1>15. EnCurso(u, reservas, grupos, equipos)
  <2>1. Visto(u, reservas, grupos, equipos)
    BY <1>1, <1>7, VistoIgual
  <2>2. Tomado(u, reservas, grupos)
    BY <1>1, <1>3, <1>7 DEF Tomado
  <2> QED BY <1>1, <1>3, <1>7, <1>9, <2>1, <2>2 DEF EnCurso
<1>16. EsTabla(reservas, Ids) /\ EsTabla(grupos, Grupos)
  BY <1>2, IInvTablas DEF IInv, EsTabla
<1>17. ASSUME NEW r \in Abiertas \ {p} PROVE SeLlevan(u, r)
  <2> DEFINE v == tx[r]
  <2>1. /\ CompatiblesT(t, v) /\ CompatiblesT(v, t) /\ v \in Registro
        /\ v.fase # "escrito" => DOMAIN v.filas = {} /\ DOMAIN v.altas = {}
        /\ v.fase = "escrito" => EscritoBajoLlave(v, reservas, grupos)
        /\ SinSolapes(Sobre(v.filas, w.rs), Sobre(v.altas, w.gs))
    BY <1>1, <1>4, EnCursoDe DEF SeLlevan, EscritoNada, Escrito, Compatible
  <2> HIDE DEF v
  <2>2. DOMAIN u.altas \cap DOMAIN v.altas = {}
    <3> SUFFICES ASSUME NEW g \in DOMAIN u.altas, g \in DOMAIN v.altas PROVE FALSE
      OBVIOUS
    <3>1. CASE grupos[g] # Nada
      <4>1. g \in u.tiene /\ g \in v.tiene
        BY <1>9, <2>1, <3>1 DEF Escrito, EscritoBajoLlave
      <4> QED BY <1>7, <2>1, <4>1 DEF CompatiblesT
    <3>2. CASE grupos[g] = Nada
      <4>1. g \in Nuevos
        BY <1>9, <1>10, <3>2 DEF Libres
      <4> QED BY <4>1 DEF Nuevos, v
    <3> QED BY <3>1, <3>2
  <2>3. DOMAIN u.filas \cap DOMAIN v.filas = {}
    <3> SUFFICES ASSUME NEW i \in DOMAIN u.filas, i \in DOMAIN v.filas PROVE FALSE
      OBVIOUS
    <3>1. EscritoBajoLlave(u, reservas, grupos) /\ EscritoBajoLlave(v, reservas, grupos)
      BY <1>9, <2>1 DEF Escrito
    <3>2. CASE reservas[i] # Nada
      <4>1. LlaveEn(grupos, i) \in u.tiene /\ LlaveEn(grupos, i) \in v.tiene
        BY <3>1, <3>2 DEF EscritoBajoLlave
      <4> QED BY <1>7, <2>1, <4>1 DEF CompatiblesT
    <3>3. CASE reservas[i] = Nada
      <4>1. i[1] \in DOMAIN u.altas /\ i[1] \in DOMAIN v.altas
        BY <3>1, <3>3 DEF EscritoBajoLlave
      <4> QED BY <2>2, <4>1
    <3> QED BY <3>2, <3>3
  <2>4. CompatiblesT(u, v) /\ CompatiblesT(v, u)
    BY <1>7, <2>1, <2>2 DEF CompatiblesT
  <2>5. SinSolapesJuntas(u, v, reservas, grupos)
    BY <1>10, <2>1 DEF SinSolapesJuntas
  <2>6. /\ Sobre(u.filas, Sobre(v.filas, reservas)) = Sobre(v.filas, Sobre(u.filas, reservas))
        /\ Sobre(u.altas, Sobre(v.altas, grupos)) = Sobre(v.altas, Sobre(u.altas, grupos))
    BY ONLY <1>16, <2>2, <2>3, SobreConmuta
  <2>7. SinSolapesJuntas(v, u, reservas, grupos)
    BY <2>5, <2>6 DEF SinSolapesJuntas
  <2> QED BY <2>4, <2>5, <2>7 DEF SeLlevan, v
<1>18. SinSolapesJuntas(u, u, reservas, grupos)
  <2>1. SinSolapes(Sobre(t.filas, w.rs), Sobre(t.altas, w.gs))
    BY <1>4 DEF Compatible, t
  <2>2. DOMAIN t.filas = {} /\ DOMAIN t.altas = {}
    BY <1>1, <1>3 DEF EscritoNada
  <2>3. EsTabla(w.rs, Ids) /\ EsTabla(w.gs, Grupos)
    BY <1>1, <1>2, EscrituraTabla
  <2>4. Sobre(t.filas, w.rs) = w.rs /\ Sobre(t.altas, w.gs) = w.gs
    BY ONLY <2>2, <2>3, SobreVacio
  <2>5. /\ Sobre(u.filas, Sobre(u.filas, reservas)) = Sobre(u.filas, reservas)
        /\ Sobre(u.altas, Sobre(u.altas, grupos)) = Sobre(u.altas, grupos)
    BY ONLY <1>16, SobreDosVeces
  <2> QED BY <1>10, <2>1, <2>4, <2>5 DEF SinSolapesJuntas
<1> QED BY <1>1, <1>3, <1>6, <1>7, <1>14, <1>15, <1>17, <1>18, CambiaUna

\* One transaction less.
LEMMA AbortarInv ==
    ASSUME IInvC, NEW p \in Abiertas, Abortar(p)
    PROVE  IInvC'
<1>1. /\ tx' = [tx EXCEPT ![p] = Nada] /\ UNCHANGED vars
      /\ reservas' = reservas /\ grupos' = grupos /\ equipos' = equipos /\ ahora' = ahora
  BY DEF Abortar, vars
<1>2. IInv'
  BY <1>1, NextIInv DEF IInvC
<1>3. tx \in [Procesos -> Registro \cup {Nada}] /\ p \in Procesos
  BY DEF IInvC, Abiertas
<1>4. /\ tx' \in [Procesos -> Registro \cup {Nada}]
      /\ Abiertas' \subseteq Abiertas /\ \A r \in Abiertas' : tx'[r] = tx[r]
  BY <1>1, <1>3 DEF Abiertas
<1>5. Relojes' = Relojes /\ ReglasCargadas(grupos)'
  BY <1>1 DEF Relojes, IInvC, ReglasCargadas, EsClase
<1>6. \A r \in Abiertas' : tx'[r].reloj \in Relojes' /\ EnCurso(tx'[r], reservas', grupos', equipos')
  BY <1>1, <1>4, <1>5 DEF IInvC
<1>7. \A r, s \in Abiertas' : r # s => CompatiblesT(tx'[r], tx'[s])
  BY <1>4 DEF IInvC
<1>8. \A r, s \in Abiertas' : SinSolapesJuntas(tx'[r], tx'[s], reservas', grupos')
  BY <1>1, <1>4 DEF IInvC
<1> QED BY <1>2, <1>4, <1>5, <1>6, <1>7, <1>8 DEF IInvC

\* The clock, which no open transaction outlives by more than Retraso.
LEMMA AvanzaInv ==
    ASSUME IInvC, Avanza
    PROVE  IInvC'
<1>1. /\ PasaElTiempo /\ tx' = tx /\ \A p \in Abiertas : ahora - tx[p].reloj < Retraso
      /\ reservas' = reservas /\ grupos' = grupos /\ equipos' = equipos
      /\ ahora' = ahora + 1 /\ ahora < Horizonte
  BY DEF Avanza, PasaElTiempo
<1>2. IInv'
  <2>1. Next
    BY <1>1 DEF Next
  <2> QED BY <2>1, NextIInv DEF IInvC
<1>3. /\ tx' \in [Procesos -> Registro \cup {Nada}] /\ Abiertas' = Abiertas
  BY <1>1 DEF IInvC, Abiertas
<1>4. ReglasCargadas(grupos)'
  BY <1>1 DEF IInvC, ReglasCargadas, EsClase
<1>5. ASSUME NEW r \in Abiertas PROVE tx[r].reloj \in Relojes'
  <2>1. /\ ahora \in Nat /\ Retraso \in Nat /\ tx[r].reloj \in 0..ahora
        /\ ahora - tx[r].reloj < Retraso
    BY <1>1, ReservasAssumption DEF IInvC, IInv, TypeOK, Relojes
  <2> QED BY <1>1, <2>1 DEF Relojes
<1>6. \A r \in Abiertas' : tx'[r].reloj \in Relojes' /\ EnCurso(tx'[r], reservas', grupos', equipos')
  BY <1>1, <1>3, <1>5 DEF IInvC
<1>7. \A r, s \in Abiertas' : r # s => CompatiblesT(tx'[r], tx'[s])
  BY <1>1, <1>3 DEF IInvC
<1>8. \A r, s \in Abiertas' : SinSolapesJuntas(tx'[r], tx'[s], reservas', grupos')
  BY <1>1, <1>3 DEF IInvC
<1> QED BY <1>2, <1>3, <1>4, <1>6, <1>7, <1>8 DEF IInvC

-----------------------------------------------------------------------------
(* What each request commits                                                 *)

\* What a closing commits.
LEMMA CierreConfirmado ==
    ASSUME IInv, NEW t \in Registro, Tomado(t, reservas, grupos), t.fase = "escrito",
           Escrito(t, reservas, grupos, equipos), t.pedido.op \in OpsDeCierre
    PROVE  LET S == PorCerrar(t) IN
           /\ \A i \in S : /\ i \in Ids /\ i \in DOMAIN t.vistas /\ Confirmada(i)
                           /\ reservas[i] = t.releidas[i]
           /\ Sobre(t.filas, reservas) = ConEstado(reservas, S, EstadoFinal(t.pedido))
           /\ Sobre(t.altas, grupos) = Recalculados(grupos, Sobre(t.filas, reservas), GruposDe(S))
<1> DEFINE S == PorCerrar(t)
           e == EstadoFinal(t.pedido)
           rs == Sobre(t.filas, reservas)
<1>1. /\ EscritoCierre(t, grupos) /\ EscritoElGrupo(t, reservas, grupos)
      /\ EsTabla(reservas, Ids) /\ EsTabla(grupos, Grupos)
      /\ DOMAIN t.vistas \subseteq DOMAIN t.releidas
  BY IInvTablas DEF Escrito, IInv, EsTabla, Tomado
<1>2. \A i \in S : /\ i \in Ids /\ i \in DOMAIN t.vistas /\ Confirmada(i)
                   /\ reservas[i] = t.releidas[i] /\ reservas[i] \in Reserva
  <2> TAKE i \in S
  <2>1. i \in DOMAIN t.vistas /\ t.releidas[i].estado = "CONFIRMADA"
    BY DEF PorCerrar, SinTerminar, Actuales
  <2>2. i \in DOMAIN t.releidas
    BY <1>1, <2>1
  <2>3. /\ i \in Ids /\ reservas[i] = t.releidas[i] /\ reservas[i] # Nada /\ reservas[i] \in Reserva
    BY <2>2, LeidasVigentes
  <2> QED BY <2>1, <2>3 DEF Confirmada
<1>3. DOMAIN t.filas = S /\ \A i \in S : t.filas[i] = [t.releidas[i] EXCEPT !.estado = e]
  BY <1>1 DEF EscritoCierre
<1>4. e # "CONFIRMADA"
  BY DEF EstadoFinal
<1>5. rs = ConEstado(reservas, S, e)
  <2>1. EsTabla(rs, Ids) /\ EsTabla(ConEstado(reservas, S, e), Ids)
    BY <1>1, SobreEs DEF EsTabla, ConEstado
  <2>2. \A i \in Ids : rs[i] = ConEstado(reservas, S, e)[i]
    <3> TAKE i \in Ids
    <3>1. rs[i] = IF i \in S THEN t.filas[i] ELSE reservas[i]
      BY <1>1, <1>3, SobreEn
    <3>2. ConEstado(reservas, S, e)[i] = IF i \in S THEN [reservas[i] EXCEPT !.estado = e] ELSE reservas[i]
      BY DEF ConEstado
    <3>3. i \in S => t.filas[i] = [reservas[i] EXCEPT !.estado = e]
      BY <1>2, <1>3
    <3> HIDE DEF S, e, rs
    <3> QED BY <3>1, <3>2, <3>3
  <2> HIDE DEF S, e, rs
  <2> QED BY ONLY <2>1, <2>2, IgualesSiCoinciden
<1>6. GruposCerrados(t) = GruposDe(S)
  <2>1. \A i \in S : t.filas[i].estado # "CONFIRMADA"
    <3> TAKE i \in S
    <3>1. t.filas[i] = [reservas[i] EXCEPT !.estado = e] /\ reservas[i] \in Reserva
      BY <1>2, <1>3
    <3> HIDE DEF e
    <3> QED BY <1>4, <3>1 DEF Reserva
  <2> QED BY <1>3, <2>1 DEF GruposCerrados, GruposDe
<1>7. Sobre(t.altas, grupos) = Recalculados(grupos, rs, GruposDe(S))
  <2>1. EsTabla(Sobre(t.altas, grupos), Grupos) /\ EsTabla(Recalculados(grupos, rs, GruposDe(S)), Grupos)
    BY <1>1, SobreEs DEF EsTabla, Recalculados
  <2>2. \A g \in Grupos : Sobre(t.altas, grupos)[g] = Recalculados(grupos, rs, GruposDe(S))[g]
    <3> TAKE g \in Grupos
    <3>1. CASE grupos[g] # Nada
      BY <1>1, <1>6, <3>1 DEF EscritoElGrupo
    <3>2. CASE grupos[g] = Nada
      <4>1. g \notin DOMAIN t.altas
        BY <1>1, <3>2 DEF EscritoCierre
      <4>2. Sobre(t.altas, grupos)[g] = grupos[g]
        BY <1>1, <4>1, SobreEn
      <4>3. Recalculados(grupos, rs, GruposDe(S))[g] = grupos[g]
        BY <3>2 DEF Recalculados
      <4> QED BY <4>2, <4>3
    <3> QED BY <3>1, <3>2
  <2> HIDE DEF S, rs
  <2> QED BY ONLY <2>1, <2>2, IgualesSiCoinciden
<1> QED BY <1>2, <1>5, <1>7

\* A commit that writes nothing of a table leaves it as it was.
LEMMA NadaConfirmado ==
    ASSUME IInv, NEW t
    PROVE  /\ DOMAIN t.filas = {} => Sobre(t.filas, reservas) = reservas
           /\ DOMAIN t.altas = {} => Sobre(t.altas, grupos) = grupos
           /\ DOMAIN t.estados = {} => Sobre(t.estados, equipos) = equipos
<1>1. /\ EsTabla(equipos, Equipos) /\ EsTabla(reservas, Ids) /\ EsTabla(grupos, Grupos)
  BY IInvTablas DEF IInv, EsTabla
<1> QED BY <1>1, SobreVacio

\* A transaction ready to commit, and its commit.
PorConfirmar(t) ==
    /\ t.fase = "escrito" /\ t.reloj \in Relojes
    /\ Visto(t, reservas, grupos, equipos) /\ Tomado(t, reservas, grupos)
    /\ Escrito(t, reservas, grupos, equipos)
    /\ SinSolapes(Sobre(t.filas, reservas), Sobre(t.altas, grupos))

Comite(t) ==
    /\ reservas' = Sobre(t.filas, reservas)
    /\ grupos' = Sobre(t.altas, grupos)
    /\ equipos' = Sobre(t.estados, equipos)
    /\ ahora' = ahora

\* The closings commit Cerrar, but for the device that sacar takes out.
LEMMA CierreEsCerrar ==
    ASSUME IInv, NEW t \in Registro, PorConfirmar(t), Comite(t), t.pedido.op \in OpsDeCierre
    PROVE  LET S == PorCerrar(t) IN
           /\ \A i \in S : /\ i \in Ids /\ i \in DOMAIN t.vistas /\ Confirmada(i)
                           /\ reservas[i] = t.releidas[i]
           /\ reservas' = ConEstado(reservas, S, EstadoFinal(t.pedido))
           /\ grupos' = Recalculados(grupos, reservas', GruposDe(S))
           /\ EscritoCierre(t, grupos)
           /\ t.pedido.op # "sacar" => equipos' = equipos /\ Cerrar(S, EstadoFinal(t.pedido))
<1> DEFINE S == PorCerrar(t)
           e == EstadoFinal(t.pedido)
<1>1. /\ \A i \in S : /\ i \in Ids /\ i \in DOMAIN t.vistas /\ Confirmada(i)
                      /\ reservas[i] = t.releidas[i]
      /\ Sobre(t.filas, reservas) = ConEstado(reservas, S, e)
      /\ Sobre(t.altas, grupos) = Recalculados(grupos, Sobre(t.filas, reservas), GruposDe(S))
  BY CierreConfirmado DEF PorConfirmar
<1> HIDE DEF S, e
<1>2. /\ reservas' = ConEstado(reservas, S, e)
      /\ grupos' = Recalculados(grupos, reservas', GruposDe(S))
      /\ ahora' = ahora
  BY <1>1 DEF Comite
<1>3. EscritoCierre(t, grupos) /\ EscritoElEquipo(t, equipos)
  BY DEF PorConfirmar, Escrito
<1>4. t.pedido.op # "sacar" => equipos' = equipos
  BY <1>3, NadaConfirmado DEF EscritoElEquipo, Comite, OpsDeCierre
<1>5. t.pedido.op # "sacar" => Cerrar(S, e)
  BY <1>2, <1>4 DEF Cerrar
<1> QED BY <1>1, <1>2, <1>3, <1>4, <1>5 DEF S, e

\* Closing nothing.
LEMMA CerrarNada ==
    ASSUME IInv, NEW estado, Cerrar({}, estado)
    PROVE  UNCHANGED vars
<1>1. EsTabla(reservas, Ids) /\ EsTabla(grupos, Grupos)
  BY IInvTablas DEF IInv, EsTabla
<1>2. ConEstado(reservas, {}, estado) = reservas
  BY <1>1 DEF ConEstado, EsTabla
<1>3. \A rs : Recalculados(grupos, rs, GruposDe({})) = grupos
  <2> TAKE rs
  <2>1. \A g : g \notin GruposDe({})
    BY DEF GruposDe
  <2>2. \A g \in Grupos : Recalculados(grupos, rs, GruposDe({}))[g] = grupos[g]
    BY <2>1 DEF Recalculados
  <2>3. EsTabla(Recalculados(grupos, rs, GruposDe({})), Grupos)
    BY DEF Recalculados, EsTabla
  <2> QED BY <1>1, <2>2, <2>3, IgualesSiCoinciden
<1> QED BY <1>2, <1>3 DEF Cerrar, vars

\* CancelarReserva commits Cancelar.
LEMMA CancelarEsPaso ==
    ASSUME IInv, NEW t \in Registro, PorConfirmar(t), Comite(t), t.pedido.op = "cancelar"
    PROVE  Next
<1> DEFINE q == t.pedido
<1>1. q \in Pedidos /\ q.op \in OpsDeCierre /\ q.quien \in Usuarios /\ q.id \in Ids
  BY RegistroTipo, PedidoTipo DEF OpsDeCierre
<1>2. EscritoCierre(t, grupos) /\ Cerrar(PorCerrar(t), EstadoFinal(q))
      /\ \A i \in PorCerrar(t) : Confirmada(i)
  BY <1>1, CierreEsCerrar
<1>3. /\ PorCerrar(t) = {q.id} /\ EstadoFinal(q) = "CANCELADA"
      /\ EsBloqueo(q.id) => q.quien \in Admins
      /\ PuedeCancelar(grupos[q.id[1]].docente, q.quien)
  BY <1>2 DEF EscritoCierre, EstadoFinal, EsBloqueo, Bloque
<1> HIDE DEF q
<1>4. CancelarReserva(q.quien, q.id)
  BY <1>2, <1>3 DEF CancelarReserva
<1> QED BY <1>1, <1>4 DEF Next, Cancelar

\* CancelarOcurrenciaRecurrente commits CancelarSerie: its group lists are still complete.
LEMMA CancelarSerieEsPaso ==
    ASSUME IInv, NEW t \in Registro, PorConfirmar(t), Comite(t), t.pedido.op = "cancelarSerie"
    PROVE  Next
<1> DEFINE q == t.pedido
           G == IF q.soloEsta \/ grupos[q.grupo].regla = Nada THEN {q.grupo}
                ELSE {q.grupo} \cup GruposFuturosDeRegla(q.grupo)
<1>1. /\ q \in Pedidos /\ q.op \in OpsDeCierre /\ q.quien \in Usuarios /\ q.grupo \in Grupos
      /\ q.soloEsta \in BOOLEAN
  BY RegistroTipo, PedidoTipo DEF OpsDeCierre
<1>2. /\ Cerrar(PorCerrar(t), EstadoFinal(q))
      /\ \A i \in PorCerrar(t) : i \in Ids /\ i \in DOMAIN t.vistas /\ Confirmada(i)
  BY <1>1, CierreEsCerrar
<1>3. /\ VistoAlCancelarSerie(t, reservas, grupos) /\ Tomado(t, reservas, grupos)
      /\ t.fase # "tomando"
  BY DEF PorConfirmar, Visto
<1>4. GruposDePedido(q, grupos) = G
  BY DEF GruposDePedido, GruposFuturosDeRegla
<1>5. PorCerrar(t) = {i \in Ids : i[1] \in G /\ Confirmada(i)}
  <2>1. PorCerrar(t) = {i \in DOMAIN t.vistas : t.releidas[i].estado = "CONFIRMADA"}
    BY DEF PorCerrar, SinTerminar
  <2>2. ASSUME NEW i \in DOMAIN t.vistas PROVE i \in DOMAIN t.releidas /\ reservas[i] = t.releidas[i]
    BY <1>3 DEF Tomado
  <2>3. \A i \in Ids : i \in DOMAIN t.vistas <=> i[1] \in G /\ reservas[i] # Nada
    BY <1>3, <1>4 DEF VistoAlCancelarSerie
  <2> HIDE DEF G
  <2> QED BY <1>2, <2>1, <2>2, <2>3 DEF Confirmada
<1>6. EstadoFinal(q) = "CANCELADA"
  BY DEF EstadoFinal
<1>7. /\ grupos[q.grupo] # Nada /\ grupos[q.grupo].tipo = "NORMAL"
      /\ PuedeCancelar(grupos[q.grupo].docente, q.quien)
  BY <1>3 DEF VistoAlCancelarSerie, EsClase
<1>8. CancelarOcurrencia(q.quien, q.grupo, q.soloEsta)
  <2>1. Cerrar({i \in Ids : i[1] \in G /\ Confirmada(i)}, "CANCELADA")
    BY <1>2, <1>5, <1>6
  <2> QED BY <1>7, <2>1 DEF CancelarOcurrencia
<1> QED BY <1>1, <1>8 DEF Next, CancelarSerie

\* LevantarBloqueo commits Levantar.
LEMMA LevantarEsPaso ==
    ASSUME IInv, NEW t \in Registro, PorConfirmar(t), Comite(t), t.pedido.op = "levantar"
    PROVE  Next
<1> DEFINE q == t.pedido
<1>1. /\ q \in Pedidos /\ q.op \in OpsDeCierre /\ q.quien \in Usuarios /\ q.grupo \in Grupos
  BY RegistroTipo, PedidoTipo DEF OpsDeCierre
<1>2. /\ Cerrar(PorCerrar(t), EstadoFinal(q))
      /\ \A i \in PorCerrar(t) : i \in Ids /\ i \in DOMAIN t.vistas /\ Confirmada(i)
  BY <1>1, CierreEsCerrar
<1>3. /\ VistoAlLevantar(t, reservas, grupos) /\ Tomado(t, reservas, grupos)
      /\ t.fase # "tomando"
  BY DEF PorConfirmar, Visto
<1>4. PorCerrar(t) = {i \in Ids : i[1] = q.grupo /\ Confirmada(i)}
  <2>1. PorCerrar(t) = {i \in DOMAIN t.vistas : t.releidas[i].estado = "CONFIRMADA"}
    BY DEF PorCerrar, SinTerminar
  <2>2. ASSUME NEW i \in DOMAIN t.vistas PROVE i \in DOMAIN t.releidas /\ reservas[i] = t.releidas[i]
    BY <1>3 DEF Tomado
  <2>3. \A i \in Ids : i \in DOMAIN t.vistas <=> i[1] = q.grupo /\ reservas[i] # Nada
    BY <1>3 DEF VistoAlLevantar
  <2> QED BY <1>2, <2>1, <2>2, <2>3 DEF Confirmada
<1>5. EstadoFinal(q) = "CANCELADA"
  BY DEF EstadoFinal
<1>6. q.quien \in Admins /\ grupos[q.grupo] # Nada /\ grupos[q.grupo].tipo = "BLOQUEO"
  BY <1>3 DEF VistoAlLevantar
<1>7. LevantarBloqueo(q.quien, q.grupo)
  <2>1. Cerrar({i \in Ids : i[1] = q.grupo /\ Confirmada(i)}, "CANCELADA")
    BY <1>2, <1>4, <1>5
  <2> QED BY <1>6, <2>1 DEF LevantarBloqueo
<1> QED BY <1>1, <1>7 DEF Next, Levantar

\* At midnight of the first day nothing has finished.
LEMMA NoTerminadasAlPrincipio ==
    ASSUME IInv, NEW i \in Ids, Confirmada(i)
    PROVE  i \in NoTerminadas(0)
<1>1. FranjaDe(i) \in Franjas
  BY FilaTipo DEF IInv, Confirmada
<1>2. FranjaDe(i).fin \in Nat /\ FranjaDe(i).ini \in Nat /\ FranjaDe(i).ini < FranjaDe(i).fin
  BY <1>1, DominioAssumption
<1> QED BY <1>2 DEF NoTerminadas, YaTermino

\* Liberar commits Liberar.
LEMMA LiberarEsPaso ==
    ASSUME IInv, NEW t \in Registro, PorConfirmar(t), Comite(t), t.pedido.op = "liberar"
    PROVE  Next
<1> DEFINE q == t.pedido
<1>1. q \in Pedidos /\ q.op \in OpsDeCierre /\ q.id \in Ids
  BY RegistroTipo, PedidoTipo DEF OpsDeCierre
<1>2. EscritoCierre(t, grupos) /\ Cerrar(PorCerrar(t), EstadoFinal(q))
      /\ \A i \in PorCerrar(t) : Confirmada(i)
  BY <1>1, CierreEsCerrar
<1>3. /\ PorCerrar(t) = {q.id} /\ EstadoFinal(q) = "NO_RETIRADA"
      /\ ~EsBloqueo(q.id) /\ PuedeEntregarseEn(FranjaDe(q.id), "CONFIRMADA", t.reloj)
      /\ t.reloj \in Relojes
  BY <1>2 DEF EscritoCierre, EstadoFinal, EsBloqueo, Bloque, FranjaDe, FranjaEn, PorConfirmar
<1>4. Confirmada(q.id) /\ reservas[q.id].estado = "CONFIRMADA"
  BY <1>2, <1>3 DEF Confirmada
<1>5. {q.id} \in (SUBSET NoTerminadas(0)) \ {{}}
  BY <1>1, <1>4, NoTerminadasAlPrincipio
<1> HIDE DEF q
<1>6. LiberarReservas({q.id})
  <2>1. Cerrar({q.id}, "NO_RETIRADA")
    BY <1>2, <1>3
  <2> QED BY <1>3, <1>4, <2>1 DEF LiberarReservas
<1> QED BY <1>5, <1>6 DEF Next, Liberar

\* The cascade of a subject without teachers commits QuedarSinDocente: nothing escaped it.
LEMMA SinDocenteEsPaso ==
    ASSUME IInv, NEW t \in Registro, PorConfirmar(t), Comite(t), t.pedido.op = "sinDocente"
    PROVE  Next
<1> DEFINE q == t.pedido
           S == {i \in NoTerminadas(t.reloj) : ~EsBloqueo(i) /\ grupos[i[1]].materia = q.materia}
<1>1. q \in Pedidos /\ q.op \in OpsDeCierre /\ q.materia \in Materias
  BY RegistroTipo, PedidoTipo DEF OpsDeCierre
<1>2. /\ Cerrar(PorCerrar(t), EstadoFinal(q))
      /\ \A i \in PorCerrar(t) : i \in Ids /\ i \in DOMAIN t.vistas /\ Confirmada(i)
  BY <1>1, CierreEsCerrar
<1>3. /\ VistoSinDocente(t, reservas, grupos) /\ Tomado(t, reservas, grupos)
      /\ t.fase # "tomando" /\ t.reloj \in Relojes
  BY DEF PorConfirmar, Visto
<1>4. \A i \in Ids : i \in S <=> /\ ConfirmadaEn(reservas, i) /\ ~Bloque(grupos, i)
                                 /\ grupos[i[1]].materia = q.materia
                                 /\ ~YaTermino(FranjaEn(grupos, i), t.reloj)
  BY DEF NoTerminadas, Confirmada, ConfirmadaEn, EsBloqueo, Bloque, FranjaDe, FranjaEn
<1>5. \A i : i \in S => i \in Ids
  BY DEF NoTerminadas
<1> HIDE DEF S
<1>6. PorCerrar(t) = S
  <2>1. PorCerrar(t) = {i \in DOMAIN t.vistas : /\ t.releidas[i].estado = "CONFIRMADA"
                                                /\ t.releidas[i].equipo = t.vistas[i].equipo}
    BY DEF PorCerrar, Actuales
  <2>2. ASSUME NEW i \in DOMAIN t.vistas PROVE i \in DOMAIN t.releidas /\ reservas[i] = t.releidas[i]
    BY <1>3 DEF Tomado
  <2>3. ASSUME NEW i \in PorCerrar(t) PROVE i \in S
    BY <1>2, <1>3, <1>4 DEF VistoSinDocente, ConfirmadaEn, Confirmada
  <2>4. ASSUME NEW i \in S PROVE i \in PorCerrar(t)
    <3>1. i \in DOMAIN t.vistas /\ ConfirmadaEn(reservas, i) /\ reservas[i].equipo = t.vistas[i].equipo
      BY <1>3, <1>4, <1>5 DEF VistoSinDocente
    <3> QED BY <2>1, <2>2, <3>1 DEF ConfirmadaEn
  <2> QED BY <2>3, <2>4
<1>7. EstadoFinal(q) = "CANCELADA"
  BY DEF EstadoFinal
<1>8. CancelarFuturasDeMateria(q.materia)
  <2>1. Cerrar({i \in NoTerminadas(t.reloj) : ~EsBloqueo(i) /\ grupos[i[1]].materia = q.materia}, "CANCELADA")
    BY <1>2, <1>6, <1>7 DEF S
  <2> QED BY <1>3, <2>1 DEF CancelarFuturasDeMateria
<1> QED BY <1>1, <1>8 DEF Next, QuedarSinDocente

\* The cascade of a new timetable commits CambiarJornada, or nothing is left to cancel.
LEMMA JornadaEsPaso ==
    ASSUME IInv, NEW t \in Registro, PorConfirmar(t), Comite(t), t.pedido.op = "jornada"
    PROVE  Next \/ UNCHANGED vars
<1> DEFINE q == t.pedido
           S == PorCerrar(t)
<1>1. q \in Pedidos /\ q.op \in OpsDeCierre
  BY RegistroTipo DEF OpsDeCierre
<1>2. /\ Cerrar(S, EstadoFinal(q))
      /\ \A i \in S : i \in Ids /\ i \in DOMAIN t.vistas /\ Confirmada(i)
  BY <1>1, CierreEsCerrar
<1>3. VistoPorJornada(t, grupos) /\ t.reloj \in Relojes
  BY DEF PorConfirmar, Visto
<1>4. EstadoFinal(q) = "CANCELADA"
  BY DEF EstadoFinal
<1>5. S \subseteq NoEmpezadas(t.reloj)
  BY <1>2, <1>3 DEF VistoPorJornada, NoEmpezadas, EsBloqueo, Bloque, FranjaDe, FranjaEn
<1>6. \A i \in S : i \in NoTerminadas(0)
  BY <1>2, NoTerminadasAlPrincipio
<1> HIDE DEF S
<1>7. CASE S = {}
  BY <1>2, <1>7, CerrarNada
<1>8. CASE S # {}
  <2>1. CancelarPorIDs(S)
    BY <1>2, <1>3, <1>4, <1>5 DEF CancelarPorIDs
  <2>2. S \in (SUBSET NoTerminadas(0)) \ {{}}
    BY <1>6, <1>8
  <2> QED BY <2>1, <2>2 DEF Next, CambiarJornada
<1> QED BY <1>7, <1>8

\* There are finitely many rows.
LEMMA IdsFinitos == IsFiniteSet(Ids)
<1>1. IsFiniteSet(Grupos) /\ IsFiniteSet(Equipos)
  BY ConcurrentesAssumption
<1> QED BY <1>1, FS_Product DEF Ids

\* A batch of finalizarLoteVencidas commits FinalizarLote, or nothing is left of it.
LEMMA FinalizarEsPaso ==
    ASSUME IInv, NEW t \in Registro, PorConfirmar(t), Comite(t), t.pedido.op = "finalizar"
    PROVE  Next \/ UNCHANGED vars
<1> DEFINE q == t.pedido
           S == PorCerrar(t)
<1>1. q \in Pedidos /\ q.op \in OpsDeCierre
  BY RegistroTipo DEF OpsDeCierre
<1>2. /\ Cerrar(S, EstadoFinal(q))
      /\ \A i \in S : i \in Ids /\ i \in DOMAIN t.vistas /\ Confirmada(i)
  BY <1>1, CierreEsCerrar
<1>3. VistoAlFinalizar(t, grupos) /\ t.reloj \in Relojes /\ DOMAIN t.vistas \subseteq Ids
  BY RegistroTipo DEF PorConfirmar, Visto
<1>4. EstadoFinal(q) = "FINALIZADA"
  BY DEF EstadoFinal
<1>5. Cardinality(S) <= Lote
  <2>1. IsFiniteSet(DOMAIN t.vistas) /\ S \subseteq DOMAIN t.vistas
    BY <1>2, <1>3, IdsFinitos, FS_Subset
  <2>2. /\ Cardinality(S) <= Cardinality(DOMAIN t.vistas)
        /\ Cardinality(S) \in Nat /\ Cardinality(DOMAIN t.vistas) \in Nat
    BY <2>1, FS_Subset, FS_CardinalityType
  <2>3. Cardinality(DOMAIN t.vistas) <= Lote /\ Lote \in Nat
    BY <1>3, ReservasAssumption DEF VistoAlFinalizar
  <2> QED BY <2>2, <2>3
<1>6. ASSUME NEW i \in S PROVE i \in Vencidas(t.reloj) /\ i \in Vencidas(ahora)
  <2>1. i \in Ids /\ Confirmada(i) /\ Vencida(FranjaDe(i), t.reloj)
    BY <1>2, <1>3 DEF VistoAlFinalizar, FranjaDe, FranjaEn
  <2>2. FranjaDe(i) \in Franjas
    BY <2>1, FilaTipo DEF IInv, Confirmada
  <2>3. /\ FranjaDe(i).fin \in Nat /\ t.reloj \in Nat /\ ahora \in Nat /\ t.reloj <= ahora
    BY <1>3, <2>2, DominioAssumption, ReservasAssumption DEF IInv, TypeOK, Relojes
  <2> QED BY <2>1, <2>3 DEF Vencidas, Vencida
<1> HIDE DEF S
<1>7. CASE S = {}
  BY <1>2, <1>7, CerrarNada
<1>8. CASE S # {}
  <2>1. S \in (SUBSET Vencidas(ahora)) \ {{}} /\ S \subseteq Vencidas(t.reloj)
    BY <1>6, <1>8
  <2>2. Cerrar(S, "FINALIZADA")
    BY <1>2, <1>4
  <2>3. FinalizarLote
    BY <1>3, <1>5, <2>1, <2>2 DEF FinalizarLote
  <2> QED BY <2>3 DEF Next
<1> QED BY <1>7, <1>8

\* The inventory cascade commits Sacar: no reservation of the device escaped it.
LEMMA SacarEsPaso ==
    ASSUME IInv, NEW t \in Registro, PorConfirmar(t), Comite(t), t.pedido.op = "sacar"
    PROVE  Next
<1> DEFINE q == t.pedido
           S == {i \in NoTerminadas(t.reloj) : reservas[i].equipo = q.equipo}
<1>1. q \in Pedidos /\ q.op \in OpsDeCierre /\ q.equipo \in Equipos
  BY RegistroTipo, PedidoTipo DEF OpsDeCierre
<1>2. /\ reservas' = ConEstado(reservas, PorCerrar(t), EstadoFinal(q))
      /\ grupos' = Recalculados(grupos, reservas', GruposDe(PorCerrar(t)))
      /\ \A i \in PorCerrar(t) : /\ i \in Ids /\ i \in DOMAIN t.vistas /\ Confirmada(i)
                                 /\ reservas[i] = t.releidas[i]
  BY <1>1, CierreEsCerrar
<1>3. /\ VistoAlSacar(t, reservas, grupos) /\ Tomado(t, reservas, grupos)
      /\ t.fase # "tomando" /\ t.reloj \in Relojes /\ EscritoElEquipo(t, equipos)
  BY DEF PorConfirmar, Visto, Escrito
<1>4. \A i : i \in S <=> /\ i \in Ids /\ ConfirmadaEn(reservas, i)
                         /\ reservas[i].equipo = q.equipo
                         /\ ~YaTermino(FranjaEn(grupos, i), t.reloj)
  BY DEF NoTerminadas, Confirmada, ConfirmadaEn, FranjaDe, FranjaEn
<1> HIDE DEF S
<1>5. PorCerrar(t) = Actuales(t) /\ EstadoFinal(q) = "CANCELADA"
  BY DEF PorCerrar, EstadoFinal
<1>6. Actuales(t) = S
  <2>1. Actuales(t) = {i \in DOMAIN t.vistas : /\ t.releidas[i].estado = "CONFIRMADA"
                                               /\ t.releidas[i].equipo = t.vistas[i].equipo}
    BY DEF Actuales
  <2>2. ASSUME NEW i \in DOMAIN t.vistas PROVE i \in DOMAIN t.releidas /\ reservas[i] = t.releidas[i]
    BY <1>3 DEF Tomado
  <2>3. ASSUME NEW i \in Actuales(t) PROVE i \in S
    <3>1. i \in Ids /\ i \in DOMAIN t.vistas /\ Confirmada(i) /\ reservas[i].equipo = t.vistas[i].equipo
      BY <1>2, <1>5, <2>1
    <3> QED BY <1>3, <1>4, <3>1 DEF VistoAlSacar, ConfirmadaEn, Confirmada
  <2>4. ASSUME NEW i \in S PROVE i \in Actuales(t)
    <3>1. /\ i \in DOMAIN t.vistas /\ ConfirmadaEn(reservas, i)
          /\ reservas[i].equipo = q.equipo
      BY <1>3, <1>4 DEF VistoAlSacar
    <3>2. t.vistas[i].equipo = q.equipo
      BY <1>3, <3>1 DEF VistoAlSacar
    <3> QED BY <2>1, <2>2, <3>1, <3>2 DEF ConfirmadaEn
  <2> QED BY <2>3, <2>4
<1>7. /\ equipos' = [equipos EXCEPT ![q.equipo] = "fuera"]
      /\ equipos[q.equipo] = "fuera" => S # {}
  BY <1>3, <1>6 DEF EscritoElEquipo, Comite
<1>8. SacarDeCirculacion(q.equipo)
  <2>1. /\ reservas' = ConEstado(reservas, {i \in NoTerminadas(t.reloj) : reservas[i].equipo = q.equipo}, "CANCELADA")
        /\ grupos' = Recalculados(grupos, reservas', GruposDe({i \in NoTerminadas(t.reloj) : reservas[i].equipo = q.equipo}))
        /\ equipos[q.equipo] = "fuera" => {i \in NoTerminadas(t.reloj) : reservas[i].equipo = q.equipo} # {}
    BY <1>2, <1>5, <1>6, <1>7 DEF S
  <2>2. ahora' = ahora
    BY DEF Comite
  <2> QED BY <1>3, <1>7, <2>1, <2>2 DEF SacarDeCirculacion
<1> QED BY <1>1, <1>8 DEF Next, Sacar

\* A change of condition commits Condicion.
LEMMA CondicionEsPaso ==
    ASSUME IInv, NEW t \in Registro, PorConfirmar(t), Comite(t), t.pedido.op = "condicion"
    PROVE  Next
<1> DEFINE q == t.pedido
<1>1. q \in Pedidos /\ q.equipo \in Equipos /\ q.nueva \in Condiciones \ {"fuera"}
  BY RegistroTipo, PedidoTipo
<1>2. /\ EscritoNada(t) /\ EscritoElEquipo(t, equipos) /\ equipos[q.equipo] # q.nueva
  BY DEF PorConfirmar, Escrito, Visto, VistoDeCondicion
<1>3. /\ equipos' = [equipos EXCEPT ![q.equipo] = q.nueva] /\ ahora' = ahora
      /\ reservas' = reservas /\ grupos' = grupos
  BY <1>2, NadaConfirmado DEF EscritoElEquipo, EscritoNada, Comite
<1>4. CambiarCondicion(q.equipo, q.nueva)
  BY <1>1, <1>2, <1>3 DEF CambiarCondicion
<1> QED BY <1>1, <1>4 DEF Next, Condicion

\* CambiarEquipoDeReserva commits Cambiar, over the part of the series still to be moved.
LEMMA CambiarEsPaso ==
    ASSUME IInv, NEW t \in Registro, PorConfirmar(t), Comite(t), t.pedido.op = "cambiar"
    PROVE  Next
<1> DEFINE q == t.pedido
           A == Actuales(t)
<1>1. /\ q \in Pedidos /\ q.quien \in Usuarios /\ q.id \in Ids /\ q.nuevo \in Equipos
      /\ q.soloEsta \in BOOLEAN
  BY RegistroTipo, PedidoTipo
<1>2. /\ EscritoCambio(t) /\ EscritoElEquipo(t, equipos) /\ VistoAlCambiar(t, grupos, equipos)
      /\ Tomado(t, reservas, grupos) /\ t.fase # "tomando"
      /\ SinSolapes(Sobre(t.filas, reservas), Sobre(t.altas, grupos))
  BY DEF PorConfirmar, Escrito, Visto
<1>3. /\ grupos' = grupos /\ equipos' = equipos /\ ahora' = ahora
      /\ reservas' = Sobre(t.filas, reservas)
      /\ SinSolapes(Sobre(t.filas, reservas), grupos)
  BY <1>2, NadaConfirmado DEF EscritoElEquipo, EscritoCambio, Comite
<1>4. ASSUME NEW j \in A
      PROVE  /\ j \in Ids /\ Confirmada(j) /\ reservas[j] = t.releidas[j] /\ reservas[j] \in Reserva
             /\ j \in DOMAIN t.vistas /\ reservas[j].equipo = t.vistas[j].equipo
  <2>1. /\ j \in DOMAIN t.vistas /\ t.releidas[j].equipo = t.vistas[j].equipo
        /\ t.releidas[j].estado = "CONFIRMADA"
    BY DEF Actuales
  <2>2. j \in DOMAIN t.releidas
    BY <1>2, <2>1 DEF Tomado
  <2>3. /\ j \in Ids /\ reservas[j] = t.releidas[j] /\ reservas[j] \in Reserva /\ reservas[j] # Nada
    BY <1>2, <2>2, LeidasVigentes
  <2> QED BY <2>1, <2>3 DEF Confirmada
<1>5. /\ q.id \in A /\ DOMAIN t.filas = A
      /\ \A j \in A : t.filas[j] = [t.releidas[j] EXCEPT !.equipo = q.nuevo]
  BY <1>2 DEF EscritoCambio
<1>6. \A j \in A : reservas[j].equipo # q.nuevo
  <2> TAKE j \in A
  <2>1. t.vistas[q.id].equipo # q.nuevo
    BY <1>2 DEF VistoAlCambiar
  <2>2. j # q.id => t.vistas[j].equipo = t.vistas[q.id].equipo
    BY <1>2, <1>4 DEF VistoAlCambiar
  <2> QED BY <1>4, <2>1, <2>2
<1> HIDE DEF A
<1>7. EsTabla(reservas, Ids)
  BY IInvTablas DEF IInv, EsTabla
<1>8. \A i \in Ids : reservas'[i] = IF i \in A THEN [reservas[i] EXCEPT !.equipo = q.nuevo]
                                              ELSE reservas[i]
  <2> TAKE i \in Ids
  <2>1. Sobre(t.filas, reservas)[i] = IF i \in A THEN t.filas[i] ELSE reservas[i]
    BY <1>5, <1>7, SobreEn
  <2>2. i \in A => t.filas[i] = [reservas[i] EXCEPT !.equipo = q.nuevo]
    BY <1>4, <1>5
  <2> HIDE DEF q
  <2> QED BY <1>3, <2>1, <2>2
<1>9. reservas' = ConEquipo(reservas, A, q.nuevo)
  <2>1. EsTabla(Sobre(t.filas, reservas), Ids) /\ EsTabla(ConEquipo(reservas, A, q.nuevo), Ids)
    BY <1>7, SobreEs DEF EsTabla, ConEquipo
  <2>2. \A i \in Ids : Sobre(t.filas, reservas)[i] = ConEquipo(reservas, A, q.nuevo)[i]
    BY <1>3, <1>8 DEF ConEquipo
  <2>3. Sobre(t.filas, reservas) = ConEquipo(reservas, A, q.nuevo)
    BY ONLY <2>1, <2>2, IgualesSiCoinciden
  <2> QED BY <1>3, <2>3
<1>10. /\ Confirmada(q.id) /\ PuedeVer(grupos[q.id[1]].docente, q.quien)
       /\ reservas[q.id].equipo # q.nuevo /\ q.nuevo \in Reservables
  BY <1>2, <1>4, <1>5, <1>6 DEF VistoAlCambiar, EnEspera, Reservables
<1>11. A \in AlcancesDeCambio(q.id, q.soloEsta)
  <2>1. CASE q.soloEsta
    <3>1. A = {q.id}
      BY <1>2, <1>4, <1>5, <2>1 DEF VistoAlCambiar
    <3> QED BY <2>1, <3>1 DEF AlcancesDeCambio
  <2>2. CASE ~q.soloEsta
    <3>1. ASSUME NEW j \in A \ {q.id} PROVE j \in SerieDesde(q.id)
      <4>1. /\ ~Bloque(grupos, q.id) /\ ~Bloque(grupos, j)
            /\ t.vistas[j].equipo = t.vistas[q.id].equipo
            /\ grupos[q.id[1]].regla # Nada
            /\ grupos[j[1]].regla = grupos[q.id[1]].regla
            /\ FranjaEn(grupos, j).dia >= FranjaEn(grupos, q.id).dia
        BY <1>2, <1>4 DEF VistoAlCambiar
      <4>2. j \in Ids /\ Confirmada(j) /\ reservas[j].equipo = reservas[q.id].equipo
        BY <1>4, <1>5, <4>1
      <4> QED BY <4>1, <4>2 DEF SerieDesde, EsBloqueo, Bloque, FranjaDe, FranjaEn
    <3>2. A = (A \ {q.id}) \cup {q.id} /\ A \ {q.id} \in SUBSET SerieDesde(q.id)
      BY <1>5, <3>1
    <3> QED BY <2>2, <3>2 DEF AlcancesDeCambio
  <2> QED BY <2>1, <2>2
<1>12. Solapamientos({q.nuevo}, {FranjaDe(j) : j \in A}) = {}
  <2> SUFFICES ASSUME NEW i \in Solapamientos({q.nuevo}, {FranjaDe(j) : j \in A}) PROVE FALSE
    OBVIOUS
  <2>1. PICK j \in A : Solapan(FranjaDe(i), FranjaDe(j))
    BY DEF Solapamientos
  <2>2. i \in Ids /\ Confirmada(i) /\ reservas[i].equipo = q.nuevo
    BY DEF Solapamientos
  <2>3. i \notin A /\ i # j
    BY <1>6, <2>2
  <2>4. /\ reservas'[i] = reservas[i]
        /\ reservas'[j] = [reservas[j] EXCEPT !.equipo = q.nuevo] /\ reservas[j] \in Reserva
        /\ j \in Ids /\ reservas[j].estado = "CONFIRMADA"
    BY <1>4, <1>8, <2>2, <2>3 DEF Confirmada
  <2>5. reservas'[j].equipo = q.nuevo /\ reservas'[j].estado = "CONFIRMADA" /\ reservas'[j] # Nada
    <3>1. [reservas[j] EXCEPT !.equipo = q.nuevo] \in Reserva
      BY <1>1, <2>4 DEF Reserva
    <3>2. reservas'[j].equipo = q.nuevo /\ reservas'[j].estado = "CONFIRMADA"
      BY <2>4 DEF Reserva
    <3> QED BY <2>4, <3>1, <3>2, ReservasAssumption
  <2>6. SinSolapes(reservas', grupos)
    BY <1>3
  <2>7. ~Solapan(grupos[i[1]].franja, grupos[j[1]].franja)
    BY <2>2, <2>3, <2>4, <2>5, <2>6 DEF SinSolapes, Confirmada
  <2> QED BY <2>1, <2>7 DEF FranjaDe
<1>13. CambiarEquipo(q.quien, q.id, q.nuevo, q.soloEsta)
  BY <1>3, <1>9, <1>10, <1>11, <1>12 DEF CambiarEquipo
<1> QED BY <1>1, <1>13 DEF Next, Cambiar

\* The committed tables.
LEMMA TablasDeIInv ==
    ASSUME IInv
    PROVE  /\ TablasOK(reservas, grupos, equipos)
           /\ EsTabla(reservas, Ids) /\ EsTabla(grupos, Grupos) /\ EsTabla(equipos, Equipos)
BY IInvTablas DEF IInv, TablasOK, Refs, Referencias, EsTabla

\* The rows that a creation or a block commits.
LEMMA FilasDeInsercion ==
    ASSUME IInv, NEW t, NEW G, EscritaLaInsercion(t, grupos, G), NEW rs0,
           \A i \in Ids : i \notin Insertadas(t, G) => Sobre(t.filas, reservas)[i] = rs0[i]
    PROVE  Sobre(t.filas, reservas) = ConFilas(rs0, G, t.pedido.E)
<1> DEFINE rs == Sobre(t.filas, reservas)
           cs == ConFilas(rs0, G, t.pedido.E)
<1>1. EsTabla(reservas, Ids)
  BY TablasDeIInv
<1>2. EsTabla(rs, Ids) /\ EsTabla(cs, Ids)
  BY <1>1, SobreEs DEF ConFilas, EsTabla
<1>3. ASSUME NEW i \in Ids PROVE rs[i] = cs[i]
  <2>1. CASE i \in Insertadas(t, G)
    <3>1. i \in DOMAIN t.filas /\ t.filas[i] = [estado |-> "CONFIRMADA", equipo |-> i[2]]
      BY <2>1 DEF EscritaLaInsercion
    <3>2. rs[i] = t.filas[i]
      BY <1>1, <3>1, SobreEn
    <3>3. cs[i] = [estado |-> "CONFIRMADA", equipo |-> i[2]]
      BY <2>1 DEF Insertadas, ConFilas
    <3> HIDE DEF rs, cs
    <3> QED BY <3>1, <3>2, <3>3
  <2>2. CASE i \notin Insertadas(t, G)
    <3>1. cs[i] = rs0[i]
      BY <2>2 DEF Insertadas, ConFilas
    <3>2. rs[i] = rs0[i]
      BY <2>2
    <3> HIDE DEF rs, cs
    <3> QED BY <3>1, <3>2
  <2> QED BY <2>1, <2>2
<1> HIDE DEF rs, cs
<1>4. rs = cs
  BY ONLY <1>2, <1>3, IgualesSiCoinciden
<1> QED BY <1>4 DEF rs, cs

\* And the groups.
LEMMA GruposDeInsercion ==
    ASSUME IInv, NEW t, NEW G, EscritaLaInsercion(t, grupos, G), EscritoElGrupo(t, reservas, grupos),
           NEW gs0, NEW rs0, \A g \in G : gs0[g] = t.altas[g], \A g \in G : g \notin GruposCerrados(t),
           \A h \in Grupos \ G : gs0[h] = grupos[h],
           \A i \in Ids : i[1] \notin G => Sobre(t.filas, reservas)[i] = rs0[i]
    PROVE  Sobre(t.altas, grupos) = Recalculados(gs0, rs0, GruposCerrados(t))
<1> DEFINE D == GruposCerrados(t)
           rs == Sobre(t.filas, reservas)
<1>1. /\ EsTabla(grupos, Grupos) /\ G \subseteq Grupos /\ G \subseteq DOMAIN t.altas
      /\ \A g \in DOMAIN t.altas : grupos[g] = Nada <=> g \in G
  BY TablasDeIInv DEF EscritaLaInsercion
<1>2. EsTabla(Sobre(t.altas, grupos), Grupos) /\ EsTabla(Recalculados(gs0, rs0, D), Grupos)
  BY <1>1, SobreEs DEF EsTabla, Recalculados
<1> HIDE DEF D, rs
<1>3. ASSUME NEW g \in Grupos PROVE Sobre(t.altas, grupos)[g] = Recalculados(gs0, rs0, D)[g]
  <2>1. CASE g \in G
    <3>1. Sobre(t.altas, grupos)[g] = gs0[g]
      BY <1>1, <2>1, SobreEn
    <3>2. g \notin D
      BY <2>1 DEF D
    <3>3. Recalculados(gs0, rs0, D)[g] = gs0[g]
      BY <3>2 DEF Recalculados
    <3> QED BY <3>1, <3>3
  <2>2. CASE g \notin G /\ grupos[g] = Nada
    <3>1. g \notin DOMAIN t.altas /\ gs0[g] = Nada
      BY <1>1, <2>2
    <3>2. Sobre(t.altas, grupos)[g] = Nada
      BY <1>1, <2>2, <3>1, SobreEn
    <3>3. Recalculados(gs0, rs0, D)[g] = Nada
      BY <3>1 DEF Recalculados
    <3> QED BY <3>2, <3>3
  <2>3. CASE g \notin G /\ grupos[g] # Nada
    <3>1. Sobre(t.altas, grupos)[g] = Recalculados(grupos, rs, D)[g]
      BY <2>3 DEF EscritoElGrupo, rs, D
    <3>2. Recalculados(gs0, rs0, D)[g] = Recalculados(grupos, rs0, D)[g]
      <4>1. gs0[g] = grupos[g]
        BY <2>3
      <4> QED BY <4>1, RecalculadosLocal
    <3>3. EstadosDelGrupo(rs, g) = EstadosDelGrupo(rs0, g)
      <4>1. \A e \in Equipos : rs[<<g, e>>] = rs0[<<g, e>>]
        BY <2>3 DEF Ids, rs
      <4> QED BY <4>1, EstadosLocal
    <3>4. Recalculados(grupos, rs, D)[g] = Recalculados(grupos, rs0, D)[g]
      BY <3>3 DEF Recalculados
    <3> QED BY <3>1, <3>2, <3>4
  <2> QED BY <2>1, <2>2, <2>3
<1>4. Sobre(t.altas, grupos) = Recalculados(gs0, rs0, D)
  BY ONLY <1>2, <1>3, IgualesSiCoinciden
<1> QED BY <1>4 DEF D

\* A reservation that the commit leaves in force is not in the way of what it creates.
LEMMA LoNuevoNoSolapa ==
    ASSUME IInv, NEW t \in Registro, PorConfirmar(t), NEW G, EscritaLaInsercion(t, grupos, G),
           t.pedido.E \subseteq Equipos, NEW g \in G,
           NEW i \in Ids, Confirmada(i), i \notin DOMAIN t.filas, reservas[i].equipo \in t.pedido.E
    PROVE  ~Solapan(FranjaDe(i), t.altas[g].franja)
<1> DEFINE j == <<g, reservas[i].equipo>>
           rs == Sobre(t.filas, reservas)
           gs == Sobre(t.altas, grupos)
<1>1. /\ G \subseteq Grupos /\ G \subseteq DOMAIN t.altas
      /\ \A h \in DOMAIN t.altas : grupos[h] = Nada <=> h \in G
      /\ \A k \in Insertadas(t, G) :
            k \in DOMAIN t.filas /\ t.filas[k] = [estado |-> "CONFIRMADA", equipo |-> k[2]]
  BY DEF EscritaLaInsercion
<1>2. /\ \A k \in Ids : IF k \in DOMAIN t.filas THEN rs[k] = t.filas[k] /\ rs[k] # Nada
                                                ELSE rs[k] = reservas[k]
      /\ \A h \in Grupos : IF h \in DOMAIN t.altas
                           THEN gs[h] = t.altas[h] /\ (grupos[h] # Nada => MismaClase(grupos[h], gs[h]))
                           ELSE gs[h] = grupos[h]
  <2>1. TablasOK(reservas, grupos, equipos) /\ EscritoBajoLlave(t, reservas, grupos)
    BY TablasDeIInv DEF PorConfirmar, Escrito
  <2> QED BY <2>1, ComiteEscribe
<1>3. grupos[i[1]] # Nada /\ i[1] \in Grupos
  BY DEF IInv, Referencias, Confirmada, Ids
<1>4. j \in Ids /\ j[1] = g /\ j[2] = reservas[i].equipo
  BY <1>1 DEF Ids
<1>5. j \in Insertadas(t, G)
  BY <1>4 DEF Insertadas
<1>6. i # j
  BY <1>1, <1>3, <1>4
<1> HIDE DEF j, rs, gs
<1>7. rs[j] = [estado |-> "CONFIRMADA", equipo |-> j[2]] /\ rs[j] # Nada
  BY <1>1, <1>2, <1>4, <1>5
<1>8. rs[j].estado = "CONFIRMADA" /\ rs[j].equipo = reservas[i].equipo
  BY <1>4, <1>7
<1>9. rs[i] = reservas[i] /\ rs[i] # Nada /\ rs[i].estado = "CONFIRMADA"
  BY <1>2 DEF Confirmada
<1>10. gs[i[1]].franja = FranjaDe(i)
  BY <1>2, <1>3 DEF MismaClase, FranjaDe
<1>11. gs[g].franja = t.altas[g].franja
  BY <1>1, <1>2
<1>12. SinSolapes(rs, gs)
  BY DEF PorConfirmar, rs, gs
<1>13. ~Solapan(gs[i[1]].franja, gs[j[1]].franja)
  BY <1>4, <1>6, <1>7, <1>8, <1>9, <1>12 DEF SinSolapes
<1> QED BY <1>4, <1>10, <1>11, <1>13

\* BloquearEquipos commits Bloquear: what it cancelled is still all there is in the way.
LEMMA BloquearEsPaso ==
    ASSUME IInv, NEW t \in Registro, PorConfirmar(t), Comite(t), t.pedido.op = "bloquear"
    PROVE  Next
<1> DEFINE q == t.pedido
           M == EnMedio(t, grupos)
           rs0 == ConEstado(reservas, M, "CANCELADA")
           op == [tipo |-> "BLOQUEO", franja |-> q.franja, docente |-> q.quien]
<1>1. /\ q \in Pedidos /\ q.quien \in Usuarios /\ q.franja \in Franjas
      /\ q.E \in (SUBSET Equipos) \ {{}}
  BY RegistroTipo, PedidoTipo
<1>2. /\ EscritoBloqueo(t, grupos) /\ EscritoElEquipo(t, equipos) /\ VistoAlBloquear(t, equipos)
      /\ EscritoElGrupo(t, reservas, grupos)
      /\ Tomado(t, reservas, grupos) /\ t.fase # "tomando" /\ t.reloj \in Relojes
  BY DEF PorConfirmar, Escrito, Visto
<1>3. PICK g \in Grupos :
         /\ EscritaLaInsercion(t, grupos, {g})
         /\ t.altas[g] = op
         /\ DOMAIN t.filas = M \cup Insertadas(t, {g})
         /\ \A i \in M : t.filas[i] = [t.releidas[i] EXCEPT !.estado = "CANCELADA"]
  BY <1>2 DEF EscritoBloqueo
<1> HIDE DEF op
<1>4. g \in Libres
  BY <1>3 DEF EscritaLaInsercion, Libres
<1>5. ASSUME NEW i \in M
      PROVE  /\ i \in Ids /\ Confirmada(i) /\ reservas[i] = t.releidas[i] /\ reservas[i] \in Reserva
             /\ ~EsBloqueo(i) /\ Solapan(FranjaDe(i), q.franja) /\ reservas[i].equipo \in q.E
             /\ i[1] # g
  <2>1. /\ i \in DOMAIN t.vistas /\ t.releidas[i].equipo = t.vistas[i].equipo
        /\ t.releidas[i].estado = "CONFIRMADA"
        /\ ~Bloque(grupos, i) /\ Solapan(FranjaEn(grupos, i), q.franja)
    BY DEF EnMedio, Actuales
  <2>2. i \in DOMAIN t.releidas
    BY <1>2, <2>1 DEF Tomado
  <2>3. /\ i \in Ids /\ reservas[i] = t.releidas[i] /\ reservas[i] \in Reserva /\ reservas[i] # Nada
        /\ grupos[i[1]] # Nada
    BY <1>2, <2>2, LeidasVigentes
  <2>4. t.vistas[i].equipo \in q.E
    BY <1>2, <2>1 DEF VistoAlBloquear
  <2> QED BY <1>4, <2>1, <2>3, <2>4 DEF Confirmada, EsBloqueo, Bloque, FranjaDe, FranjaEn, Libres
<1> HIDE DEF M
<1>6. Solapamientos(q.E, {q.franja}) = M
  <2>1. ASSUME NEW i \in M PROVE i \in Solapamientos(q.E, {q.franja})
    BY <1>5 DEF Solapamientos
  <2>2. ASSUME NEW i \in Solapamientos(q.E, {q.franja}), i \notin M PROVE FALSE
    <3>1. i \in Ids /\ Confirmada(i) /\ reservas[i].equipo \in q.E /\ Solapan(FranjaDe(i), q.franja)
      BY DEF Solapamientos
    <3>2. i \notin Insertadas(t, {g})
      <4>1. grupos[i[1]] # Nada
        BY <3>1 DEF IInv, Referencias, Confirmada
      <4> QED BY <1>4, <4>1 DEF Insertadas, Libres
    <3>3. ~Solapan(FranjaDe(i), t.altas[g].franja)
      BY <1>1, <1>3, <2>2, <3>1, <3>2, LoNuevoNoSolapa
    <3>4. t.altas[g].franja = q.franja
      BY <1>3 DEF op
    <3> QED BY <3>1, <3>3, <3>4
  <2>3. \A i : i \in M <=> i \in Solapamientos(q.E, {q.franja})
    BY <2>1, <2>2
  <2> HIDE DEF q
  <2> QED BY <2>3
<1>7. EsTabla(reservas, Ids)
  BY TablasDeIInv
<1>8. \A i \in Ids : i \notin Insertadas(t, {g}) => Sobre(t.filas, reservas)[i] = rs0[i]
  <2> TAKE i \in Ids
  <2> HAVE i \notin Insertadas(t, {g})
  <2>1. Sobre(t.filas, reservas)[i] = IF i \in DOMAIN t.filas THEN t.filas[i] ELSE reservas[i]
    BY <1>7, SobreEn
  <2>2. i \in DOMAIN t.filas <=> i \in M
    BY <1>3
  <2>3. i \in M => t.filas[i] = [reservas[i] EXCEPT !.estado = "CANCELADA"]
    BY <1>3, <1>5
  <2>4. rs0[i] = IF i \in M THEN [reservas[i] EXCEPT !.estado = "CANCELADA"] ELSE reservas[i]
    BY DEF ConEstado
  <2> HIDE DEF rs0
  <2> QED BY <2>1, <2>2, <2>3, <2>4
<1>9. reservas' = ConFilas(rs0, {g}, q.E)
  <2>1. Sobre(t.filas, reservas) = ConFilas(rs0, {g}, t.pedido.E)
    <3> HIDE DEF rs0, q
    <3> QED BY <1>3, <1>8, FilasDeInsercion
  <2> QED BY <2>1 DEF Comite
<1>10. GruposCerrados(t) = GruposDe(M)
  <2>1. \A i \in Insertadas(t, {g}) : t.filas[i].estado = "CONFIRMADA"
    <3> TAKE i \in Insertadas(t, {g})
    <3>1. t.filas[i] = [estado |-> "CONFIRMADA", equipo |-> i[2]]
      BY <1>3 DEF EscritaLaInsercion
    <3> HIDE DEF q, rs0
    <3> QED BY ONLY <3>1
  <2>2. \A i \in M : t.filas[i].estado # "CONFIRMADA" /\ i \notin Insertadas(t, {g})
    <3> TAKE i \in M
    <3>1. t.filas[i] = [reservas[i] EXCEPT !.estado = "CANCELADA"] /\ reservas[i] \in Reserva
      BY <1>3, <1>5
    <3>2. t.filas[i].estado = "CANCELADA"
      BY <3>1 DEF Reserva
    <3> QED BY <2>1, <3>2
  <2>3. \A i : (i \in DOMAIN t.filas /\ t.filas[i].estado # "CONFIRMADA") <=> i \in M
    BY <1>3, <2>1, <2>2
  <2> QED BY <2>3 DEF GruposCerrados, GruposDe
<1>11. grupos' = Recalculados([grupos EXCEPT ![g] = op], rs0, GruposDe(M))
  <2> DEFINE gs0 == [grupos EXCEPT ![g] = op]
  <2>1. /\ \A h \in {g} : gs0[h] = t.altas[h]
        /\ \A h \in Grupos \ {g} : gs0[h] = grupos[h]
    BY <1>3, IInvTablas DEF IInv
  <2>2. \A h \in {g} : h \notin GruposCerrados(t)
    BY <1>5, <1>10 DEF GruposDe
  <2>3. \A i \in Ids : i[1] \notin {g} => Sobre(t.filas, reservas)[i] = rs0[i]
    BY <1>8 DEF Insertadas
  <2> HIDE DEF gs0, rs0, q
  <2>4. Sobre(t.altas, grupos) = Recalculados(gs0, rs0, GruposCerrados(t))
    BY <1>2, <1>3, <2>1, <2>2, <2>3, GruposDeInsercion
  <2> QED BY <1>10, <2>4 DEF Comite, gs0
<1>12. equipos' = equipos /\ ahora' = ahora
  BY <1>2, NadaConfirmado DEF EscritoElEquipo, Comite
<1>13. /\ q.quien \in Admins /\ q.E \subseteq Reservables /\ ~YaTermino(q.franja, t.reloj)
  BY <1>2 DEF VistoAlBloquear, EnEspera, Reservables
<1>14. BloquearEquipos(q.quien, q.franja, q.E)
  <2>1. \A i \in M : ~EsBloqueo(i)
    BY <1>5
  <2> QED BY <1>2, <1>4, <1>6, <1>9, <1>11, <1>12, <1>13, <2>1 DEF BloquearEquipos, op
<1> QED BY <1>1, <1>14 DEF Next, Bloquear

-----------------------------------------------------------------------------
(* The commit of a creation                                                  *)

\* What EscritaLaClase says, with its witnesses.
LaClase(t, plan, G, nuevos, regla) ==
    LET q == t.pedido IN
    /\ plan \in Parcial(Ids, Equipos \cup {Nada}) /\ G \in SUBSET Grupos
    /\ nuevos \in Bijection(G, q.F) /\ regla \in ReglaDe(G)
    /\ PlanVigente(t, plan, reservas, grupos, equipos)
    /\ EscritaLaInsercion(t, grupos, G)
    /\ \A g \in G : t.altas[g] =
          [tipo |-> "NORMAL", estado |-> "CONFIRMADA", franja |-> nuevos[g],
           materia |-> q.materia, docente |-> q.quien, regla |-> regla]
    /\ DOMAIN t.filas \subseteq DOMAIN plan \cup Insertadas(t, G)
    /\ \A i \in DOMAIN plan : Sobre(t.filas, reservas)[i] = AplicarPlan(reservas, plan)[i]

\* What the plan displaces is in force and belongs to somebody else.
LEMMA LoDesplazado ==
    ASSUME IInv, NEW t \in Registro, PorConfirmar(t),
           NEW plan, NEW G, NEW nuevos, NEW regla, LaClase(t, plan, G, nuevos, regla),
           NEW i \in DOMAIN plan
    PROVE  /\ i \in NoEmpezadas(t.reloj) /\ i \in Ids /\ Confirmada(i) /\ reservas[i] \in Reserva
           /\ i[1] \notin G /\ ~EsBloqueo(i)
<1>1. PlanVigente(t, plan, reservas, grupos, equipos) /\ EscritaLaInsercion(t, grupos, G)
  BY DEF LaClase
<1>2. /\ i \in DOMAIN t.releidas /\ ConfirmadaEn(reservas, i)
      /\ ~Bloque(grupos, i) /\ ~YaEmpezo(FranjaEn(grupos, i), t.reloj)
  BY <1>1 DEF PlanVigente
<1>3. Tomado(t, reservas, grupos) /\ t.fase # "tomando"
  BY DEF PorConfirmar
<1>4. i \in Ids /\ reservas[i] \in Reserva /\ i[1] \in Grupos /\ grupos[i[1]] # Nada
  BY <1>2, <1>3, LeidasVigentes
<1>5. i[1] \notin G
  BY <1>1, <1>4 DEF EscritaLaInsercion
<1> QED BY <1>2, <1>4, <1>5
        DEF NoEmpezadas, Confirmada, ConfirmadaEn, EsBloqueo, Bloque, FranjaDe, FranjaEn

\* What was in the way of the class when it commits is what the plan displaced first.
LEMMA LosPrimeros ==
    ASSUME IInv, NEW t \in Registro, PorConfirmar(t), t.pedido.op = "crear",
           NEW plan, NEW G, NEW nuevos, NEW regla, LaClase(t, plan, G, nuevos, regla)
    PROVE  Solapamientos(t.pedido.E, t.pedido.F) = PrimerosDe(t, plan, reservas, grupos)
<1> DEFINE q == t.pedido
<1>1. q.E \subseteq Equipos
  BY RegistroTipo, PedidoTipo
<1>2. ASSUME NEW i \in PrimerosDe(t, plan, reservas, grupos) PROVE i \in Solapamientos(q.E, q.F)
  <2>1. i \in DOMAIN plan /\ reservas[i].equipo \in q.E /\ \E f \in q.F : Solapan(FranjaEn(grupos, i), f)
    BY DEF PrimerosDe
  <2>2. i \in Ids /\ Confirmada(i)
    BY <2>1, LoDesplazado
  <2> QED BY <2>1, <2>2 DEF Solapamientos, FranjaDe, FranjaEn
<1>3. ASSUME NEW i \in Solapamientos(q.E, q.F) PROVE i \in PrimerosDe(t, plan, reservas, grupos)
  <2>1. PICK f \in q.F : Solapan(FranjaDe(i), f)
    BY DEF Solapamientos
  <2>2. i \in Ids /\ Confirmada(i) /\ reservas[i].equipo \in q.E
    BY DEF Solapamientos
  <2>3. PICK g \in G : nuevos[g] = f
    BY DEF LaClase, Bijection, Surjection
  <2>4. t.altas[g].franja = f
    <3>1. t.altas[g] = [tipo |-> "NORMAL", estado |-> "CONFIRMADA", franja |-> nuevos[g],
                        materia |-> q.materia, docente |-> q.quien, regla |-> regla]
      BY DEF LaClase
    <3>2. t.altas[g].franja = nuevos[g]
      BY ONLY <3>1
    <3> QED BY ONLY <2>3, <3>2
  <2>5. EscritaLaInsercion(t, grupos, G)
    BY DEF LaClase
  <2>6. i \in DOMAIN t.filas
    <3> SUFFICES ASSUME i \notin DOMAIN t.filas PROVE FALSE
      OBVIOUS
    <3>1. ~Solapan(FranjaDe(i), t.altas[g].franja)
      BY <1>1, <2>2, <2>5, LoNuevoNoSolapa
    <3> QED BY <2>1, <2>4, <3>1
  <2>7. i \notin Insertadas(t, G)
    <3>1. grupos[i[1]] # Nada
      BY <2>2 DEF IInv, Referencias, Confirmada
    <3>2. i[1] \in G => grupos[i[1]] = Nada
      BY <2>5 DEF EscritaLaInsercion
    <3> QED BY <3>1, <3>2 DEF Insertadas
  <2>8. i \in DOMAIN plan
    BY <2>6, <2>7 DEF LaClase
  <2> QED BY <2>1, <2>2, <2>8 DEF PrimerosDe, FranjaDe, FranjaEn
<1>4. \A i : i \in Solapamientos(q.E, q.F) <=> i \in PrimerosDe(t, plan, reservas, grupos)
  BY <1>2, <1>3
<1> HIDE DEF q
<1> QED BY <1>4 DEF q

\* The plan is still one that reponerEnCascada may write.
LEMMA ElPlan ==
    ASSUME IInv, NEW t \in Registro, PorConfirmar(t), t.pedido.op = "crear",
           NEW plan, NEW G, NEW nuevos, NEW regla, LaClase(t, plan, G, nuevos, regla),
           NEW iniciales, iniciales = PrimerosDe(t, plan, reservas, grupos)
    PROVE  /\ plan \in PlanesDeReposicion(t.pedido.materia, iniciales, t.reloj)
           /\ \A i \in iniciales : reservas[i].equipo \in t.pedido.T
<1>1. PlanVigente(t, plan, reservas, grupos, equipos)
  BY DEF LaClase
<1>2. \A i \in iniciales : reservas[i].equipo \in t.pedido.T
  BY <1>1 DEF PlanVigente
<1>3. ASSUME NEW m, NEW i
      PROVE  RobableEn(m, i, reservas, grupos, t.reloj) <=> SePuedeRobar(m, i, t.reloj)
  BY DEF RobableEn, SePuedeRobar, Bloque, EsBloqueo, FranjaEn, FranjaDe
<1>4. CASE iniciales = {}
  <2>1. plan = << >>
    BY <1>1, <1>4 DEF PlanVigente
  <2> QED BY <1>2, <1>4, <2>1 DEF PlanesDeReposicion
<1>5. CASE iniciales # {}
  <2>1. DOMAIN plan \in SUBSET NoEmpezadas(t.reloj)
    BY LoDesplazado
  <2>2. plan \in [DOMAIN plan -> Reservables \cup {Nada}]
    <3>1. plan = [i \in DOMAIN plan |-> plan[i]]
      <4>1. PICK S \in SUBSET Ids : plan \in [S -> Equipos \cup {Nada}]
        BY DEF LaClase, Parcial
      <4> QED BY <4>1
    <3>2. \A i \in DOMAIN plan : plan[i] \in Reservables \cup {Nada}
      BY <1>1 DEF PlanVigente, EnEspera, Reservables
    <3> QED BY <3>1, <3>2
  <2>3. PlanJustificado(t.pedido.materia, iniciales, plan, t.reloj)
    <3>1. iniciales \subseteq DOMAIN plan
      BY DEF PrimerosDe
    <3>2. \A i \in iniciales : SePuedeRobar(t.pedido.materia, i, t.reloj)
      BY <1>1, <1>3 DEF PlanVigente
    <3>3. \A i \in DOMAIN plan \ iniciales :
             \E j \in DOMAIN plan \ {i} : SePuedeRobar(grupos[j[1]].materia, i, t.reloj)
      BY <1>1, <1>3 DEF PlanVigente
    <3> QED BY <3>1, <3>2, <3>3 DEF PlanJustificado
  <2> QED BY <1>2, <1>5, <2>1, <2>2, <2>3 DEF PlanesDeReposicion
<1> QED BY <1>4, <1>5

\* Outside the rows it inserts, a creation applies its plan.
LEMMA FilasDeLaClase ==
    ASSUME IInv, NEW t \in Registro, PorConfirmar(t),
           NEW plan, NEW G, NEW nuevos, NEW regla, LaClase(t, plan, G, nuevos, regla),
           NEW i \in Ids, i \notin Insertadas(t, G)
    PROVE  Sobre(t.filas, reservas)[i] = AplicarPlan(reservas, plan)[i]
<1>1. CASE i \in DOMAIN plan
  BY <1>1 DEF LaClase
<1>2. CASE i \notin DOMAIN plan
  <2>1. i \notin DOMAIN t.filas
    BY <1>2 DEF LaClase
  <2>2. EsTabla(reservas, Ids)
    BY TablasDeIInv
  <2>3. Sobre(t.filas, reservas)[i] = reservas[i]
    BY <2>1, <2>2, SobreEn
  <2>4. AplicarPlan(reservas, plan)[i] = reservas[i]
    BY <1>2 DEF AplicarPlan
  <2> QED BY <2>3, <2>4
<1> QED BY <1>1, <1>2

\* The groups it closes rows of are those its plan cancels in.
LEMMA CerradosPorLaClase ==
    ASSUME IInv, NEW t \in Registro, PorConfirmar(t),
           NEW plan, NEW G, NEW nuevos, NEW regla, LaClase(t, plan, G, nuevos, regla)
    PROVE  GruposCerrados(t) = GruposDe(Canceladas(plan))
<1>1. EsTabla(reservas, Ids)
  BY TablasDeIInv
<1>2. ASSUME NEW i \in Canceladas(plan)
      PROVE  i \in DOMAIN t.filas /\ t.filas[i].estado # "CONFIRMADA"
  <2>1. i \in DOMAIN plan /\ plan[i] = Nada
    BY DEF Canceladas
  <2>2. i \in Ids /\ reservas[i] \in Reserva /\ reservas[i].estado = "CONFIRMADA"
    BY <2>1, LoDesplazado DEF Confirmada
  <2>3. AplicarPlan(reservas, plan)[i] = [reservas[i] EXCEPT !.estado = "CANCELADA"]
    BY <2>1, <2>2 DEF AplicarPlan
  <2>4. Sobre(t.filas, reservas)[i] = [reservas[i] EXCEPT !.estado = "CANCELADA"]
    BY <2>1, <2>3 DEF LaClase
  <2>5. Sobre(t.filas, reservas)[i].estado = "CANCELADA"
    BY <2>2, <2>4 DEF Reserva
  <2>6. Sobre(t.filas, reservas)[i] = IF i \in DOMAIN t.filas THEN t.filas[i] ELSE reservas[i]
    BY <1>1, <2>2, SobreEn
  <2> QED BY ONLY <2>2, <2>5, <2>6
<1>3. ASSUME NEW i \in DOMAIN t.filas, t.filas[i].estado # "CONFIRMADA" PROVE i \in Canceladas(plan)
  <2>1. i \notin Insertadas(t, G)
    <3> SUFFICES ASSUME i \in Insertadas(t, G) PROVE FALSE
      OBVIOUS
    <3>1. t.filas[i] = [estado |-> "CONFIRMADA", equipo |-> i[2]]
      BY DEF LaClase, EscritaLaInsercion
    <3> QED BY ONLY <1>3, <3>1
  <2>2. i \in DOMAIN plan
    BY <2>1 DEF LaClase
  <2>3. i \in Ids /\ reservas[i] \in Reserva /\ reservas[i].estado = "CONFIRMADA"
    BY <2>2, LoDesplazado DEF Confirmada
  <2>4. t.filas[i] = AplicarPlan(reservas, plan)[i]
    <3>1. Sobre(t.filas, reservas)[i] = t.filas[i]
      BY <1>1, <2>3, SobreEn
    <3> QED BY <2>2, <3>1 DEF LaClase
  <2>5. ASSUME plan[i] # Nada PROVE FALSE
    <3>1. t.filas[i] = [reservas[i] EXCEPT !.equipo = plan[i]]
      BY <2>2, <2>3, <2>4, <2>5 DEF AplicarPlan
    <3>2. t.filas[i].estado = "CONFIRMADA"
      BY <2>3, <3>1 DEF Reserva
    <3> QED BY <1>3, <3>2
  <2> QED BY <2>2, <2>5 DEF Canceladas
<1>4. \A i : (i \in DOMAIN t.filas /\ t.filas[i].estado # "CONFIRMADA") <=> i \in Canceladas(plan)
  <2>1. \A i \in Canceladas(plan) : i \in DOMAIN t.filas /\ t.filas[i].estado # "CONFIRMADA"
    BY <1>2
  <2>2. \A i \in DOMAIN t.filas : t.filas[i].estado # "CONFIRMADA" => i \in Canceladas(plan)
    BY <1>3
  <2> QED BY ONLY <2>1, <2>2
<1> QED BY <1>4 DEF GruposCerrados, GruposDe

\* CrearReserva commits Crear: what it displaced is still all there is in the way.
LEMMA CrearEsPaso ==
    ASSUME IInv, NEW t \in Registro, PorConfirmar(t), Comite(t), t.pedido.op = "crear"
    PROVE  Next
<1> DEFINE q == t.pedido
           iniciales == Solapamientos(q.E, q.F)
           T == q.T \cap q.E
<1>1. /\ q \in Pedidos /\ q.quien \in Usuarios /\ q.materia \in Materias /\ q.F \in Series
      /\ q.E \in (SUBSET Equipos) \ {{}} /\ q.E \subseteq Equipos /\ q.F \subseteq Franjas
      /\ T \in SUBSET q.E
  BY RegistroTipo, PedidoTipo, ReservasAssumption
<1>2. /\ EscritaLaClase(t, reservas, grupos, equipos) /\ EscritoElEquipo(t, equipos)
      /\ VistoAlCrear(t, equipos) /\ EscritoElGrupo(t, reservas, grupos)
      /\ t.reloj \in Relojes /\ SinSolapes(Sobre(t.filas, reservas), Sobre(t.altas, grupos))
  BY DEF PorConfirmar, Escrito, Visto
<1>3. PICK plan, G, nuevos, regla : LaClase(t, plan, G, nuevos, regla)
  BY <1>2 DEF EscritaLaClase, LaClase
<1> DEFINE rs0 == AplicarPlan(reservas, plan)
           gs0 == ConClases(grupos, nuevos, q.materia, q.quien, regla)
<1>4. /\ EscritaLaInsercion(t, grupos, G) /\ G \in SUBSET Grupos /\ G \in SUBSET Libres
      /\ nuevos \in Bijection(G, q.F) /\ regla \in ReglaDe(G)
      /\ nuevos \in [G -> Franjas] /\ DOMAIN nuevos = G /\ regla \in Grupos \cup {Nada}
  <2>1. /\ EscritaLaInsercion(t, grupos, G) /\ G \in SUBSET Grupos
        /\ nuevos \in Bijection(G, q.F) /\ regla \in ReglaDe(G)
    BY <1>3 DEF LaClase
  <2>2. G \in SUBSET Libres
    BY <2>1 DEF EscritaLaInsercion, Libres
  <2>3. nuevos \in [G -> Franjas] /\ DOMAIN nuevos = G
    BY <1>1, <2>1 DEF Bijection, Injection
  <2>4. regla \in Grupos \cup {Nada}
    BY <2>1 DEF ReglaDe
  <2> QED BY <2>1, <2>2, <2>3, <2>4
<1>5. iniciales = PrimerosDe(t, plan, reservas, grupos)
  BY <1>3, LosPrimeros
<1> HIDE DEF iniciales
<1>6. plan \in PlanesDeReposicion(q.materia, iniciales, t.reloj)
  BY <1>3, <1>5, ElPlan
<1>7. \A i \in iniciales : reservas[i].equipo \in T
  <2>1. \A i \in iniciales : reservas[i].equipo \in q.T
    BY <1>3, <1>5, ElPlan
  <2>2. \A i \in iniciales : reservas[i].equipo \in q.E
    BY DEF iniciales, Solapamientos
  <2> QED BY <2>1, <2>2
<1> HIDE DEF rs0, gs0, T
<1>8. \A i \in Ids : i \notin Insertadas(t, G) => Sobre(t.filas, reservas)[i] = rs0[i]
  BY <1>3, FilasDeLaClase DEF rs0
<1>9. reservas' = ConFilas(rs0, G, q.E)
  <2>1. Sobre(t.filas, reservas) = ConFilas(rs0, G, t.pedido.E)
    BY <1>4, <1>8, FilasDeInsercion
  <2> QED BY <2>1 DEF Comite
<1>10. /\ gs0 \in [Grupos -> FilasGrupo]
       /\ \A h \in Grupos \ G : gs0[h] = grupos[h]
       /\ \A h \in G : gs0[h] = t.altas[h]
  <2>1. TypeOK
    BY DEF IInv
  <2>2. \A h \in G : gs0[h] = [tipo |-> "NORMAL", estado |-> "CONFIRMADA", franja |-> nuevos[h],
                              materia |-> q.materia, docente |-> q.quien, regla |-> regla]
    BY <1>4 DEF ConClases, gs0
  <2>3. \A h \in G : gs0[h] = t.altas[h]
    BY <1>3, <2>2 DEF LaClase
  <2> QED BY <1>1, <1>4, <2>1, <2>3, ClasesNuevas DEF gs0
<1>11. GruposCerrados(t) = GruposDe(Canceladas(plan))
  BY <1>3, CerradosPorLaClase
<1>12. \A g \in G : g \notin GruposCerrados(t)
  <2>1. \A i \in Canceladas(plan) : i[1] \notin G
    BY <1>3, LoDesplazado DEF Canceladas
  <2> QED BY <1>11, <2>1 DEF GruposDe
<1>13. grupos' = Recalculados(gs0, rs0, GruposDe(Canceladas(plan)))
  <2>1. \A i \in Ids : i[1] \notin G => Sobre(t.filas, reservas)[i] = rs0[i]
    BY <1>8 DEF Insertadas
  <2>2. Sobre(t.altas, grupos) = Recalculados(gs0, rs0, GruposCerrados(t))
    BY <1>2, <1>4, <1>10, <1>12, <2>1, GruposDeInsercion
  <2> QED BY <1>11, <2>2 DEF Comite
<1>14. SinSolapes(reservas', gs0)
  <2>1. SinSolapes(reservas', grupos')
    BY <1>2 DEF Comite
  <2>2. \A h \in Grupos : grupos'[h].franja = gs0[h].franja
    <3> TAKE h \in Grupos
    <3>1. grupos'[h] = gs0[h] \/
            \E e : /\ grupos'[h] = [gs0[h] EXCEPT !.estado = e] /\ gs0[h] # Nada /\ gs0[h].tipo = "NORMAL"
      BY <1>13 DEF Recalculados
    <3>2. gs0[h] # Nada /\ gs0[h].tipo = "NORMAL" => gs0[h] \in Grupo
      BY <1>10, ClaseEsGrupo DEF EsClase
    <3> QED BY <3>1, <3>2 DEF Grupo
  <2>3. \A i \in Ids : i[1] \in Grupos
    BY DEF Ids
  <2> QED BY <2>1, <2>2, <2>3 DEF SinSolapes
<1>15. equipos' = equipos /\ ahora' = ahora
  BY <1>2, NadaConfirmado DEF EscritoElEquipo, Comite
<1>16. /\ PuedeReservar(q.materia, q.quien) /\ q.E \subseteq Reservables
       /\ \A f \in q.F : ~YaTermino(f, t.reloj)
  BY <1>2 DEF VistoAlCrear, EnEspera, Reservables
<1>17. CrearReserva(q.quien, q.materia, q.F, q.E, T)
  <2>1. \E plan0 \in PlanesDeReposicion(q.materia, Solapamientos(q.E, q.F), t.reloj), G0 \in SUBSET Libres :
                 \E nuevos0 \in Bijection(G0, q.F), regla0 \in ReglaDe(G0) :
                   LET rs == AplicarPlan(reservas, plan0)
                       gs == ConClases(grupos, nuevos0, q.materia, q.quien, regla0)
                   IN /\ reservas' = ConFilas(rs, G0, q.E)
                      /\ SinSolapes(reservas', gs)
                      /\ grupos' = Recalculados(gs, rs, GruposDe(Canceladas(plan0)))
    <3> HIDE DEF q
    <3> QED BY <1>4, <1>6, <1>9, <1>13, <1>14 DEF rs0, gs0, iniciales
  <2> HIDE DEF q
  <2> QED BY <1>2, <1>7, <1>15, <1>16, <2>1 DEF CrearReserva, iniciales
<1> HIDE DEF q
<1> QED BY <1>1, <1>17 DEF Next, Crear

-----------------------------------------------------------------------------
(* What a commit leaves to the others                                        *)

\* Whatever was asked, what is committed is one operation of Reservas on the tables found.
LEMMA CometerEsPaso ==
    ASSUME IInv, NEW t \in Registro, PorConfirmar(t), Comite(t)
    PROVE  Next \/ UNCHANGED vars
<1>1. t.pedido.op \in OpsDeCierre \cup {"cambiar", "condicion", "bloquear", "crear"}
  BY RegistroTipo, PedidoTipo
<1>2. CASE t.pedido.op = "cancelar"
  BY <1>2, CancelarEsPaso
<1>3. CASE t.pedido.op = "cancelarSerie"
  BY <1>3, CancelarSerieEsPaso
<1>4. CASE t.pedido.op = "levantar"
  BY <1>4, LevantarEsPaso
<1>5. CASE t.pedido.op = "liberar"
  BY <1>5, LiberarEsPaso
<1>6. CASE t.pedido.op = "sinDocente"
  BY <1>6, SinDocenteEsPaso
<1>7. CASE t.pedido.op = "jornada"
  BY <1>7, JornadaEsPaso
<1>8. CASE t.pedido.op = "finalizar"
  BY <1>8, FinalizarEsPaso
<1>9. CASE t.pedido.op = "sacar"
  BY <1>9, SacarEsPaso
<1>10. CASE t.pedido.op = "condicion"
  BY <1>10, CondicionEsPaso
<1>11. CASE t.pedido.op = "cambiar"
  BY <1>11, CambiarEsPaso
<1>12. CASE t.pedido.op = "bloquear"
  BY <1>12, BloquearEsPaso
<1>13. CASE t.pedido.op = "crear"
  BY <1>13, CrearEsPaso
<1> QED BY <1>1, <1>2, <1>3, <1>4, <1>5, <1>6, <1>7, <1>8, <1>9, <1>10, <1>11, <1>12, <1>13
        DEF OpsDeCierre

\* The commit of an open transaction.
LEMMA ConfirmarEsPaso ==
    ASSUME IInvC, NEW p \in Abiertas, Confirmar(p)
    PROVE  /\ Next \/ UNCHANGED vars
           /\ Comite(tx[p]) /\ tx[p] \in Registro /\ tx[p].fase = "escrito"
<1>1. /\ tx[p] \in Registro /\ tx[p].reloj \in Relojes /\ tx[p].fase = "escrito"
      /\ Visto(tx[p], reservas, grupos, equipos) /\ Tomado(tx[p], reservas, grupos)
      /\ Escrito(tx[p], reservas, grupos, equipos)
      /\ SinSolapesJuntas(tx[p], tx[p], reservas, grupos)
  BY EnCursoDe DEF Confirmar
<1>2. IInv /\ EsTabla(reservas, Ids) /\ EsTabla(grupos, Grupos)
  BY TablasDeIInv DEF IInvC
<1>3. SinSolapes(Sobre(tx[p].filas, reservas), Sobre(tx[p].altas, grupos))
  <2>1. /\ Sobre(tx[p].filas, Sobre(tx[p].filas, reservas)) = Sobre(tx[p].filas, reservas)
        /\ Sobre(tx[p].altas, Sobre(tx[p].altas, grupos)) = Sobre(tx[p].altas, grupos)
    BY ONLY <1>2, SobreDosVeces
  <2> QED BY <1>1, <2>1 DEF SinSolapesJuntas
<1>4. PorConfirmar(tx[p])
  BY <1>1, <1>3 DEF PorConfirmar
<1>5. Comite(tx[p])
  BY DEF Confirmar, Comite
<1> QED BY <1>1, <1>2, <1>4, <1>5, CometerEsPaso

\* What one writes is under its locks or new; two write different rows and groups.
Bien(t) == t \in Registro /\ EscritoBajoLlave(t, reservas, grupos)

Ajenas(t, u) ==
    /\ Bien(t) /\ Bien(u) /\ DOMAIN t.altas \cap DOMAIN u.altas = {}
    /\ DOMAIN t.filas \cap DOMAIN u.filas = {}

\* The slots of the groups there are.
Firmes(gs) == \A g \in Grupos : grupos[g] # Nada => gs[g].franja = grupos[g].franja

Franja3(t, i) == Sobre(t.altas, grupos)[i[1]].franja

\* Compatible transactions wrote different rows and groups.
LEMMA DosAjenas ==
    ASSUME NEW t \in Registro, NEW u \in Registro, CompatiblesT(t, u),
           EscritoBajoLlave(t, reservas, grupos), EscritoBajoLlave(u, reservas, grupos)
    PROVE  Ajenas(t, u)
<1>1. DOMAIN t.altas \cap DOMAIN u.altas = {} /\ t.tiene \cap u.tiene = {}
  BY DEF CompatiblesT
<1>2. ASSUME NEW i \in DOMAIN t.filas, i \in DOMAIN u.filas PROVE FALSE
  <2>1. CASE reservas[i] # Nada
    <3>1. LlaveEn(grupos, i) \in t.tiene /\ LlaveEn(grupos, i) \in u.tiene
      BY <1>2, <2>1 DEF EscritoBajoLlave
    <3> QED BY <1>1, <3>1
  <2>2. CASE reservas[i] = Nada
    <3>1. i[1] \in DOMAIN t.altas /\ i[1] \in DOMAIN u.altas
      BY <1>2, <2>2 DEF EscritoBajoLlave
    <3> QED BY <1>1, <3>1
  <2> QED BY <2>1, <2>2
<1> QED BY <1>1, <1>2 DEF Ajenas, Bien

\* A row that t wrote, over any tables that keep the slots.
LEMMA PonLoSuyo ==
    ASSUME IInv, NEW t, Bien(t), NEW rs, NEW gs, EsTabla(rs, Ids), EsTabla(gs, Grupos), Firmes(gs)
    PROVE  /\ EsTabla(Sobre(t.filas, rs), Ids) /\ EsTabla(Sobre(t.altas, gs), Grupos)
           /\ Firmes(Sobre(t.altas, gs))
           /\ \A i \in DOMAIN t.filas : /\ Sobre(t.filas, rs)[i] = t.filas[i]
                                        /\ Sobre(t.altas, gs)[i[1]].franja = Franja3(t, i)
<1>1. EsTabla(Sobre(t.filas, rs), Ids) /\ EsTabla(Sobre(t.altas, gs), Grupos)
  BY SobreEs
<1>2. EsTabla(grupos, Grupos) /\ t \in Registro /\ EscritoBajoLlave(t, reservas, grupos)
  BY TablasDeIInv DEF Bien
<1>3. Firmes(Sobre(t.altas, gs))
  <2> SUFFICES ASSUME NEW g \in Grupos, grupos[g] # Nada
               PROVE  Sobre(t.altas, gs)[g].franja = grupos[g].franja
    BY DEF Firmes
  <2>1. Sobre(t.altas, gs)[g] = IF g \in DOMAIN t.altas THEN t.altas[g] ELSE gs[g]
    BY SobreEn
  <2>2. g \in DOMAIN t.altas => t.altas[g].franja = grupos[g].franja
    BY <1>2 DEF EscritoBajoLlave, MismaClase
  <2> QED BY <2>1, <2>2 DEF Firmes
<1>4. ASSUME NEW i \in DOMAIN t.filas
      PROVE  /\ Sobre(t.filas, rs)[i] = t.filas[i]
             /\ Sobre(t.altas, gs)[i[1]].franja = Franja3(t, i)
  <2>1. i \in Ids /\ i[1] \in Grupos
    BY <1>2, RegistroTipo DEF Ids
  <2>2. Sobre(t.filas, rs)[i] = t.filas[i]
    BY <2>1, SobreEn
  <2>3. /\ Sobre(t.altas, gs)[i[1]] = IF i[1] \in DOMAIN t.altas THEN t.altas[i[1]] ELSE gs[i[1]]
        /\ Sobre(t.altas, grupos)[i[1]] = IF i[1] \in DOMAIN t.altas THEN t.altas[i[1]] ELSE grupos[i[1]]
    BY <1>2, <2>1, SobreEn
  <2>4. i[1] \notin DOMAIN t.altas => grupos[i[1]] # Nada
    <3>1. reservas[i] # Nada => grupos[i[1]] # Nada
      BY <2>1 DEF IInv, Referencias
    <3> QED BY <1>2, <3>1 DEF EscritoBajoLlave
  <2> QED BY <2>1, <2>2, <2>3, <2>4 DEF Firmes, Franja3
<1> QED BY <1>1, <1>3, <1>4

\* A row that t did not write, and its slot.
LEMMA DejaLoAjeno ==
    ASSUME IInv, NEW t, Bien(t), NEW rs, NEW gs, EsTabla(rs, Ids), EsTabla(gs, Grupos), Firmes(gs),
           NEW i \in Ids, i \notin DOMAIN t.filas
    PROVE  /\ Sobre(t.filas, rs)[i] = rs[i]
           /\ reservas[i] # Nada \/ i[1] \notin DOMAIN t.altas =>
                 Sobre(t.altas, gs)[i[1]].franja = gs[i[1]].franja
<1>1. Sobre(t.filas, rs)[i] = rs[i]
  BY SobreEn
<1>2. i[1] \in Grupos
  BY DEF Ids
<1>3. Sobre(t.altas, gs)[i[1]] = IF i[1] \in DOMAIN t.altas THEN t.altas[i[1]] ELSE gs[i[1]]
  BY <1>2, SobreEn
<1>4. reservas[i] # Nada => Sobre(t.altas, gs)[i[1]].franja = gs[i[1]].franja
  <2>1. reservas[i] # Nada => grupos[i[1]] # Nada
    BY DEF IInv, Referencias
  <2>2. Firmes(Sobre(t.altas, gs))
    BY PonLoSuyo
  <2> QED BY <1>2, <2>1, <2>2 DEF Firmes
<1> QED BY <1>1, <1>3, <1>4

\* Over which tables each of S wrote its rows, and nobody the others.
Autoria(rs, gs, S) ==
    /\ EsTabla(rs, Ids) /\ EsTabla(gs, Grupos) /\ Firmes(gs)
    /\ \A t \in S : \A i \in DOMAIN t.filas :
          rs[i] = t.filas[i] /\ gs[i[1]].franja = Franja3(t, i)
    /\ \A i \in Ids : (\A t \in S : i \notin DOMAIN t.filas) =>
          rs[i] = reservas[i] /\ (reservas[i] # Nada => gs[i[1]].franja = FranjaDe(i))

\* The committed tables have no author.
LEMMA AutoriaDeNadie ==
    ASSUME IInv
    PROVE  Autoria(reservas, grupos, {})
BY TablasDeIInv DEF Autoria, Firmes, FranjaDe

\* One more author keeps the rows of the others.
LEMMA AutoriaDeOtro ==
    ASSUME IInv, NEW rs, NEW gs, NEW S, Autoria(rs, gs, S), NEW u, Bien(u),
           \A t \in S : Ajenas(t, u)
    PROVE  Autoria(Sobre(u.filas, rs), Sobre(u.altas, gs), S \cup {u})
<1> DEFINE rs2 == Sobre(u.filas, rs)
           gs2 == Sobre(u.altas, gs)
<1>1. EsTabla(rs, Ids) /\ EsTabla(gs, Grupos) /\ Firmes(gs)
  BY DEF Autoria
<1>2. /\ EsTabla(rs2, Ids) /\ EsTabla(gs2, Grupos) /\ Firmes(gs2)
      /\ \A i \in DOMAIN u.filas : rs2[i] = u.filas[i] /\ gs2[i[1]].franja = Franja3(u, i)
  BY ONLY IInv, Bien(u), <1>1, PonLoSuyo
<1>3. ASSUME NEW i \in Ids, i \notin DOMAIN u.filas
      PROVE  /\ rs2[i] = rs[i]
             /\ reservas[i] # Nada \/ i[1] \notin DOMAIN u.altas => gs2[i[1]].franja = gs[i[1]].franja
  BY ONLY IInv, Bien(u), <1>1, <1>3, DejaLoAjeno
<1> HIDE DEF rs2, gs2
<1>4. ASSUME NEW t \in S, NEW i \in DOMAIN t.filas
      PROVE  rs2[i] = t.filas[i] /\ gs2[i[1]].franja = Franja3(t, i)
  <2>1. Ajenas(t, u) /\ t \in Registro /\ EscritoBajoLlave(t, reservas, grupos)
    BY DEF Ajenas, Bien
  <2>2. i \in Ids /\ i \notin DOMAIN u.filas
    BY <2>1, RegistroTipo DEF Ajenas
  <2>3. reservas[i] # Nada \/ i[1] \notin DOMAIN u.altas
    BY <2>1 DEF Ajenas, EscritoBajoLlave
  <2>4. rs[i] = t.filas[i] /\ gs[i[1]].franja = Franja3(t, i)
    BY DEF Autoria
  <2> QED BY <1>3, <2>2, <2>3, <2>4
<1>5. ASSUME NEW i \in Ids, \A t \in S \cup {u} : i \notin DOMAIN t.filas
      PROVE  rs2[i] = reservas[i] /\ (reservas[i] # Nada => gs2[i[1]].franja = FranjaDe(i))
  <2>1. rs[i] = reservas[i] /\ (reservas[i] # Nada => gs[i[1]].franja = FranjaDe(i))
    BY <1>5 DEF Autoria
  <2>2. i \notin DOMAIN u.filas
    BY <1>5
  <2> QED BY <1>3, <2>1, <2>2
<1>6. Autoria(rs2, gs2, S \cup {u})
  BY <1>2, <1>4, <1>5 DEF Autoria
<1> QED BY <1>6 DEF rs2, gs2

\* Without a row of its own, one more author changes nothing of it.
LEMMA MenosUno ==
    ASSUME NEW rs2, NEW gs2, NEW S, Autoria(rs2, gs2, S),
           NEW rs3, NEW gs3, NEW c, Autoria(rs3, gs3, S \cup {c}),
           NEW i \in Ids, i \notin DOMAIN c.filas
    PROVE  rs2[i] = rs3[i] /\ (rs3[i] # Nada => gs2[i[1]].franja = gs3[i[1]].franja)
<1>1. CASE \E t \in S : i \in DOMAIN t.filas
  <2>1. PICK t \in S : i \in DOMAIN t.filas
    BY <1>1
  <2>2. rs2[i] = t.filas[i] /\ gs2[i[1]].franja = Franja3(t, i)
    BY <2>1 DEF Autoria
  <2>3. rs3[i] = t.filas[i] /\ gs3[i[1]].franja = Franja3(t, i)
    BY <2>1 DEF Autoria
  <2> QED BY <2>2, <2>3
<1>2. CASE \A t \in S : i \notin DOMAIN t.filas
  <2>1. rs2[i] = reservas[i] /\ (reservas[i] # Nada => gs2[i[1]].franja = FranjaDe(i))
    BY <1>2 DEF Autoria
  <2>2. rs3[i] = reservas[i] /\ (reservas[i] # Nada => gs3[i[1]].franja = FranjaDe(i))
    BY <1>2 DEF Autoria
  <2> QED BY <2>1, <2>2
<1> QED BY <1>1, <1>2

\* Two rows have two authors at most, so what no pair of three overlaps, the three do not.
LEMMA DeAPares ==
    ASSUME NEW rs2, NEW gs2, NEW S, Autoria(rs2, gs2, S), SinSolapes(rs2, gs2),
           NEW rs3, NEW gs3, NEW c, Autoria(rs3, gs3, S \cup {c}),
           NEW i \in Ids, i \notin DOMAIN c.filas, NEW j \in Ids, j \notin DOMAIN c.filas,
           rs3[i] # Nada, rs3[i].estado = "CONFIRMADA", rs3[j] # Nada, rs3[j].estado = "CONFIRMADA",
           i # j, rs3[i].equipo = rs3[j].equipo
    PROVE  ~Solapan(gs3[i[1]].franja, gs3[j[1]].franja)
<1>1. rs2[i] = rs3[i] /\ gs2[i[1]].franja = gs3[i[1]].franja
  BY MenosUno
<1>2. rs2[j] = rs3[j] /\ gs2[j[1]].franja = gs3[j[1]].franja
  BY MenosUno
<1>3. ~Solapan(gs2[i[1]].franja, gs2[j[1]].franja)
  BY <1>1, <1>2 DEF SinSolapes
<1> QED BY <1>1, <1>2, <1>3

\* Two by two without overlaps, the third over the commit of the first has none.
LEMMA TresJuntas ==
    ASSUME IInv, NEW p, NEW r, NEW c, Ajenas(p, r), Ajenas(p, c), Ajenas(r, c),
           SinSolapesJuntas(p, r, reservas, grupos), SinSolapesJuntas(p, c, reservas, grupos),
           SinSolapesJuntas(r, c, reservas, grupos)
    PROVE  SinSolapesJuntas(r, c, Sobre(p.filas, reservas), Sobre(p.altas, grupos))
<1> DEFINE rs(x, y) == Sobre(y.filas, Sobre(x.filas, reservas))
           gs(x, y) == Sobre(y.altas, Sobre(x.altas, grupos))
           rs3 == Sobre(c.filas, rs(p, r))
           gs3 == Sobre(c.altas, gs(p, r))
<1>1. ASSUME NEW x, NEW y, Ajenas(x, y) PROVE Autoria(rs(x, y), gs(x, y), {x, y})
  <2>1. Bien(x) /\ Bien(y)
    BY <1>1 DEF Ajenas
  <2>2. Autoria(reservas, grupos, {})
    BY AutoriaDeNadie
  <2>3. Autoria(Sobre(x.filas, reservas), Sobre(x.altas, grupos), {} \cup {x})
    BY ONLY IInv, <2>1, <2>2, AutoriaDeOtro
  <2>4. \A t \in {} \cup {x} : Ajenas(t, y)
    BY <1>1
  <2>5. Autoria(rs(x, y), gs(x, y), ({} \cup {x}) \cup {y})
    BY ONLY IInv, <2>1, <2>3, <2>4, AutoriaDeOtro
  <2>6. ({} \cup {x}) \cup {y} = {x, y}
    OBVIOUS
  <2> QED BY ONLY <2>5, <2>6
<1>2. Autoria(rs(p, r), gs(p, r), {p, r}) /\ SinSolapes(rs(p, r), gs(p, r))
  BY <1>1 DEF SinSolapesJuntas
<1>3. Autoria(rs(p, c), gs(p, c), {p, c}) /\ SinSolapes(rs(p, c), gs(p, c))
  BY <1>1 DEF SinSolapesJuntas
<1>4. Autoria(rs(r, c), gs(r, c), {r, c}) /\ SinSolapes(rs(r, c), gs(r, c))
  BY <1>1 DEF SinSolapesJuntas
<1>5. /\ Autoria(rs3, gs3, {p, r} \cup {c}) /\ Autoria(rs3, gs3, {p, c} \cup {r})
      /\ Autoria(rs3, gs3, {r, c} \cup {p})
  <2>1. Bien(c) /\ \A t \in {p, r} : Ajenas(t, c)
    BY DEF Ajenas
  <2>2. Autoria(rs3, gs3, {p, r} \cup {c})
    BY ONLY IInv, <1>2, <2>1, AutoriaDeOtro
  <2>3. {p, c} \cup {r} = {p, r} \cup {c} /\ {r, c} \cup {p} = {p, r} \cup {c}
    OBVIOUS
  <2> QED BY ONLY <2>2, <2>3
<1> HIDE DEF rs, gs
<1> HIDE DEF rs3, gs3
<1>6. SinSolapes(rs3, gs3)
  <2> SUFFICES ASSUME NEW i \in Ids, NEW j \in Ids,
                      rs3[i] # Nada, rs3[i].estado = "CONFIRMADA",
                      rs3[j] # Nada, rs3[j].estado = "CONFIRMADA",
                      i # j, rs3[i].equipo = rs3[j].equipo
               PROVE  ~Solapan(gs3[i[1]].franja, gs3[j[1]].franja)
    BY DEF SinSolapes
  <2>1. CASE i \notin DOMAIN c.filas /\ j \notin DOMAIN c.filas
    BY <1>2, <1>5, <2>1, DeAPares
  <2>2. CASE i \notin DOMAIN r.filas /\ j \notin DOMAIN r.filas
    BY <1>3, <1>5, <2>2, DeAPares
  <2>3. CASE i \notin DOMAIN p.filas /\ j \notin DOMAIN p.filas
    BY <1>4, <1>5, <2>3, DeAPares
  <2>4. /\ DOMAIN p.filas \cap DOMAIN r.filas = {} /\ DOMAIN p.filas \cap DOMAIN c.filas = {}
        /\ DOMAIN r.filas \cap DOMAIN c.filas = {}
    BY DEF Ajenas
  <2> QED BY <2>1, <2>2, <2>3, <2>4
<1> QED BY <1>6 DEF rs, gs, rs3, gs3, SinSolapesJuntas

\* The rule of a series comes with one of its groups.
LEMMA ReglasTrasComite ==
    ASSUME IInv, ReglasCargadas(grupos), NEW t \in Registro, EscritoBajoLlave(t, reservas, grupos)
    PROVE  ReglasCargadas(Sobre(t.altas, grupos))
<1> DEFINE gs == Sobre(t.altas, grupos)
<1>1. TablasOK(reservas, grupos, equipos)
  BY TablasDeIInv
<1>2. \A g \in Grupos : IF g \in DOMAIN t.altas
                        THEN /\ gs[g] = t.altas[g] /\ gs[g] # Nada
                             /\ grupos[g] # Nada => MismaClase(grupos[g], gs[g])
                        ELSE gs[g] = grupos[g]
  BY <1>1, ComiteEscribe
<1>3. DOMAIN t.altas \subseteq Grupos
  BY RegistroTipo
<1> HIDE DEF gs
<1>4. ASSUME NEW g \in Grupos, EsClase(gs[g]), gs[g].regla # Nada PROVE gs[gs[g].regla] # Nada
  <2>1. CASE grupos[g] # Nada
    <3>1. EsClase(grupos[g]) /\ grupos[g].regla = gs[g].regla
      BY <1>2, <1>4, <2>1 DEF MismaClase
    <3>2. grupos[gs[g].regla] # Nada
      BY <1>4, <3>1 DEF ReglasCargadas
    <3>3. gs[g].regla \in Grupos
      <4>1. grupos[g] \in Grupo
        BY <1>1, <3>1, ClaseEsGrupo DEF TablasOK
      <4> QED BY <1>4, <3>1, <4>1 DEF Grupo
    <3> QED BY <1>2, <3>2, <3>3
  <2>2. CASE grupos[g] = Nada
    <3>1. g \in DOMAIN t.altas /\ gs[g] = t.altas[g]
      BY <1>2, <1>4, <2>2 DEF EsClase
    <3>2. t.altas[g].regla \in DOMAIN t.altas
      BY <1>4, <2>2, <3>1 DEF EscritoBajoLlave
    <3> QED BY <1>2, <1>3, <3>1, <3>2
  <2> QED BY <2>1, <2>2
<1> QED BY <1>4 DEF ReglasCargadas, gs

\* The commit of one takes nothing from the others.
LEMMA ConfirmarInv ==
    ASSUME IInvC, NEW p \in Abiertas, Confirmar(p)
    PROVE  IInvC'
<1> DEFINE t == tx[p]
<1>1. /\ Next \/ UNCHANGED vars
      /\ Comite(t) /\ t \in Registro /\ t.fase = "escrito"
  BY ConfirmarEsPaso
<1>2. /\ tx' = [tx EXCEPT ![p] = Nada] /\ p \in Procesos
      /\ tx \in [Procesos -> Registro \cup {Nada}] /\ IInv /\ ReglasCargadas(grupos)
  BY DEF Confirmar, IInvC, Abiertas
<1>3. IInv'
  BY <1>1, <1>2, NextIInv
<1>4. /\ tx' \in [Procesos -> Registro \cup {Nada}]
      /\ Abiertas' \subseteq Abiertas \ {p} /\ \A r \in Abiertas' : tx'[r] = tx[r]
  BY <1>2 DEF Abiertas
<1>5. /\ EnCurso(t, reservas, grupos, equipos) /\ EscritoBajoLlave(t, reservas, grupos)
      /\ \A r \in Abiertas \ {p} : SeLlevan(t, r)
  BY <1>1, EnCursoDe DEF Escrito
<1>6. TablasOK(reservas, grupos, equipos) /\ EsTabla(reservas, Ids) /\ EsTabla(grupos, Grupos)
  BY <1>2, TablasDeIInv
<1> HIDE DEF t
<1>7. /\ reservas' = Sobre(t.filas, reservas) /\ grupos' = Sobre(t.altas, grupos)
      /\ equipos' = Sobre(t.estados, equipos) /\ ahora' = ahora
  BY <1>1 DEF Comite
<1>8. TablasOK(reservas', grupos', equipos')
  <2>1. TypeOK' /\ Referencias'
    BY <1>3 DEF IInv
  <2> QED BY <2>1 DEF TypeOK, Referencias, TablasOK, Refs, FilasGrupo
<1>9. ReglasCargadas(grupos')
  BY <1>1, <1>2, <1>5, <1>7, ReglasTrasComite
<1>10. Relojes' = Relojes
  BY <1>7 DEF Relojes
<1>11. ASSUME NEW r \in Abiertas \ {p}
       PROVE  tx[r].reloj \in Relojes /\ EnCurso(tx[r], reservas', grupos', equipos')
  <2>1. /\ tx[r] \in Registro /\ tx[r].reloj \in Relojes
        /\ EnCurso(tx[r], reservas, grupos, equipos)
        /\ CompatiblesT(t, tx[r]) /\ CompatiblesT(tx[r], t)
    BY <1>5, EnCursoDe DEF SeLlevan
  <2>2. Ajeno(tx[r], reservas, grupos, equipos, reservas', grupos', equipos')
    BY <1>1, <1>5, <1>6, <1>7, <2>1, ComiteEsAjeno
  <2>3. EnCurso(tx[r], reservas', grupos', equipos')
    BY ONLY <1>2, <1>6, <1>8, <2>1, <2>2, EnCursoSeConserva
  <2> QED BY <2>1, <2>3
<1>12. ASSUME NEW r \in Abiertas \ {p}, NEW s \in Abiertas \ {p}
       PROVE  SinSolapesJuntas(tx[r], tx[s], reservas', grupos')
  <2>1. ASSUME NEW x \in Abiertas \ {p}
        PROVE  /\ tx[x] \in Registro /\ EscritoBajoLlave(tx[x], reservas, grupos)
               /\ CompatiblesT(t, tx[x]) /\ SinSolapesJuntas(t, tx[x], reservas, grupos)
    <3>1. /\ tx[x] \in Registro /\ SeLlevan(t, x)
          /\ tx[x].fase # "escrito" => EscritoNada(tx[x])
          /\ tx[x].fase = "escrito" => Escrito(tx[x], reservas, grupos, equipos)
      BY <1>5, EnCursoDe
    <3>2. EscritoBajoLlave(tx[x], reservas, grupos)
      <4>1. EscritoNada(tx[x]) => EscritoBajoLlave(tx[x], reservas, grupos)
        BY DEF EscritoNada, EscritoBajoLlave
      <4>2. Escrito(tx[x], reservas, grupos, equipos) => EscritoBajoLlave(tx[x], reservas, grupos)
        BY DEF Escrito
      <4> QED BY <3>1, <4>1, <4>2
    <3>3. CompatiblesT(t, tx[x]) /\ SinSolapesJuntas(t, tx[x], reservas, grupos)
      BY <3>1 DEF SeLlevan
    <3> QED BY <3>1, <3>2, <3>3
  <2>2. CASE r = s
    <3>1. SinSolapes(Sobre(tx[r].filas, reservas'), Sobre(tx[r].altas, grupos'))
      BY <1>7, <2>1 DEF SinSolapesJuntas
    <3>2. EsTabla(reservas', Ids) /\ EsTabla(grupos', Grupos)
      BY <1>6, <1>7, SobreEs
    <3>3. /\ Sobre(tx[r].filas, Sobre(tx[r].filas, reservas')) = Sobre(tx[r].filas, reservas')
          /\ Sobre(tx[r].altas, Sobre(tx[r].altas, grupos')) = Sobre(tx[r].altas, grupos')
      BY ONLY <3>2, SobreDosVeces
    <3> QED BY <2>2, <3>1, <3>3 DEF SinSolapesJuntas
  <2>3. CASE r # s
    <3>1. Ajenas(t, tx[r]) /\ Ajenas(t, tx[s])
      BY <1>1, <1>5, <2>1, DosAjenas
    <3>2. CompatiblesT(tx[r], tx[s]) /\ SinSolapesJuntas(tx[r], tx[s], reservas, grupos)
      BY <2>3 DEF IInvC
    <3>3. Ajenas(tx[r], tx[s])
      BY <2>1, <3>2, DosAjenas
    <3> QED BY <1>2, <1>7, <2>1, <3>1, <3>2, <3>3, TresJuntas
  <2> QED BY <2>2, <2>3
<1>13. \A r \in Abiertas' : tx'[r].reloj \in Relojes' /\ EnCurso(tx'[r], reservas', grupos', equipos')
  BY <1>4, <1>10, <1>11
<1>14. \A r, s \in Abiertas' : r # s => CompatiblesT(tx'[r], tx'[s])
  BY <1>4 DEF IInvC
<1>15. \A r, s \in Abiertas' : SinSolapesJuntas(tx'[r], tx'[s], reservas', grupos')
  BY <1>4, <1>12
<1> QED BY <1>3, <1>4, <1>9, <1>13, <1>14, <1>15 DEF IInvC

-----------------------------------------------------------------------------
(* Every interleaving                                                        *)

\* No transaction is open at first.
LEMMA InitCIInvC == InitC => IInvC
<1> SUFFICES ASSUME InitC PROVE IInvC
  OBVIOUS
<1>1. IInv /\ tx = [p \in Procesos |-> Nada]
  BY InitIInv DEF InitC
<1>2. Abiertas = {} /\ tx \in [Procesos -> Registro \cup {Nada}]
  BY <1>1 DEF Abiertas
<1>3. ReglasCargadas(grupos)
  BY DEF InitC, Init, ReglasCargadas, EsClase
<1> QED BY <1>1, <1>2, <1>3 DEF IInvC

\* A step that changes nothing.
LEMMA QuietaInv ==
    ASSUME IInvC, UNCHANGED varsC
    PROVE  IInvC'
<1>1. /\ reservas' = reservas /\ grupos' = grupos /\ equipos' = equipos /\ ahora' = ahora /\ tx' = tx
  BY DEF varsC
<1>2. IInv'
  <2>1. UNCHANGED vars
    BY <1>1 DEF vars
  <2> QED BY <2>1, NextIInv DEF IInvC
<1>3. Abiertas' = Abiertas /\ Relojes' = Relojes
  BY <1>1 DEF Abiertas, Relojes
<1>4. ReglasCargadas(grupos)'
  BY <1>1 DEF IInvC, ReglasCargadas, EsClase
<1>5. tx' \in [Procesos -> Registro \cup {Nada}]
  BY <1>1 DEF IInvC
<1>6. \A p \in Abiertas' : tx'[p].reloj \in Relojes' /\ EnCurso(tx'[p], reservas', grupos', equipos')
  BY <1>1, <1>3 DEF IInvC
<1>7. \A p, r \in Abiertas' : p # r => CompatiblesT(tx'[p], tx'[r])
  BY <1>1, <1>3 DEF IInvC
<1>8. \A p, r \in Abiertas' : SinSolapesJuntas(tx'[p], tx'[r], reservas', grupos')
  BY <1>1, <1>3 DEF IInvC
<1> QED BY <1>2, <1>4, <1>5, <1>6, <1>7, <1>8 DEF IInvC

\* Every step keeps the invariant, and is one of Reservas or none.
LEMMA NextCIInvC == IInvC /\ [NextC]_varsC => IInvC' /\ (Next \/ UNCHANGED vars)
<1> SUFFICES ASSUME IInvC, [NextC]_varsC PROVE IInvC' /\ (Next \/ UNCHANGED vars)
  OBVIOUS
<1>1. ASSUME NEW p \in Procesos, NEW q \in Pedidos, Empezar(p, q)
      PROVE  IInvC' /\ (Next \/ UNCHANGED vars)
  <2>1. UNCHANGED vars
    BY <1>1 DEF Empezar
  <2> QED BY <1>1, <2>1, EmpezarInv
<1>2. ASSUME NEW p \in Abiertas, NEW k \in Llaves, Tomar(p, k)
      PROVE  IInvC' /\ (Next \/ UNCHANGED vars)
  <2>1. UNCHANGED vars
    BY <1>2 DEF Tomar
  <2> QED BY <1>2, <2>1, TomarInv
<1>3. ASSUME NEW p \in Abiertas, Releer(p)
      PROVE  IInvC' /\ (Next \/ UNCHANGED vars)
  <2>1. UNCHANGED vars
    BY <1>3 DEF Releer
  <2> QED BY <1>3, <2>1, ReleerInv
<1>4. ASSUME NEW p \in Abiertas, Ampliar(p)
      PROVE  IInvC' /\ (Next \/ UNCHANGED vars)
  <2>1. UNCHANGED vars
    BY <1>4 DEF Ampliar
  <2> QED BY <1>4, <2>1, AmpliarInv
<1>5. ASSUME NEW p \in Abiertas, Escribir(p)
      PROVE  IInvC' /\ (Next \/ UNCHANGED vars)
  <2>1. UNCHANGED vars
    BY <1>5 DEF Escribir
  <2> QED BY <1>5, <2>1, EscribirInv
<1>6. ASSUME NEW p \in Abiertas, Confirmar(p)
      PROVE  IInvC' /\ (Next \/ UNCHANGED vars)
  BY <1>6, ConfirmarInv, ConfirmarEsPaso
<1>7. ASSUME NEW p \in Abiertas, Abortar(p)
      PROVE  IInvC' /\ (Next \/ UNCHANGED vars)
  <2>1. UNCHANGED vars
    BY <1>7 DEF Abortar
  <2> QED BY <1>7, <2>1, AbortarInv
<1>8. ASSUME Avanza
      PROVE  IInvC' /\ (Next \/ UNCHANGED vars)
  <2>1. Next
    BY <1>8 DEF Avanza, Next
  <2> QED BY <1>8, <2>1, AvanzaInv
<1>9. ASSUME UNCHANGED varsC
      PROVE  IInvC' /\ (Next \/ UNCHANGED vars)
  <2>1. UNCHANGED vars
    BY <1>9 DEF varsC, vars
  <2> QED BY <1>9, <2>1, QuietaInv
<1> QED BY <1>1, <1>2, <1>3, <1>4, <1>5, <1>6, <1>7, <1>8, <1>9
        DEF NextC, Comenzar, TomarUna, Seguir, Terminar

\* Whatever the interleaving, what each open transaction read, locked and wrote stays
\* consistent with the tables the others leave (locks of BuscarGruposParaActualizar and
\* of CoordinarReservas).
THEOREM TransaccionesCoherentes == SpecC => []IInvC
<1>1. InitC => IInvC
  BY InitCIInvC
<1>2. IInvC /\ [NextC]_varsC => IInvC'
  BY NextCIInvC
<1> QED BY <1>1, <1>2, PTL DEF SpecC

\* The transactions keep their types, and no two hold one key.
THEOREM TransaccionesTipo == SpecC => []TypeOKC
<1>1. IInvC => TypeOKC
  <2> SUFFICES ASSUME IInvC PROVE TypeOKC
    OBVIOUS
  <2>1. TypeOK /\ DOMAIN tx = Procesos
    BY DEF IInvC, IInv
  <2>2. ASSUME NEW p \in Procesos, tx[p] # Nada
        PROVE  /\ Transaccion(tx[p]) /\ tx[p].faltan \cap tx[p].tiene = {}
               /\ tx[p].fase # "tomando" => tx[p].faltan = {}
    <3>1. p \in Abiertas
      BY <2>2 DEF Abiertas
    <3>2. /\ tx[p] \in Registro /\ tx[p].faltan \cap tx[p].tiene = {}
          /\ tx[p].fase # "tomando" => tx[p].faltan = {}
      BY <3>1, EnCursoDe
    <3>3. PICK t : t = tx[p]
      OBVIOUS
    <3>4. /\ t.pedido \in Pedidos /\ t.fase \in Fases
          /\ t.faltan \in SUBSET Llaves /\ t.tiene \in SUBSET Llaves
          /\ DOMAIN t.vistas \subseteq Ids /\ \A i \in DOMAIN t.vistas : t.vistas[i] \in Reserva
          /\ DOMAIN t.releidas \subseteq Ids /\ \A i \in DOMAIN t.releidas : t.releidas[i] \in Reserva
          /\ DOMAIN t.filas \subseteq Ids /\ \A i \in DOMAIN t.filas : t.filas[i] \in Reserva
          /\ DOMAIN t.altas \subseteq Grupos
          /\ \A g \in DOMAIN t.altas : t.altas[g] \in Grupo \cup Operacion
          /\ DOMAIN t.estados \subseteq Equipos
          /\ \A e \in DOMAIN t.estados : t.estados[e] \in Condiciones
      BY <3>2, <3>3, RegistroTipo
    <3>5. t.reloj \in 0..Horizonte /\ t.cascada \in BOOLEAN
      BY <3>2, <3>3 DEF Registro
    <3>6. Transaccion(t)
      BY <3>4, <3>5 DEF Transaccion, Range
    <3> QED BY <3>2, <3>3, <3>6
  <2>3. ASSUME NEW p \in Procesos, NEW r \in Procesos, p # r, tx[p] # Nada, tx[r] # Nada
        PROVE  tx[p].tiene \cap tx[r].tiene = {}
    BY <2>3 DEF IInvC, Abiertas, CompatiblesT
  <2> QED BY <2>1, <2>2, <2>3 DEF TypeOKC
<1> QED BY <1>1, TransaccionesCoherentes, PTL

\* Every commit is one operation of Reservas on the tables it finds: with READ COMMITTED
\* and the locks of the code, the transactions are atomic.
THEOREM ConcurrentesImplementaReservas == SpecC => ImplementaReservas
<1>1. InitC => Init
  BY DEF InitC
<1>2. IInvC /\ [NextC]_varsC => [UNCHANGED vars \/ Next]_vars
  BY NextCIInvC
<1> QED BY <1>1, <1>2, TransaccionesCoherentes, PTL DEF SpecC, ImplementaReservas

\* So what the operations of Reservas keep, their transactions keep.
THEOREM ReservasBajoConcurrencia ==
    SpecC => [](NoSolapamiento /\ GrupoCoherente /\ SinPromesasFueraDeCirculacion)
<1>1. IInvC => NoSolapamiento /\ GrupoCoherente /\ SinPromesasFueraDeCirculacion
  BY DEF IInvC, IInv
<1> QED BY <1>1, TransaccionesCoherentes, PTL

\* What a transaction read again under its locks is still so when it commits.
THEOREM LoReleidoVigente == SpecC => []LoReleidoSigueVigente
<1>1. IInvC => LoReleidoSigueVigente
  <2> SUFFICES ASSUME IInvC, NEW p \in Abiertas, tx[p].fase # "tomando",
                      NEW i \in DOMAIN tx[p].releidas
               PROVE  reservas[i] = tx[p].releidas[i]
    BY DEF LoReleidoSigueVigente
  <2>1. Tomado(tx[p], reservas, grupos)
    BY EnCursoDe
  <2> QED BY <2>1 DEF Tomado
<1> QED BY <1>1, TransaccionesCoherentes, PTL

-----------------------------------------------------------------------------
(* The order of the locks                                                    *)

\* The groups before the rows, and each in the order of the ids.
Antes(k, l) == IF k \in Grupos THEN l \in Grupos => Orden[k] <= Orden[l]
                               ELSE l \notin Grupos /\ Orden[k] <= Orden[l]

\* Until its second round, a transaction holds what comes before all it still misses.
EnOrden == \A p \in Abiertas : ~tx[p].cascada => \A k \in tx[p].tiene, l \in tx[p].faltan : Antes(k, l)

\* The keys are taken in order, group by group and row by row.
LEMMA EnOrdenSigue ==
    ASSUME tx \in [Procesos -> Registro \cup {Nada}], EnOrden, [NextC]_varsC
    PROVE  EnOrden'
<1>1. ASSUME NEW p \in Procesos, NEW q \in Pedidos, Empezar(p, q) PROVE EnOrden'
  <2>1. PICK S : tx' = [tx EXCEPT ![p] =
                  [pedido |-> q, fase |-> "tomando", reloj |-> ahora, cascada |-> FALSE,
                   vistas |-> Filas(S), faltan |-> LlavesDe(S), tiene |-> {},
                   releidas |-> << >>, filas |-> << >>, altas |-> << >>, estados |-> << >>]]
    BY <1>1 DEF Empezar
  <2>2. tx'[p].tiene = {} /\ \A r \in Procesos \ {p} : tx'[r] = tx[r]
    BY <2>1
  <2> QED BY <2>2 DEF EnOrden, Abiertas, Antes
<1>2. ASSUME NEW p \in Abiertas, NEW k \in Llaves, Tomar(p, k) PROVE EnOrden'
  <2>1. /\ p \in Procesos /\ tx[p] \in Registro /\ k \in Primeras(tx[p].faltan)
        /\ tx' = [tx EXCEPT ![p].faltan = @ \ {k}, ![p].tiene = @ \cup {k}]
    BY <1>2 DEF Tomar, Abiertas
  <2>2. /\ tx'[p].faltan = tx[p].faltan \ {k} /\ tx'[p].tiene = tx[p].tiene \cup {k}
        /\ tx'[p].cascada = tx[p].cascada
        /\ \A r \in Procesos \ {p} : tx'[r] = tx[r]
    BY <2>1 DEF Registro
  <2>3. \A l \in tx[p].faltan : Antes(k, l)
    BY <2>1 DEF Primeras, Antes
  <2>4. ASSUME NEW r \in Abiertas', ~tx'[r].cascada, NEW h \in tx'[r].tiene, NEW l \in tx'[r].faltan
        PROVE  Antes(h, l)
    <3>1. CASE r = p
      <4>1. ~tx[p].cascada /\ l \in tx[p].faltan /\ (h \in tx[p].tiene \/ h = k)
        BY <2>2, <2>4, <3>1
      <4> QED BY <2>3, <4>1 DEF EnOrden
    <3>2. CASE r # p
      <4>1. r \in Abiertas /\ tx'[r] = tx[r]
        BY <2>2, <3>2 DEF Abiertas
      <4> QED BY <2>4, <4>1 DEF EnOrden
    <3> QED BY <3>1, <3>2
  <2> QED BY <2>4 DEF EnOrden, Antes
<1>3. ASSUME NEW p \in Abiertas, Releer(p) \/ Escribir(p) PROVE EnOrden'
  <2>1. p \in Procesos /\ tx[p] \in Registro
    BY DEF Abiertas
  <2>2. /\ tx'[p].faltan = tx[p].faltan /\ tx'[p].tiene = tx[p].tiene
        /\ tx'[p].cascada = tx[p].cascada
        /\ \A r \in Procesos \ {p} : tx'[r] = tx[r]
    <3>1. CASE Releer(p)
      BY <2>1, <3>1 DEF Releer, Registro
    <3>2. CASE Escribir(p)
      <4>1. PICK w : tx' = [tx EXCEPT ![p].fase = "escrito",
                             ![p].filas = Cambios(w.rs, reservas),
                             ![p].altas = Cambios(w.gs, grupos),
                             ![p].estados = Cambios(w.es, equipos)]
        BY <3>2 DEF Escribir
      <4> QED BY <2>1, <4>1 DEF Registro
    <3> QED BY <1>3, <3>1, <3>2
  <2> QED BY <2>2 DEF EnOrden, Abiertas, Antes
<1>4. ASSUME NEW p \in Abiertas, Ampliar(p) PROVE EnOrden'
  <2>1. p \in Procesos /\ tx[p] \in Registro
    BY DEF Abiertas
  <2>2. PICK S : tx' = [tx EXCEPT ![p].fase = "tomando", ![p].cascada = TRUE,
                          ![p].vistas = Filas(S), ![p].faltan = LlavesDe(S)]
    BY <1>4 DEF Ampliar
  <2>3. tx'[p].cascada = TRUE /\ \A r \in Procesos \ {p} : tx'[r] = tx[r]
    BY <2>1, <2>2 DEF Registro
  <2> QED BY <2>3 DEF EnOrden, Abiertas, Antes
<1>5. ASSUME NEW p \in Abiertas, Confirmar(p) \/ Abortar(p) PROVE EnOrden'
  <2>1. tx' = [tx EXCEPT ![p] = Nada] /\ p \in Procesos
    BY <1>5 DEF Confirmar, Abortar, Abiertas
  <2>2. p \notin Abiertas' /\ \A r \in Procesos \ {p} : tx'[r] = tx[r]
    BY <2>1 DEF Abiertas
  <2> QED BY <2>2 DEF EnOrden, Abiertas, Antes
<1>6. ASSUME Avanza \/ UNCHANGED varsC PROVE EnOrden'
  <2>1. tx' = tx
    BY <1>6 DEF Avanza, varsC
  <2> QED BY <2>1 DEF EnOrden, Abiertas, Antes
<1> QED BY <1>1, <1>2, <1>3, <1>4, <1>5, <1>6 DEF NextC, Comenzar, TomarUna, Seguir, Terminar

\* The keys at or after the first one t misses.
Tras(t) == {l \in Llaves : \E k \in t.faltan : Antes(k, l)}

\* Who waits has more keys ahead than the one it waits for.
LEMMA EsperarAdelanta ==
    ASSUME NEW t \in Registro, NEW u \in Registro, NEW k \in t.faltan, k \in u.tiene,
           u.faltan \cap u.tiene = {}, \A h \in u.tiene, l \in u.faltan : Antes(h, l)
    PROVE  Tras(u) \subseteq Tras(t) /\ Tras(u) # Tras(t)
<1>1. /\ t.faltan \in SUBSET Llaves /\ u.faltan \in SUBSET Llaves
      /\ \A l \in Llaves : Orden[l] \in Nat
      /\ \A h, l \in Llaves : Orden[h] = Orden[l] => h = l
  BY RegistroTipo, ConcurrentesAssumption DEF Llaves
<1>2. ASSUME NEW l \in Tras(u) PROVE l \in Tras(t)
  <2>1. PICK j \in u.faltan : Antes(j, l)
    BY DEF Tras
  <2>2. l \in Llaves /\ j \in Llaves /\ Antes(k, j)
    BY <1>1 DEF Tras
  <2>3. Antes(k, l)
    BY <1>1, <2>1, <2>2 DEF Antes
  <2> QED BY <2>2, <2>3 DEF Tras
<1>3. k \in Tras(t)
  BY <1>1 DEF Tras, Antes
<1>4. k \notin Tras(u)
  <2> SUFFICES ASSUME NEW j \in u.faltan, Antes(j, k) PROVE FALSE
    BY DEF Tras
  <2>1. Antes(k, j) /\ k \in Llaves /\ j \in Llaves
    BY <1>1
  <2>2. k = j
    BY <1>1, <2>1 DEF Antes
  <2> QED BY <2>2
<1> QED BY <1>2, <1>3, <1>4

\* Transactions that lock in one go never wait for one another in a circle.
THEOREM OrdenSinAbrazos == SpecC => []OrdenFijoSinAbrazos
<1>1. InitC => EnOrden
  BY DEF InitC, EnOrden, Abiertas
<1>2. IInvC /\ EnOrden /\ [NextC]_varsC => EnOrden'
  BY EnOrdenSigue DEF IInvC
<1>3. IInvC /\ EnOrden => OrdenFijoSinAbrazos
  <2> SUFFICES ASSUME IInvC, EnOrden,
                      NEW C \in (SUBSET {p \in Abiertas : ~tx[p].cascada}) \ {{}}
               PROVE  \E p \in C : \A r \in C \ {p} : ~Espera(p, r)
    BY DEF OrdenFijoSinAbrazos
  <2>1. \A p \in C : /\ tx[p] \in Registro /\ tx[p].faltan \cap tx[p].tiene = {}
                     /\ \A h \in tx[p].tiene, l \in tx[p].faltan : Antes(h, l)
    BY EnCursoDe DEF EnOrden
  <2> DEFINE X == {Tras(tx[p]) : p \in C}
             R == StrictSubsetOrdering(Llaves)
  <2>2. IsWellFoundedOn(R, SUBSET Llaves)
    <3>1. IsFiniteSet(Llaves)
      BY IdsFinitos, ConcurrentesAssumption, FS_Union DEF Llaves
    <3> QED BY <3>1, FS_FiniteSubsetsOfFinite, FS_StrictSubsetOrderingWellFounded
  <2>3. X \subseteq SUBSET Llaves /\ X # {}
    BY DEF Tras
  <2> HIDE DEF X
  <2>4. PICK x \in X : \A y \in X : <<y, x>> \notin R
    <3> HIDE DEF R
    <3> QED BY ONLY <2>2, <2>3, WFMin
  <2>5. PICK p \in C : x = Tras(tx[p])
    BY DEF X
  <2>6. ASSUME NEW r \in C \ {p}, Espera(p, r) PROVE FALSE
    <3>1. PICK k \in tx[p].faltan : k \in tx[r].tiene
      BY <2>6 DEF Espera, Primeras
    <3>2. Tras(tx[r]) \subseteq Tras(tx[p]) /\ Tras(tx[r]) # Tras(tx[p])
      BY <2>1, <3>1, EsperarAdelanta
    <3>3. Tras(tx[r]) \in X
      BY DEF X
    <3>4. <<Tras(tx[r]), x>> \in R
      BY <2>3, <2>5, <3>2, <3>3 DEF StrictSubsetOrdering
    <3> QED BY <2>4, <3>3, <3>4
  <2> QED BY <2>6
<1>4. SpecC => []EnOrden
  BY <1>1, <1>2, TransaccionesCoherentes, PTL DEF SpecC
<1> QED BY <1>3, <1>4, TransaccionesCoherentes, PTL
=============================================================================
