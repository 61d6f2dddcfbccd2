------------------------ MODULE ReservasConcurrentes ------------------------
(* The operations of Reservas as the READ COMMITTED transactions they are:   *)
(* each takes the institutional advisory lock in its mode, reads the         *)
(* candidates, locks their groups (the rows, when they are blocks) in the    *)
(* order of their ids, reads them again, writes, and commits. Row locks last *)
(* until the end; what is not committed is seen by nobody else but the       *)
(* constraint no_solapamiento.                                               *)
EXTENDS Reservas

CONSTANTS
    Procesos,    \* connections: HTTP handlers, tickers, the cascades of other modules
    Pedidos,     \* the requests they may make
    Orden        \* [Grupos \cup Ids -> Nat]: the order of the uuids

\* What each of the requests carries.
Peticiones ==
    [op : {"crear"}, quien : Usuarios, materia : Materias, F : Series,
     E : (SUBSET Equipos) \ {{}}, T : SUBSET Equipos]
    \cup [op : {"bloquear"}, quien : Usuarios, franja : Franjas, E : (SUBSET Equipos) \ {{}}]
    \cup [op : {"levantar"}, quien : Usuarios, grupo : Grupos]
    \cup [op : {"cancelarSerie"}, quien : Usuarios, grupo : Grupos, soloEsta : BOOLEAN]
    \cup [op : {"cancelar"}, quien : Usuarios, id : Ids]
    \cup [op : {"cambiar"}, quien : Usuarios, id : Ids, nuevo : Equipos, soloEsta : BOOLEAN]
    \cup [op : {"liberar"}, id : Ids]
    \cup [op : {"sacar"}, equipo : Equipos]
    \cup [op : {"condicion"}, equipo : Equipos, nueva : Condiciones \ {"fuera"}]
    \cup [op : {"sinDocente"}, materia : Materias]
    \cup [op : {"finalizar", "jornada"}]

ASSUME ConcurrentesAssumption ==
    /\ Pedidos \subseteq Peticiones
    /\ IsFiniteSet(Grupos) /\ IsFiniteSet(Equipos) /\ IsFiniteSet(Procesos)
    /\ Orden \in [Grupos \cup Ids -> Nat]
    /\ \A k, l \in Grupos \cup Ids : Orden[k] = Orden[l] => k = l

VARIABLE tx      \* [Procesos -> the open transaction of each, or Nada]

varsC == <<reservas, grupos, equipos, ahora, tx>>

Fases == {"tomando", "releido", "escrito"}

\* llave of a row: its group, or the row itself when it is a block.
Llaves == Grupos \cup Ids

Transaccion(t) ==
    /\ t.pedido \in Pedidos /\ t.fase \in Fases /\ t.reloj \in 0..Horizonte
    /\ t.cascada \in BOOLEAN
    /\ t.faltan \subseteq Llaves /\ t.tiene \subseteq Llaves
    /\ \A leidas \in {t.vistas, t.releidas, t.filas} :
          DOMAIN leidas \subseteq Ids /\ Range(leidas) \subseteq Reserva
    /\ DOMAIN t.altas \subseteq Grupos /\ Range(t.altas) \subseteq Grupo \cup Operacion
    /\ DOMAIN t.estados \subseteq Equipos /\ Range(t.estados) \subseteq Condiciones

\* The committed tables, and of each transaction: keys are held or missing but not both,
\* nothing is written while a key is missing, and a key has one holder.
TypeOKC ==
    /\ TypeOK /\ DOMAIN tx = Procesos
    /\ \A p \in Procesos :
          tx[p] # Nada => /\ Transaccion(tx[p])
                          /\ tx[p].faltan \cap tx[p].tiene = {}
                          /\ tx[p].fase # "tomando" => tx[p].faltan = {}
    /\ \A p, r \in Procesos :
          p # r /\ tx[p] # Nada /\ tx[r] # Nada => tx[p].tiene \cap tx[r].tiene = {}

InitC == Init /\ tx = [p \in Procesos |-> Nada]

-----------------------------------------------------------------------------
(* Coordination and locks                                                    *)

Modos == [ninguno    |-> {"cancelar", "cancelarSerie", "finalizar"},
          compartido |-> {"bloquear", "levantar", "cambiar"},
          exclusivo  |-> {"liberar", "sacar", "condicion", "sinDocente", "jornada"}]

\* Mutant: an inventory change is coordinated like a booking.
ModoSinExclusivos(q) ==
    IF q.op = "crear" THEN IF q.T = {} THEN "compartido" ELSE "exclusivo"
    ELSE IF q.op \in Modos.ninguno THEN "ninguno" ELSE "compartido"

\* Only the creation that displaces finds new groups as it goes, and so is exclusive.
Modo(q) ==
    IF q.op = "crear" THEN IF q.T = {} THEN "compartido" ELSE "exclusivo"
    ELSE CHOOSE m \in DOMAIN Modos : q.op \in Modos[m]

Abiertas == {p \in Procesos : tx[p] # Nada}

\* pg_advisory_xact_lock and pg_advisory_xact_lock_shared on one key.
PuedeCoordinar(m) ==
    m # "ninguno" =>
        \A r \in Abiertas : \/ Modo(tx[r].pedido) = "ninguno"
                            \/ m = "compartido" /\ Modo(tx[r].pedido) = "compartido"

Filas(S) == [i \in S |-> reservas[i]]

\* Mutant: the rows are read without FOR UPDATE.
SinTomar(S) == {}

LlavesDe(S) == {IF EsBloqueo(i) THEN i ELSE i[1] : i \in S}

\* Every row a transaction with these keys has locked.
Tomadas(K) == {i \in Ids : reservas[i] # Nada /\ LlavesDe({i}) \subseteq K}

\* Mutant: no ORDER BY in the locking query.
EnCualquierOrden(K) == K

\* ORDER BY id FOR UPDATE, the groups before the rows.
Primeras(K) ==
    {k \in K : \A l \in K : IF k \in Grupos THEN l \in Grupos => Orden[k] <= Orden[l]
                            ELSE l \notin Grupos /\ Orden[k] <= Orden[l]}

-----------------------------------------------------------------------------
(* What a request reads before it locks anything                             *)

\* The validations that precede the transaction's locks.
Admisible(q, t) ==
    CASE q.op = "crear" ->
            /\ PuedeReservar(q.materia, q.quien)
            /\ q.E \subseteq Reservables
            /\ \A f \in q.F : ~YaTermino(f, t)
            /\ \A i \in Solapamientos(q.E, q.F) : reservas[i].equipo \in q.T
      [] q.op = "bloquear" -> /\ q.quien \in Admins
                              /\ q.E \subseteq Reservables
                              /\ ~YaTermino(q.franja, t)
      [] q.op = "levantar" -> /\ q.quien \in Admins
                              /\ grupos[q.grupo] # Nada /\ grupos[q.grupo].tipo = "BLOQUEO"
      [] q.op = "cancelarSerie" -> /\ grupos[q.grupo] # Nada /\ grupos[q.grupo].tipo = "NORMAL"
                                   /\ PuedeCancelar(grupos[q.grupo].docente, q.quien)
      [] q.op \in {"cancelar", "liberar"} -> reservas[q.id] # Nada
      [] q.op = "cambiar" -> /\ Confirmada(q.id)
                             /\ PuedeVer(grupos[q.id[1]].docente, q.quien)
                             /\ reservas[q.id].equipo # q.nuevo
                             /\ q.nuevo \in Reservables
      [] q.op = "condicion" -> equipos[q.equipo] # q.nueva
      [] OTHER -> TRUE

\* The candidates a request selects at t, without locking them.
Candidatas(q, t) ==
    CASE q.op = "crear" -> {Solapamientos(q.E, q.F)}
      [] q.op = "bloquear" -> {{i \in Ids : Confirmada(i) /\ reservas[i].equipo \in q.E}}
      [] q.op = "levantar" -> {{i \in Ids : i[1] = q.grupo /\ reservas[i] # Nada}}
      [] q.op = "cancelarSerie" ->
            {{i \in Ids : /\ reservas[i] # Nada
                          /\ \/ i[1] = q.grupo
                             \/ /\ ~q.soloEsta /\ grupos[q.grupo].regla # Nada
                                /\ i[1] \in GruposFuturosDeRegla(q.grupo)}}
      [] q.op \in {"cancelar", "liberar"} -> {{q.id}}
      [] q.op = "cambiar" -> {IF q.soloEsta THEN {q.id} ELSE {q.id} \cup SerieDesde(q.id)}
      [] q.op = "sacar" -> {{i \in NoTerminadas(t) : reservas[i].equipo = q.equipo}}
      [] q.op = "sinDocente" ->
            {{i \in NoTerminadas(t) : ~EsBloqueo(i) /\ grupos[i[1]].materia = q.materia}}
      [] q.op = "jornada" -> SUBSET NoEmpezadas(t)
      [] q.op = "finalizar" -> {S \in SUBSET Vencidas(t) : S # {} /\ Cardinality(S) <= Lote}
      [] q.op = "condicion" -> {{}}

\* Begin, the advisory lock, the clock, the validations and the first reading.
Empezar(p, q) ==
    /\ tx[p] = Nada
    /\ PuedeCoordinar(Modo(q))
    /\ Admisible(q, ahora)
    /\ \E S \in Candidatas(q, ahora) :
         tx' = [tx EXCEPT ![p] =
                  [pedido |-> q, fase |-> "tomando", reloj |-> ahora, cascada |-> FALSE,
                   vistas |-> Filas(S), faltan |-> LlavesDe(S), tiene |-> {},
                   releidas |-> << >>, filas |-> << >>, altas |-> << >>, estados |-> << >>]]
    /\ UNCHANGED vars

\* BuscarGruposParaActualizar, one row at a time.
Tomar(p, k) ==
    /\ k \in Primeras(tx[p].faltan)
    /\ \A r \in Abiertas \ {p} : k \notin tx[r].tiene
    /\ tx' = [tx EXCEPT ![p].faltan = @ \ {k}, ![p].tiene = @ \cup {k}]
    /\ UNCHANGED vars

\* The rows again, now locked. What the cascade saw before locking it must be the same.
Releer(p) ==
    /\ tx[p].fase = "tomando" /\ tx[p].faltan = {}
    /\ tx[p].cascada => \A i \in DOMAIN tx[p].vistas : reservas[i] = tx[p].vistas[i]
    /\ tx' = [tx EXCEPT ![p].fase = "releido",
                        ![p].releidas = Filas(Tomadas(tx[p].tiene) \cup DOMAIN tx[p].vistas)]
    /\ UNCHANGED vars

\* The next round of reponerEnCascada: occupants that a displaced class would displace.
Ampliar(p) ==
    /\ tx[p].fase = "releido"
    /\ tx[p].pedido.op = "crear" /\ DOMAIN tx[p].vistas # {}
    /\ \E S \in (SUBSET (NoEmpezadas(tx[p].reloj) \ Tomadas(tx[p].tiene))) \ {{}} :
         tx' = [tx EXCEPT ![p].fase = "tomando", ![p].cascada = TRUE,
                          ![p].vistas = Filas(S), ![p].faltan = LlavesDe(S)]
    /\ UNCHANGED vars

-----------------------------------------------------------------------------
(* What it writes                                                            *)

Tablas(rs, gs) == [rs |-> rs, gs |-> gs, es |-> equipos]

Cierre(S, estado) ==
    Tablas(ConEstado(reservas, S, estado),
           Recalculados(grupos, ConEstado(reservas, S, estado), GruposDe(S)))

\* reservasParaActualizar: a candidate that changed device meanwhile is out of reach.
Alcanzadas(t) == {i \in DOMAIN t.vistas : t.releidas[i].equipo = t.vistas[i].equipo}

Actuales(t) ==
    {i \in DOMAIN t.vistas : /\ t.releidas[i].estado = "CONFIRMADA"
                             /\ t.releidas[i].equipo = t.vistas[i].equipo}

SinTerminar(t) == {i \in DOMAIN t.vistas : t.releidas[i].estado = "CONFIRMADA"}

\* Ids of rows not yet committed by another transaction.
Nuevos == Libres \ UNION {DOMAIN tx[r].altas : r \in Abiertas}

Creacion(q, plan, nuevos, regla) ==
    LET rs == AplicarPlan(reservas, plan) IN
    Tablas(ConFilas(rs, DOMAIN nuevos, q.E),
           Recalculados(ConClases(grupos, nuevos, q.materia, q.quien, regla), rs,
                        GruposDe(Canceladas(plan))))

\* despejarConflictos looks the conflicts up again, now locked.
EscriturasDeCrear(t) ==
    LET q == t.pedido
        iniciales == Solapamientos(q.E, q.F)
        planes == {plan \in PlanesDeReposicion(q.materia, iniciales, t.reloj) :
                      DOMAIN plan \subseteq DOMAIN t.releidas}
    IN IF \E i \in iniciales : reservas[i].equipo \notin q.T THEN {}
       ELSE UNION {{Creacion(q, plan, nuevos, regla) : plan \in planes,
                       nuevos \in Bijection(G, q.F), regla \in ReglaDe(G)} : G \in SUBSET Nuevos}

EscriturasDeBloquear(t) ==
    LET q == t.pedido
        enMedio == {i \in Actuales(t) : ~EsBloqueo(i) /\ Solapan(FranjaDe(i), q.franja)}
        rs == ConEstado(reservas, enMedio, "CANCELADA")
    IN {Tablas(ConFilas(rs, {g}, q.E),
               Recalculados([grupos EXCEPT ![g] = [tipo |-> "BLOQUEO", franja |-> q.franja,
                                                   docente |-> q.quien]],
                            rs, GruposDe(enMedio))) : g \in Nuevos}

\* The tables as the transaction would leave them, from what it read under its locks.
Escrituras(t) ==
    LET q == t.pedido IN
    CASE q.op = "crear" -> EscriturasDeCrear(t)
      [] q.op = "bloquear" -> EscriturasDeBloquear(t)
      [] q.op = "cancelar" ->
            {Cierre({i}, "CANCELADA") : i \in
                {i \in SinTerminar(t) : /\ EsBloqueo(i) => q.quien \in Admins
                                        /\ PuedeCancelar(grupos[i[1]].docente, q.quien)}}
      [] q.op \in {"cancelarSerie", "levantar"} -> {Cierre(SinTerminar(t), "CANCELADA")}
      [] q.op \in {"sinDocente", "jornada"} -> {Cierre(Actuales(t), "CANCELADA")}
      [] q.op = "finalizar" -> {Cierre(Actuales(t), "FINALIZADA")}
      [] q.op = "liberar" ->
            {Cierre({i}, "NO_RETIRADA") : i \in
                {i \in SinTerminar(t) : /\ ~EsBloqueo(i)
                                        /\ PuedeEntregarseEn(FranjaDe(i), "CONFIRMADA", t.reloj)}}
      [] q.op = "cambiar" ->
            {Tablas(ConEquipo(reservas, Actuales(t), q.nuevo), grupos) : i \in
                {i \in Actuales(t) :
                    /\ i = q.id
                    /\ Solapamientos({q.nuevo}, {FranjaDe(j) : j \in Alcanzadas(t)}) = {}}}
      [] q.op = "sacar" ->
            {[Cierre(Actuales(t), "CANCELADA") EXCEPT !.es[q.equipo] = "fuera"] : e \in
                {e \in {q.equipo} : equipos[e] = "fuera" => Actuales(t) # {}}}
      [] q.op = "condicion" -> {[Tablas(reservas, grupos) EXCEPT !.es[q.equipo] = q.nueva]}

Sobre(cambios, tabla) ==
    [x \in DOMAIN tabla |-> IF x \in DOMAIN cambios THEN cambios[x] ELSE tabla[x]]

Cambios(nueva, tabla) == Restrict(nueva, {x \in DOMAIN tabla : nueva[x] # tabla[x]})

\* no_solapamiento holds over the tables w with what every open transaction has written:
\* PostgreSQL makes a writer wait for the end of the one whose row is in its way.
Compatible(w) ==
    \A r \in Abiertas : SinSolapes(Sobre(tx[r].filas, w.rs), Sobre(tx[r].altas, w.gs))

\* GuardarReserva finds the version that was read.
Escribir(p) ==
    /\ tx[p].fase = "releido"
    /\ \E w \in Escrituras(tx[p]) :
         /\ \A i \in DOMAIN Cambios(w.rs, reservas) :
               reservas[i] # Nada => tx[p].releidas[i] = reservas[i]
         /\ Compatible(w)
         /\ tx' = [tx EXCEPT ![p].fase = "escrito",
                             ![p].filas = Cambios(w.rs, reservas),
                             ![p].altas = Cambios(w.gs, grupos),
                             ![p].estados = Cambios(w.es, equipos)]
    /\ UNCHANGED vars

Confirmar(p) ==
    /\ tx[p].fase = "escrito"
    /\ reservas' = Sobre(tx[p].filas, reservas)
    /\ grupos' = Sobre(tx[p].altas, grupos)
    /\ equipos' = Sobre(tx[p].estados, equipos)
    /\ tx' = [tx EXCEPT ![p] = Nada]
    /\ UNCHANGED ahora

\* A failed validation, a lost connection, a deadlock broken by PostgreSQL: ROLLBACK. The
\* retry of Ejecutar begins again.
Abortar(p) ==
    /\ tx[p] # Nada
    /\ tx' = [tx EXCEPT ![p] = Nada]
    /\ UNCHANGED vars

\* A transaction lasts Retraso instants at most.
Avanza ==
    /\ PasaElTiempo
    /\ \A p \in Abiertas : ahora - tx[p].reloj < Retraso
    /\ UNCHANGED tx

Comenzar == \E p \in Procesos, q \in Pedidos : Empezar(p, q)
TomarUna == \E p \in Abiertas : \E k \in Llaves : Tomar(p, k)
Seguir == \E p \in Abiertas : Releer(p) \/ Ampliar(p) \/ Escribir(p)
Terminar == \E p \in Abiertas : Confirmar(p) \/ Abortar(p)

NextC == Comenzar \/ TomarUna \/ Seguir \/ Terminar \/ Avanza

SpecC == InitC /\ [][NextC]_varsC

-----------------------------------------------------------------------------
(* Properties                                                                *)

\* Whatever the interleaving, every commit is one operation of Reservas on the tables it
\* finds: the locks of the code make its transactions atomic.
ImplementaReservas == Init /\ [][UNCHANGED vars \/ Next]_vars

\* What a transaction read again under its locks is still so when it commits, so the
\* check of the version in GuardarReserva never rejects a writer that went through
\* BuscarReservasParaActualizar.
LoReleidoSigueVigente ==
    \A p \in Abiertas :
        tx[p].fase # "tomando" => \A i \in DOMAIN tx[p].releidas : reservas[i] = tx[p].releidas[i]

Espera(p, r) == \E k \in Primeras(tx[p].faltan) : k \in tx[r].tiene

\* Transactions that lock in one go, in the order of the ids, never wait for one another
\* in a circle: only one that reached the second round of a cascade can close a circle.
OrdenFijoSinAbrazos ==
    LET deUnaVez == {p \in Abiertas : ~tx[p].cascada} IN
    \A C \in (SUBSET deUnaVez) \ {{}} : \E p \in C : \A r \in C \ {p} : ~Espera(p, r)
=============================================================================
